-------------------------- MODULE EbpfMonitorProofs --------------------------
(***************************************************************************)
(* Proofs about the Linux monitor with eBPF, for any number of IDs, CPUs,  *)
(* births and events and any size of the ring: the filters of the kernel   *)
(* and of the user side agree, a process is introduced before it is heard, *)
(* and the alerts that join two deeds join those of one process.           *)
(***************************************************************************)
EXTENDS EbpfMonitor, ProcessesProofs

\* Between two slots of the ring there is no exit, or a creation, of an ID.
NoExit(q, i, j)  == \A k \in i..j : ring[k].type = "exit" => ring[k].pid # q
Creates(q, i, j) == \E k \in i..j : ring[k].type = "create" /\ ring[k].pid = q

\* The user side tracks the ID by the time it comes to what follows that slot.
Introduced(q, j) == q \in monitored \/ Creates(q, 1, j)

Typed == TypeOK /\ correlator \in C!EngineType

\* Nothing is traced before the programs are attached.
Dormant == ~attached => ring = <<>> /\ correlator.contacted = {} /\ correlator.written = {}

\* A program runs in a process, alone if it is an exec or the exit of the last thread
\* or if there is but one thread.
Running ==
    \A c \in CPU : cpu[c] # Idle =>
        /\ attached /\ cpu[c].pid \in Living
        /\ cpu[c].type # "create" => cpu[c].leans = NoPid
        /\ (cpu[c].pid \notin Threads \/ cpu[c].type \in {"create", "last"}) => On(cpu[c].pid) = {c}
        /\ cpu[c].pid \notin Threads => cpu[c].pid \in target_pids /\ cpu[c].type # "exit"

\* What the kernel tracks the user side tracks, or will when it comes to the
\* creation that is under way; and it will adopt every process it then hears of.
Agreed ==
    /\ \A q \in target_pids : q \in Making \/ Introduced(q, Len(ring))
    /\ \A c \in CPU : cpu[c] # Idle =>
           /\ cpu[c].leans = NoPid => Introduced(cpu[c].pid, Len(ring))
           /\ cpu[c].leans # NoPid => cpu[c].leans \in Making \/ Introduced(cpu[c].leans, Len(ring))
    /\ \A i \in 1..Len(ring), q \in Pid : ring[i].pid = q => Introduced(q, i)
    /\ \A i \in 1..Len(ring), q \in Pid, r \in Pid \cup {Outside, NoPid} :
           (/\ ring[i].type = "create" /\ ring[i].pid = q /\ ring[i].ppid = r
            /\ ~Introduced(q, i - 1)) => Introduced(r, i - 1)

Deed == {"openat", "write", "connect"}

\* Who did something is what the next event of the ID is about, and lives on and
\* its exit will be submitted unless it is under way.
Owned ==
    \A i \in 1..Len(ring), q \in Pid : (ring[i].type \in Deed /\ ring[i].pid = q) =>
        /\ \A j \in i..Len(ring) :
               (ring[j].pid = q /\ NoExit(q, i, j - 1)) => ring[j].birth = ring[i].birth
        /\ NoExit(q, i, Len(ring)) =>
               q \in Living /\ ExitToCome(q) /\ proc[q].birth = ring[i].birth

Backed(T, b) == \E t \in T : <<t, b>> \in heard

\* The next event of the ID is about somebody a deed of that kind was heard of, and
\* so is who has the ID, unless an exit is under way.
Clean(q, T) ==
    /\ \A i \in 1..Len(ring) :
           (ring[i].pid = q /\ NoExit(q, 1, i - 1)) => Backed(T, ring[i].birth)
    /\ NoExit(q, 1, Len(ring)) =>
           q \in Living /\ ExitToCome(q) /\ Backed(T, proc[q].birth)

\* What the engine keeps under an ID the user side tracks, and it is backed as long as
\* nothing is lost and no call comes after an exit; the filters agree as long as
\* nothing is lost and no creation comes too late.
Told ==
    /\ correlator.contacted \cup correlator.written \subseteq monitored
    /\ (~lost /\ "exec" \notin raced) => Agreed
    /\ (~lost /\ "exit" \notin raced) =>
           /\ Owned
           /\ \A q \in correlator.contacted : Clean(q, {"connect"})
           /\ \A q \in correlator.written : Clean(q, {"openat", "write"})

\* All that is under way of an ID is about process b, which has it if anyone does.
Identity(q, b) ==
    /\ q \in Living => proc[q].birth = b
    /\ \A i \in 1..Len(ring) : ring[i].pid = q => ring[i].birth = b

\* As long as no ID comes back, an ID stands for one process, and those the user
\* side adopted were introduced.
Named ==
    /\ Sample \in used /\ monitored \subseteq used
    /\ \A i \in 1..Len(ring) : ring[i].pid \in used
    /\ NoneReused =>
           /\ Identity(Sample, 1)
           /\ \A q \in used : \E b \in Nat : Identity(q, b)
           /\ \A q \in monitored : q # Sample =>
                  \E b \in Nat : Identity(q, b) /\ <<"create", b>> \in heard

EbpfInv == WorldInv /\ Typed /\ Dormant /\ Running /\ Told /\ Named

-----------------------------------------------------------------------------
(* The ring.                                                                *)
LEMMA EventTyped ==
  ASSUME NEW e \in KernelEvent
  PROVE  /\ e.pid \in Pid /\ e.birth \in 1..MaxBirths /\ e.birth \in Nat /\ e.birth # 0
         /\ e.ppid \in Pid \cup {Outside, NoPid} /\ e.target \in Pid \cup {NoPid}
         /\ e.named \in {"lasting", "reading", "other"} /\ e.type \in EventType
BY ProcessesAssumption DEF KernelEvent

LEMMA RingTyped ==
  ASSUME Typed
  PROVE  Len(ring) \in Nat /\ \A i \in 1..Len(ring) : ring[i] \in KernelEvent
BY DEF Typed, TypeOK

LEMMA Appended ==
  ASSUME Typed, NEW e \in KernelEvent, ring' = Append(ring, e)
  PROVE  /\ ring' \in Seq(KernelEvent) /\ Len(ring') = Len(ring) + 1 /\ Len(ring) \in Nat
         /\ ring'[Len(ring) + 1] = e /\ \A i \in 1..Len(ring) : ring'[i] = ring[i]
         /\ \A q \in Pid \cup {Outside, NoPid} : \A i \in Nat \ {0}, j \in 0..Len(ring) :
                /\ NoExit(q, i, j)' <=> NoExit(q, i, j)
                /\ Creates(q, i, j)' <=> Creates(q, i, j)
<1>1. /\ ring' \in Seq(KernelEvent) /\ Len(ring') = Len(ring) + 1 /\ Len(ring) \in Nat
      /\ ring'[Len(ring) + 1] = e /\ \A i \in 1..Len(ring) : ring'[i] = ring[i]
  BY DEF Typed, TypeOK
<1>2. ASSUME NEW q \in Pid \cup {Outside, NoPid}, NEW i \in Nat \ {0}, NEW j \in 0..Len(ring)
      PROVE  /\ NoExit(q, i, j)' <=> NoExit(q, i, j)
             /\ Creates(q, i, j)' <=> Creates(q, i, j)
  <2>1. \A k \in i..j : k \in 1..Len(ring)
    BY <1>1
  <2> QED BY <1>1, <2>1 DEF NoExit, Creates
<1> QED BY <1>1, <1>2

LEMMA Consumed ==
  ASSUME Typed, ring # <<>>, ring' = Tail(ring)
  PROVE  /\ Head(ring) \in KernelEvent /\ ring[1] = Head(ring) /\ Len(ring) \in Nat /\ 1 <= Len(ring)
         /\ ring' \in Seq(KernelEvent) /\ Len(ring') = Len(ring) - 1
         /\ \A i \in 1..Len(ring') : ring'[i] = ring[i + 1] /\ i + 1 \in 2..Len(ring)
         /\ \A q \in Pid \cup {Outside, NoPid} : \A i \in Nat \ {0}, j \in 0..Len(ring') :
                /\ NoExit(q, i, j)' <=> NoExit(q, i + 1, j + 1)
                /\ Creates(q, i, j)' <=> Creates(q, i + 1, j + 1)
<1>1. /\ Head(ring) \in KernelEvent /\ ring[1] = Head(ring) /\ Len(ring) \in Nat /\ 1 <= Len(ring)
      /\ ring' \in Seq(KernelEvent) /\ Len(ring') = Len(ring) - 1
      /\ \A i \in 1..Len(ring') : ring'[i] = ring[i + 1] /\ i + 1 \in 2..Len(ring)
  BY DEF Typed, TypeOK
<1>2. ASSUME NEW q \in Pid \cup {Outside, NoPid}, NEW i \in Nat \ {0}, NEW j \in 0..Len(ring')
      PROVE  /\ NoExit(q, i, j)' <=> NoExit(q, i + 1, j + 1)
             /\ Creates(q, i, j)' <=> Creates(q, i + 1, j + 1)
  <2>1. j \in Nat /\ i \in Nat /\ 1 <= i /\ j <= Len(ring')
    BY <1>1
  <2>2. \A k \in i..j : k + 1 \in (i + 1)..(j + 1) /\ ring'[k] = ring[k + 1]
    BY <1>1, <2>1
  <2>3. \A k \in (i + 1)..(j + 1) : k - 1 \in i..j /\ ring'[k - 1] = ring[k]
    BY <1>1, <2>1
  <2>4. NoExit(q, i, j)' => NoExit(q, i + 1, j + 1)
    BY <2>3 DEF NoExit
  <2>5. NoExit(q, i + 1, j + 1) => NoExit(q, i, j)'
    BY <2>2 DEF NoExit
  <2>6. Creates(q, i, j)' => Creates(q, i + 1, j + 1)
    BY <2>2 DEF Creates
  <2>7. Creates(q, i + 1, j + 1) => Creates(q, i, j)'
    BY <2>3 DEF Creates
  <2> QED BY <2>4, <2>5, <2>6, <2>7
<1> QED BY <1>1, <1>2

\* A program on a CPU is one that runs in a process.
LEMMA CpuTyped ==
  ASSUME EbpfInv
  PROVE  /\ cpu \in [CPU -> Program \cup {Idle}]
         /\ Idle.pid = NoPid /\ Idle.type = "idle" /\ Idle.leans = NoPid /\ NoPid \notin Pid
         /\ \A c \in CPU : cpu[c] # Idle => cpu[c] \in Program /\ cpu[c].pid \in Pid
         /\ \A p \in Pid : \A c \in CPU : c \in On(p) <=> cpu[c] # Idle /\ cpu[c].pid = p
         /\ \A c \in CPU : cpu[c].type \in EventType \cup {"last"} => cpu[c] # Idle
<1>1. cpu \in [CPU -> Program \cup {Idle}]
  BY DEF EbpfInv, Typed, TypeOK
<1>2. Idle.pid = NoPid /\ Idle.type = "idle" /\ Idle.leans = NoPid /\ NoPid \notin Pid
  BY EbpfMonitorAssumption DEF Idle
<1>3. \A c \in CPU : cpu[c] # Idle => cpu[c] \in Program /\ cpu[c].pid \in Pid
  BY <1>1 DEF Program
<1>4. \A p \in Pid : \A c \in CPU : c \in On(p) <=> cpu[c] # Idle /\ cpu[c].pid = p
  BY <1>2, <1>3 DEF On
<1>5. \A c \in CPU : cpu[c].type \in EventType \cup {"last"} => cpu[c] # Idle
  BY <1>2 DEF EventType
<1> QED BY <1>1, <1>2, <1>3, <1>4, <1>5

-----------------------------------------------------------------------------
(* The kernel's steps: the world moves, a program comes on a CPU, or one    *)
(* leaves it and an event about a living process is submitted.              *)
Still ==
    /\ UNCHANGED <<target_pids, cpu>>
    /\ \A q \in Living : (attached /\ q \in target_pids) \/ On(q) # {} =>
           q \in Living' /\ proc'[q].birth = proc[q].birth

Starts(c, r) ==
    /\ UNCHANGED worldVars /\ attached /\ attached'
    /\ cpu[c] = Idle /\ cpu' = [cpu EXCEPT ![c] = r]
    /\ r.pid \in Living /\ target_pids' = target_pids \cup {r.pid}
    /\ r.leans = NoPid => r.pid \in target_pids
    /\ r.leans # NoPid => r.leans \in target_pids /\ r.type = "create"
    /\ (r.pid \notin Threads \/ r.type \in {"create", "last"}) => On(r.pid) = {}
    /\ \A d \in On(r.pid) : cpu[d].type \notin {"create", "last"}
    /\ r.type = "exit" => r.pid \in Threads

Quiet ==
    /\ UNCHANGED <<ring, submitted, lost, raced>>
    /\ Still \/ \E c \in CPU, r \in Program : Starts(c, r)

Late(c) ==
    /\ cpu[c].leans # NoPid
    /\ proc[cpu[c].pid].ppid \notin monitored \cup ({cpu[c].leans} \ Making)

Said(c, e) ==
    /\ attached' = attached /\ submitted' = submitted + 1 /\ submitted < MaxEvents /\ lost' \in BOOLEAN
    /\ cpu[c] # Idle /\ cpu' = [cpu EXCEPT ![c] = Idle]
    /\ e.pid = cpu[c].pid /\ e.birth = proc[e.pid].birth /\ e.ppid = proc[e.pid].ppid
    /\ \/ ring' = Append(ring, e) /\ Len(ring) < RingSize /\ lost' = lost
       \/ ring' = ring /\ lost'
    /\ \/ /\ e.type = "create" /\ cpu[c].type = "create"
          /\ UNCHANGED <<worldVars, target_pids>>
          /\ raced' = IF Late(c) THEN raced \cup {"exec"} ELSE raced
       \/ /\ e.type = "exit" /\ cpu[c].type \in {"exit", "last"}
          /\ target_pids' = target_pids \ {e.pid} /\ raced' = raced
       \/ /\ e.type \notin {"create", "exit"} /\ cpu[c].type \notin {"create", "exit", "last"}
          /\ UNCHANGED <<worldVars, target_pids>>
          /\ raced' = IF ExitToCome(e.pid) THEN raced ELSE raced \cup {"exit"}
    /\ \A q \in Living : q # e.pid \/ cpu[c].type # "last" =>
           q \in Living' /\ proc'[q].birth = proc[q].birth
    /\ cpu[c].type = "last" => e.pid \notin Living'

Tells == Quiet \/ \E c \in CPU, e \in KernelEvent : Said(c, e)

\* The event a program submits.
LEMMA Submitted ==
  ASSUME EbpfInv, NEW p \in Living, NEW target \in Pid \cup {NoPid}, NEW type \in EventType,
         NEW named \in {"lasting", "reading", "other"}, Submit(type, p, target, named)
  PROVE  \E e \in KernelEvent :
             /\ e.type = type /\ e.pid = p /\ e.ppid = proc[p].ppid /\ e.birth = proc[p].birth
             /\ submitted' = submitted + 1 /\ submitted < MaxEvents /\ lost' \in BOOLEAN
             /\ \/ ring' = Append(ring, e) /\ Len(ring) < RingSize /\ lost' = lost
                \/ ring' = ring /\ lost'
<1> DEFINE e == [type |-> type, pid |-> p, ppid |-> proc[p].ppid, birth |-> proc[p].birth,
                 target |-> target, named |-> named]
<1>1. p \in Pid /\ proc[p] \in Process /\ proc[p].birth # 0
  BY DEF EbpfInv, WorldInv, WorldTypeOK, Living
<1>2. e \in KernelEvent
  <2>1. proc[p].ppid \in Pid \cup {Outside} /\ proc[p].birth \in 1..MaxBirths
    BY <1>1, ProcessesAssumption DEF Process
  <2> QED BY <1>1, <2>1 DEF KernelEvent
<1>3. e.type = type /\ e.pid = p /\ e.ppid = proc[p].ppid /\ e.birth = proc[p].birth
  OBVIOUS
<1>4. /\ submitted' = submitted + 1 /\ submitted < MaxEvents
      /\ ring' = IF Len(ring) < RingSize THEN Append(ring, e) ELSE ring
      /\ lost' = (lost \/ Len(ring) = RingSize)
  BY DEF Submit
<1> HIDE DEF e
<1>6. Len(ring) <= RingSize /\ Len(ring) \in Nat /\ RingSize \in Nat /\ lost \in BOOLEAN
  BY EbpfMonitorAssumption DEF EbpfInv, Typed, TypeOK
<1>7. \/ ring' = Append(ring, e) /\ Len(ring) < RingSize /\ lost' = lost
      \/ ring' = ring /\ lost'
  <2>1. CASE Len(ring) < RingSize
    <3>1. (lost \/ Len(ring) = RingSize) = lost
      BY <1>6, <2>1
    <3> QED BY <1>4, <2>1, <3>1
  <2>2. CASE Len(ring) = RingSize
    <3>1. lost'
      BY <1>4, <2>2, Zenon
    <3>2. ring' = ring
      BY <1>4, <1>6, <2>2
    <3> QED BY <3>1, <3>2
  <2> QED BY <1>6, <2>1, <2>2
<1>8. lost' \in BOOLEAN
  BY <1>4, Zenon
<1> QED BY <1>2, <1>3, <1>4, <1>7, <1>8

\* An end takes its own process only.
LEMMA EndsAlone ==
  ASSUME EbpfInv, NEW p \in Pid, End(p)
  PROVE  /\ p \in Living /\ p \notin Living'
         /\ \A q \in Living : q # p => q \in Living' /\ proc'[q].birth = proc[q].birth
<1>1. proc \in [Pid -> Process]
  BY DEF EbpfInv, WorldInv, WorldTypeOK
<1>2. p \in Living /\ Exit(p)
      /\ ((Namespaces /\ proc[p].birth = 1) => \A q \in Living : proc[q].tree => q = p)
  BY DEF End, Exit
<1>3. ASSUME NEW q \in Living, q # p  PROVE proc'[q].birth = proc[q].birth
  <2> DEFINE adopter == IF Namespaces /\ proc[q].tree THEN Sample ELSE Outside
  <2>1. q \in Pid /\ ~(Namespaces /\ proc[p].birth = 1 /\ proc[q].tree)
    BY <1>2, <1>3 DEF Living
  <2>2. proc'[q] = IF proc[q].ppid = p THEN [proc[q] EXCEPT !.ppid = adopter] ELSE proc[q]
    BY <1>2, <1>3, <2>1 DEF Exit
  <2> HIDE DEF adopter
  <2> QED BY <1>1, <2>1, <2>2 DEF Process
<1>4. p \notin Living'
  BY <1>2 DEF Exit, Living, Free
<1> QED BY <1>2, <1>3, <1>4 DEF Living

LEMMA WorldIsKept ==
  ASSUME EbpfInv, World \/ UNCHANGED worldVars
  PROVE  /\ \A p \in Living' : p \in Living => proc'[p].birth = proc[p].birth
         /\ used \subseteq used' /\ (NoneReused' => NoneReused)
         /\ NoneReused' => \A p \in Living' : p \in Living \/ p \notin used
         /\ WorldInv'
<1>1. CASE World
  BY <1>1, WorldKeeps, WorldStep DEF EbpfInv
<1>2. CASE UNCHANGED worldVars
  BY <1>2 DEF worldVars, NoneReused, Living, EbpfInv, WorldInv, WorldTypeOK, Numbered, Related, Wired
<1> QED BY <1>1, <1>2

\* A start takes a free ID; other deeds change no life.
LEMMA LivesGoOn ==
  ASSUME EbpfInv,
         \/ \E p \in Pid : \E parent \in Living \cup {Outside} : Fork(parent, p)
         \/ \E p \in Pid : OpenFile(p)
         \/ UNCHANGED worldVars
  PROVE  \A q \in Living : q \in Living' /\ proc'[q].birth = proc[q].birth
<1>1. proc \in [Pid -> Process]
  BY DEF EbpfInv, WorldInv, WorldTypeOK
<1>2. CASE \E p \in Pid : \E parent \in Living \cup {Outside} : Fork(parent, p)
  BY <1>1, <1>2, SpawnedAnew DEF Fork, EbpfInv, Living
<1>3. CASE \E p \in Pid : OpenFile(p)
  <2>1. PICK p \in Pid : OpenFile(p)
    BY <1>3
  <2>2. /\ \A q \in Pid : q # p => proc'[q] = proc[q]
        /\ proc'[p].birth = proc[p].birth
    BY <1>1, <2>1 DEF OpenFile, Process
  <2> QED BY <2>2 DEF Living
<1>4. CASE UNCHANGED worldVars
  BY <1>4 DEF worldVars, Living
<1> QED BY <1>2, <1>3, <1>4

\* The first half of a program that does not look in vain.
LEMMA Enters ==
  ASSUME EbpfInv, NEW p \in Living, NEW type \in EventType \cup {"last"},
         NEW leans \in Pid \cup {NoPid}, NEW target \in Pid \cup {NoPid},
         Enter(type, p, leans, target), UNCHANGED worldVars, Silent, attached,
         target_pids' = target_pids \cup {p}, leans = NoPid => p \in target_pids,
         leans # NoPid => leans \in target_pids /\ type = "create",
         (p \notin Threads \/ type \in {"create", "last"}) => On(p) = {},
         \A d \in On(p) : cpu[d].type \notin {"create", "last"},
         type = "exit" => p \in Threads
  PROVE  Quiet
<1> DEFINE r == [type |-> type, pid |-> p, leans |-> leans, target |-> target]
<1>1. p \in Pid
  BY DEF Living
<1>2. r \in Program /\ r.type = type /\ r.pid = p /\ r.leans = leans
  BY <1>1 DEF Program
<1>3. PICK c \in CPU : cpu[c] = Idle /\ cpu' = [cpu EXCEPT ![c] = r]
  BY DEF Enter
<1> HIDE DEF r
<1>4. Starts(c, r)
  BY <1>2, <1>3 DEF Starts, Silent
<1> QED BY <1>2, <1>4 DEF Quiet, Silent

LEMMA CallsEnter ==
  ASSUME EbpfInv, NEW p \in Pid, NEW target \in Pid \cup {NoPid},
         NEW type \in {"exit", "openat", "write", "connect", "ptrace"}, Traced(type, p, target),
         type = "exit" => p \in Threads
  PROVE  Quiet
<1>1. /\ attached /\ p \in Living /\ p \in target_pids /\ Enter(type, p, NoPid, target)
      /\ \A c \in On(p) : p \in Threads /\ cpu[c].type \notin {"create", "last"}
      /\ UNCHANGED worldVars /\ target_pids' = target_pids /\ Silent
  BY DEF Traced, Able
<1>2. target_pids' = target_pids \cup {p}
  BY <1>1
<1>3. type \in EventType \cup {"last"} /\ type \notin {"create", "last"}
  BY DEF EventType
<1>4. p \notin Threads => On(p) = {}
  BY <1>1
<1> QED BY <1>1, <1>2, <1>3, <1>4, Enters

LEMMA ExecEnters ==
  ASSUME EbpfInv, NEW p \in Pid, HandleProcessExec(p)
  PROVE  Quiet
<1> DEFINE leans == IF p \in target_pids THEN NoPid ELSE proc[p].ppid
<1>1. /\ attached /\ p \in Living /\ On(p) = {} /\ UNCHANGED worldVars /\ Silent
      /\ p \in target_pids \/ proc[p].ppid \in target_pids
      /\ target_pids' = target_pids \cup {p} /\ Enter("create", p, leans, NoPid)
  BY DEF HandleProcessExec
<1>2. target_pids \subseteq Pid /\ NoPid \notin Pid
  BY EbpfMonitorAssumption DEF EbpfInv, Typed, TypeOK
<1>3. /\ leans \in Pid \cup {NoPid} /\ (leans = NoPid => p \in target_pids)
      /\ leans # NoPid => leans \in target_pids
  BY <1>1, <1>2
<1> HIDE DEF leans
<1>4. "create" \in EventType
  BY DEF EventType
<1> QED BY <1>1, <1>3, <1>4, Enters

\* The second half: the event is about the process the program runs in.
LEMMA ProgramSays ==
  ASSUME EbpfInv, NEW c \in CPU, SubmitExec(c) \/ SubmitExit(c) \/ SubmitCall(c)
  PROVE  (World \/ UNCHANGED worldVars) /\ \E e \in KernelEvent : Said(c, e)
<1> DEFINE p == cpu[c].pid
           Common(e) ==
             /\ attached' = attached /\ submitted' = submitted + 1 /\ submitted < MaxEvents
             /\ lost' \in BOOLEAN /\ cpu[c] # Idle /\ cpu' = [cpu EXCEPT ![c] = Idle]
             /\ e.pid = cpu[c].pid /\ e.birth = proc[e.pid].birth /\ e.ppid = proc[e.pid].ppid
             /\ \/ ring' = Append(ring, e) /\ Len(ring) < RingSize /\ lost' = lost
                \/ ring' = ring /\ lost'
           Gone(e, type) ==
             /\ e.type = type /\ e.pid = p /\ e.ppid = proc[p].ppid /\ e.birth = proc[p].birth
             /\ submitted' = submitted + 1 /\ submitted < MaxEvents /\ lost' \in BOOLEAN
             /\ \/ ring' = Append(ring, e) /\ Len(ring) < RingSize /\ lost' = lost
                \/ ring' = ring /\ lost'
<1>1. cpu[c] # Idle
  BY CpuTyped DEF SubmitExec, SubmitExit, SubmitCall, EventType
<1>2. p \in Living /\ p \in Pid /\ cpu[c].target \in Pid \cup {NoPid}
  BY <1>1, CpuTyped DEF EbpfInv, Running, Program
<1>3. Leave(c)
  BY DEF SubmitExec, SubmitExit, SubmitCall
<1>l. ASSUME UNCHANGED worldVars
      PROVE  \A q \in Living : q \in Living' /\ proc'[q].birth = proc[q].birth
  BY <1>l, LivesGoOn
<1>c. ASSUME NEW e \in KernelEvent, NEW type, Gone(e, type)  PROVE Common(e)
  BY <1>1, <1>3, <1>c DEF Leave
<1>t. "create" \in EventType /\ "exit" \in EventType /\ "other" \in {"lasting", "reading", "other"}
      /\ \A type \in {"openat", "write", "connect", "ptrace"} : type \in EventType
  BY DEF EventType
<1>s. ASSUME NEW target \in Pid \cup {NoPid}, NEW type \in EventType,
             NEW named \in {"lasting", "reading", "other"}, Submit(type, p, target, named)
      PROVE  \E e \in KernelEvent : Gone(e, type)
  <2>1. PICK x \in Living : x = p
    BY <1>2
  <2>2. Submit(type, x, target, named)
    BY <1>s, <2>1
  <2>3. PICK e \in KernelEvent :
             /\ e.type = type /\ e.pid = x /\ e.ppid = proc[x].ppid /\ e.birth = proc[x].birth
             /\ submitted' = submitted + 1 /\ submitted < MaxEvents /\ lost' \in BOOLEAN
             /\ \/ ring' = Append(ring, e) /\ Len(ring) < RingSize /\ lost' = lost
                \/ ring' = ring /\ lost'
    BY <1>s, <2>2, Submitted
  <2>4. Gone(e, type)
    BY <2>1, <2>3
  <2> QED BY <2>4
<1>4. CASE SubmitExec(c)
  <2>1. /\ cpu[c].type = "create" /\ Submit("create", p, NoPid, "other")
        /\ raced' = IF Late(c) THEN raced \cup {"exec"} ELSE raced
        /\ UNCHANGED <<worldVars, target_pids>>
    BY <1>4 DEF SubmitExec, Late
  <2>2. PICK e \in KernelEvent : Gone(e, "create")
    BY <1>t, <1>s, <2>1
  <2>3. Said(c, e)
    <3>1. Common(e) /\ e.type = "create"
      BY <1>c, <2>2
    <3>2. \A q \in Living : q \in Living' /\ proc'[q].birth = proc[q].birth
      BY <1>l, <2>1
    <3> HIDE DEF p, Gone
    <3> QED BY <2>1, <3>1, <3>2 DEF Said
  <2> QED BY <2>1, <2>3
<1>5. CASE SubmitExit(c)
  <2>1. /\ cpu[c].type \in {"exit", "last"} /\ Submit("exit", p, NoPid, "other")
        /\ target_pids' = target_pids \ {p} /\ raced' = raced
        /\ IF cpu[c].type = "last" THEN End(p) ELSE UNCHANGED worldVars
    BY <1>5 DEF SubmitExit
  <2>2. PICK e \in KernelEvent : Gone(e, "exit")
    BY <1>t, <1>s, <2>1
  <2>3. CASE cpu[c].type = "last"
    <3>1. /\ p \notin Living' /\ World
          /\ \A q \in Living : q # p => q \in Living' /\ proc'[q].birth = proc[q].birth
      BY <1>2, <2>1, <2>3, EndsAlone DEF End, World
    <3>2. Common(e) /\ e.type = "exit" /\ e.pid = p
      BY <1>c, <2>2
    <3>3. Said(c, e)
      <4> HIDE DEF Gone
      <4> QED BY <2>1, <2>3, <3>1, <3>2 DEF Said
    <3> QED BY <3>1, <3>3
  <2>4. CASE cpu[c].type = "exit"
    <3>1. UNCHANGED worldVars
      BY <2>1, <2>4
    <3>2. Common(e) /\ e.type = "exit" /\ e.pid = p
      BY <1>c, <2>2
    <3>3. \A q \in Living : q \in Living' /\ proc'[q].birth = proc[q].birth
      BY <1>l, <3>1
    <3>4. Said(c, e)
      <4> HIDE DEF Gone
      <4> QED BY <2>1, <2>4, <3>2, <3>3 DEF Said
    <3> QED BY <3>1, <3>4
  <2> QED BY <2>1, <2>3, <2>4
<1>6. CASE SubmitCall(c)
  <2>1. /\ cpu[c].type \in {"openat", "write", "connect", "ptrace"}
        /\ raced' = IF ExitToCome(p) THEN raced ELSE raced \cup {"exit"}
        /\ UNCHANGED <<worldVars, target_pids>>
    BY <1>6 DEF SubmitCall
  <2>2. PICK named \in {"lasting", "reading", "other"} : Submit(cpu[c].type, p, cpu[c].target, named)
    <3>1. (IF cpu[c].type = "openat" THEN {"lasting", "reading"} ELSE {"other"})
              \subseteq {"lasting", "reading", "other"}
      OBVIOUS
    <3>2. \E named \in IF cpu[c].type = "openat" THEN {"lasting", "reading"} ELSE {"other"} :
              Submit(cpu[c].type, p, cpu[c].target, named)
      BY <1>6 DEF SubmitCall
    <3> QED BY <3>1, <3>2
  <2>3. PICK e \in KernelEvent : Gone(e, cpu[c].type)
    BY <1>2, <1>t, <1>s, <2>1, <2>2
  <2>4. Said(c, e)
    <3>1. Common(e) /\ e.type = cpu[c].type /\ e.pid = p
      BY <1>c, <2>3
    <3>2. \A q \in Living : q \in Living' /\ proc'[q].birth = proc[q].birth
      BY <1>l, <2>1
    <3>3. cpu[c].type \notin {"create", "exit", "last"}
      BY <2>1
    <3> HIDE DEF Gone
    <3> QED BY <2>1, <3>1, <3>2, <3>3 DEF Said
  <2> QED BY <2>1, <2>4
<1> QED BY <1>4, <1>5, <1>6

LEMMA KernelSays ==
  ASSUME EbpfInv, StartEBPF \/ Kernel \/ Stop
  PROVE  /\ UNCHANGED <<monitored, correlator, shown, raised, heard>>
         /\ World \/ UNCHANGED worldVars
         /\ attached => attached'
         /\ attached' \in BOOLEAN /\ stopped' \in BOOLEAN
         /\ Tells
<1> DEFINE Kept == /\ UNCHANGED <<monitored, correlator, shown, raised, heard>>
                   /\ attached => attached'
                   /\ attached' \in BOOLEAN /\ stopped' \in BOOLEAN
<1>0. attached \in BOOLEAN /\ stopped \in BOOLEAN
  BY DEF EbpfInv, Typed, TypeOK
<1>l. ASSUME UNCHANGED worldVars
      PROVE  \A q \in Living : q \in Living' /\ proc'[q].birth = proc[q].birth
  BY <1>l, LivesGoOn
<1>1. CASE StartEBPF \/ Stop
  <2>1. /\ UNCHANGED worldVars
        /\ UNCHANGED <<ring, target_pids, cpu, submitted, lost, raced>>
    BY <1>1 DEF StartEBPF, Stop, kernelVars
  <2>2. Quiet
    BY <1>l, <2>1 DEF Quiet, Still
  <2>3. Kept
    BY <1>0, <1>1 DEF StartEBPF, Stop, kernelVars, userVars
  <2> QED BY <2>1, <2>2, <2>3 DEF Tells
<1>2. CASE Untraced
  <2>1. /\ \/ \E p \in Pid : \E parent \in Living \cup {Outside} : Fork(parent, p)
           \/ \E p \in Pid : OpenFile(p)
        /\ UNCHANGED <<kernelVars, userVars>>
    BY <1>2 DEF Untraced, Able
  <2>2. World
    BY <2>1 DEF World
  <2>3. Quiet /\ Kept
    BY <1>0, <2>1, LivesGoOn DEF kernelVars, userVars, Quiet, Still
  <2> QED BY <2>2, <2>3 DEF Tells
<1>3. ASSUME NEW p \in Pid,
             \/ HandleProcessExec(p) \/ HandleProcessExit(p) \/ HandleThreadExit(p)
             \/ HandleSysOpenat(p) \/ HandleSysWrite(p) \/ HandleSysConnect(p)
             \/ \E target \in Pid : HandleSysPtrace(p, target)
      PROVE  Kept /\ (World \/ UNCHANGED worldVars) /\ Quiet
  <2>0. Silent
    BY <1>3 DEF HandleProcessExec, HandleProcessExit, HandleThreadExit, HandleSysOpenat,
                HandleSysWrite, HandleSysConnect, HandleSysPtrace, Traced
  <2>k. Kept
    BY <1>0, <2>0 DEF Silent, userVars
  <2>1. CASE HandleProcessExec(p)
    BY <2>k, <2>1, ExecEnters DEF HandleProcessExec
  <2>2. CASE HandleProcessExit(p)
    <3>1. p \in Living /\ On(p) = {} /\ target_pids' = target_pids
      BY <2>2 DEF HandleProcessExit
    <3>2. CASE attached /\ p \in target_pids
      <4>1. Enter("last", p, NoPid, NoPid) /\ UNCHANGED worldVars
        BY <2>2, <3>2 DEF HandleProcessExit
      <4>2. target_pids' = target_pids \cup {p}
        BY <3>1, <3>2
      <4>3. Quiet
        BY <2>0, <3>1, <3>2, <4>1, <4>2, Enters
      <4> QED BY <2>k, <4>1, <4>3
    <3>3. CASE ~(attached /\ p \in target_pids)
      <4>1. End(p) /\ UNCHANGED cpu
        BY <2>2, <3>3 DEF HandleProcessExit
      <4>2. \A q \in Living : q # p => q \in Living' /\ proc'[q].birth = proc[q].birth
        BY <4>1, EndsAlone
      <4>3. Still
        BY <3>1, <3>3, <4>1, <4>2 DEF Still
      <4>4. Quiet /\ World
        BY <2>0, <4>1, <4>3 DEF Quiet, Silent, End, World
      <4> QED BY <2>k, <4>4
    <3> QED BY <3>2, <3>3
  <2>3. CASE HandleThreadExit(p)
    <3>1. Traced("exit", p, NoPid) /\ p \in Threads
      BY <2>3 DEF HandleThreadExit
    <3>2. Quiet
      BY <3>1, CallsEnter
    <3> QED BY <2>k, <3>1, <3>2 DEF Traced
  <2>4. CASE HandleSysOpenat(p) \/ HandleSysConnect(p) \/ HandleSysWrite(p)
    <3>1. PICK type \in {"openat", "connect", "write"} : Traced(type, p, NoPid)
      BY <2>4 DEF HandleSysOpenat, HandleSysConnect, HandleSysWrite
    <3>2. Quiet
      BY <3>1, CallsEnter
    <3> QED BY <2>k, <3>1, <3>2 DEF Traced
  <2>5. ASSUME NEW target \in Pid, HandleSysPtrace(p, target)
        PROVE  UNCHANGED worldVars /\ Quiet
    <3>1. Traced("ptrace", p, target)
      BY <2>5 DEF HandleSysPtrace
    <3>2. Quiet
      BY <3>1, CallsEnter
    <3> QED BY <3>1, <3>2 DEF Traced
  <2> QED BY <1>3, <2>k, <2>1, <2>2, <2>3, <2>4, <2>5
<1>4. ASSUME NEW c \in CPU, SubmitExec(c) \/ SubmitExit(c) \/ SubmitCall(c)
      PROVE  Kept /\ (World \/ UNCHANGED worldVars) /\ Tells
  <2>1. Leave(c)
    BY <1>4 DEF SubmitExec, SubmitExit, SubmitCall
  <2>2. Kept
    BY <1>0, <2>1 DEF Leave, userVars
  <2> QED BY <1>4, <2>2, ProgramSays DEF Tells
<1>5. CASE Kernel
  BY <1>2, <1>3, <1>4, <1>5 DEF Kernel, Tells
<1> QED BY <1>1, <1>5

-----------------------------------------------------------------------------
(* What the kernel's steps keep.                                            *)
LEMMA Started ==
  ASSUME EbpfInv, NEW c \in CPU, NEW r \in Program, Starts(c, r)
  PROVE  /\ r.pid \in Pid /\ r # Idle /\ cpu'[c] = r
         /\ \A d \in CPU : d # c => cpu'[d] = cpu[d]
         /\ \A q \in Pid : On(q)' = IF q = r.pid THEN On(q) \cup {c} ELSE On(q)
         /\ Making' = IF r.type = "create" THEN Making \cup {r.pid} ELSE Making
         /\ \A q \in Pid : ExitToCome(q) => ExitToCome(q)'
<1>1. /\ r.pid \in Pid /\ r # Idle /\ cpu \in [CPU -> Program \cup {Idle}]
      /\ cpu[c] = Idle /\ cpu' = [cpu EXCEPT ![c] = r]
      /\ Idle.pid \notin Pid /\ Idle.type = "idle"
  BY CpuTyped DEF Starts, Program
<1>2. cpu'[c] = r /\ \A d \in CPU : d # c => cpu'[d] = cpu[d]
  BY <1>1
<1>3. ASSUME NEW q \in Pid  PROVE On(q)' = IF q = r.pid THEN On(q) \cup {c} ELSE On(q)
  BY <1>1, <1>2 DEF On
<1>4. Making' = IF r.type = "create" THEN Making \cup {r.pid} ELSE Making
  BY <1>1, <1>2 DEF Making
<1>5. ASSUME NEW q \in Pid, ExitToCome(q)  PROVE ExitToCome(q)'
  <2>1. CASE q \in target_pids
    BY <2>1 DEF ExitToCome, Starts
  <2>2. ASSUME NEW d \in On(q), cpu[d].type \in {"exit", "last"}  PROVE ExitToCome(q)'
    <3>1. d \in CPU /\ d # c /\ d \in On(q)'
      BY <1>1, <1>3, <2>2 DEF On
    <3>2. cpu'[d].type \in {"exit", "last"}
      BY <1>2, <2>2, <3>1
    <3> QED BY <3>1, <3>2 DEF ExitToCome
  <2> QED BY <1>5, <2>1, <2>2 DEF ExitToCome
<1> QED BY <1>1, <1>2, <1>3, <1>4, <1>5

LEMMA Left ==
  ASSUME EbpfInv, NEW c \in CPU, NEW e \in KernelEvent, Said(c, e)
  PROVE  /\ e.pid \in Living /\ e.pid \in Pid /\ attached /\ cpu'[c] = Idle
         /\ \A d \in CPU : d # c => cpu'[d] = cpu[d]
         /\ \A q \in Pid : On(q)' = On(q) \ {c}
         /\ e.type = "create" => Making' = Making \ {e.pid} /\ e.pid \in Making
         /\ e.type # "create" => Making' = Making
         /\ \A q \in Pid : ExitToCome(q) /\ ~(q = e.pid /\ e.type = "exit") => ExitToCome(q)'
<1>1. /\ cpu \in [CPU -> Program \cup {Idle}] /\ cpu[c] # Idle
      /\ cpu' = [cpu EXCEPT ![c] = Idle] /\ e.pid = cpu[c].pid
      /\ Idle.pid \notin Pid /\ Idle.type = "idle"
      /\ \A d \in CPU : cpu[d] # Idle => cpu[d].pid \in Pid
      /\ \A d \in CPU : cpu[d].type = "create" => cpu[d] # Idle
  BY CpuTyped DEF Said
<1>2. cpu'[c] = Idle /\ \A d \in CPU : d # c => cpu'[d] = cpu[d]
  BY <1>1
<1>3. e.pid \in Living /\ e.pid \in Pid /\ attached
  BY <1>1 DEF EbpfInv, Running
<1>4. ASSUME NEW q \in Pid  PROVE On(q)' = On(q) \ {c}
  BY <1>1, <1>2 DEF On
<1>5. ASSUME e.type = "create"  PROVE Making' = Making \ {e.pid} /\ e.pid \in Making
  <2>1. cpu[c].type = "create"
    BY <1>5 DEF Said
  <2>2. On(e.pid) = {c}
    BY <1>1, <2>1 DEF EbpfInv, Running
  <2>3. \A d \in CPU : d # c => cpu[d].pid # e.pid
    BY <1>3, <2>2 DEF On
  <2>4. e.pid \in Making
    BY <1>1, <2>1 DEF Making
  <2>5. ASSUME NEW q  PROVE q \in Making' <=> q \in Making \ {e.pid}
    <3>1. ASSUME q \in Making'  PROVE q \in Making \ {e.pid}
      <4>1. PICK d \in CPU : cpu'[d].type = "create" /\ q = cpu'[d].pid
        BY <3>1 DEF Making
      <4>2. d # c
        BY <1>1, <1>2, <4>1
      <4>3. cpu[d].type = "create" /\ q = cpu[d].pid
        BY <1>2, <4>1, <4>2
      <4> QED BY <2>3, <4>2, <4>3 DEF Making
    <3>2. ASSUME q \in Making, q # e.pid  PROVE q \in Making'
      <4>1. PICK d \in CPU : cpu[d].type = "create" /\ q = cpu[d].pid
        BY <3>2 DEF Making
      <4>2. d # c
        BY <1>1, <3>2, <4>1
      <4>3. cpu'[d].type = "create" /\ q = cpu'[d].pid
        BY <1>2, <4>1, <4>2
      <4> QED BY <4>3 DEF Making
    <3> QED BY <3>1, <3>2
  <2> QED BY <2>4, <2>5
<1>6. ASSUME e.type # "create"  PROVE Making' = Making
  <2>1. cpu[c].type # "create"
    BY <1>6 DEF Said
  <2>2. \A d \in CPU : cpu'[d].type = "create" <=> cpu[d].type = "create"
    BY <1>1, <1>2, <2>1
  <2>3. \A d \in CPU : cpu[d].type = "create" => cpu'[d] = cpu[d]
    BY <1>2, <2>1
  <2> QED BY <2>2, <2>3 DEF Making
<1>7. ASSUME NEW q \in Pid, ExitToCome(q), ~(q = e.pid /\ e.type = "exit")  PROVE ExitToCome(q)'
  <2>1. CASE q \in target_pids
    BY <1>7, <2>1 DEF ExitToCome, Said
  <2>2. ASSUME NEW d \in On(q), cpu[d].type \in {"exit", "last"}  PROVE ExitToCome(q)'
    <3>1. d \in CPU /\ cpu[d].pid = q
      BY <2>2 DEF On
    <3>2. d # c
      BY <1>1, <1>7, <2>2, <3>1 DEF Said
    <3>3. d \in On(q)' /\ cpu'[d].type \in {"exit", "last"}
      BY <1>2, <1>4, <2>2, <3>1, <3>2
    <3> QED BY <3>3 DEF ExitToCome
  <2> QED BY <1>7, <2>1, <2>2 DEF ExitToCome
<1> QED BY <1>2, <1>3, <1>4, <1>5, <1>6, <1>7

\* A program runs in a process that goes on until it has submitted.
LEMMA KernelKeepsRunning ==
  ASSUME EbpfInv, Tells, attached => attached'
  PROVE  Running'
<1>1. Running /\ \A c \in CPU : cpu[c] # Idle => cpu[c].pid \in Pid
  BY CpuTyped DEF EbpfInv
<1>2. CASE Still
  <2>1. cpu' = cpu /\ target_pids' = target_pids /\ \A q : On(q)' = On(q)
    BY <1>2 DEF Still, On
  <2>2. ASSUME NEW c \in CPU, cpu[c] # Idle  PROVE cpu[c].pid \in Living'
    <3>1. c \in On(cpu[c].pid) /\ cpu[c].pid \in Living
      BY <1>1, <2>2 DEF On, Running
    <3> QED BY <1>2, <3>1 DEF Still
  <2> QED BY <1>1, <2>1, <2>2 DEF Running
<1>3. ASSUME NEW c \in CPU, NEW r \in Program, Starts(c, r)  PROVE Running'
  <2>1. /\ r.pid \in Pid /\ r # Idle /\ cpu'[c] = r
        /\ \A d \in CPU : d # c => cpu'[d] = cpu[d]
        /\ \A q \in Pid : On(q)' = IF q = r.pid THEN On(q) \cup {c} ELSE On(q)
    BY <1>3, Started
  <2>2. Living' = Living /\ attached' /\ target_pids' = target_pids \cup {r.pid}
        /\ r.pid \in Living
    BY <1>3 DEF Starts, worldVars, Living
  <2>3. ASSUME NEW d \in CPU, cpu'[d] # Idle
        PROVE  /\ attached' /\ cpu'[d].pid \in Living'
               /\ cpu'[d].type # "create" => cpu'[d].leans = NoPid
               /\ (cpu'[d].pid \notin Threads \/ cpu'[d].type \in {"create", "last"}) =>
                      On(cpu[d].pid)' = {d}
               /\ cpu'[d].pid \notin Threads => cpu'[d].pid \in target_pids' /\ cpu'[d].type # "exit"
    <3>1. CASE d = c
      <4>1. /\ r.type # "create" => r.leans = NoPid
            /\ (r.pid \notin Threads \/ r.type \in {"create", "last"}) => On(r.pid) = {}
            /\ r.type = "exit" => r.pid \in Threads
        BY <1>3 DEF Starts
      <4>2. On(r.pid)' = On(r.pid) \cup {c}
        BY <2>1
      <4> QED BY <2>1, <2>2, <3>1, <4>1, <4>2
    <3>2. CASE d # c
      <4>1. cpu'[d] = cpu[d] /\ cpu[d] # Idle /\ cpu[d].pid \in Pid
        BY <1>1, <2>1, <2>3, <3>2
      <4>2. CASE cpu[d].pid = r.pid
        <5>1. d \in On(r.pid)
          BY <4>1, <4>2 DEF On
        <5>2. r.pid \in Threads /\ cpu[d].type \notin {"create", "last"}
          BY <1>3, <5>1 DEF Starts
        <5> QED BY <1>1, <2>2, <4>1, <4>2, <5>2 DEF Running
      <4>3. CASE cpu[d].pid # r.pid
        <5>1. On(cpu[d].pid)' = On(cpu[d].pid)
          BY <2>1, <4>1, <4>3
        <5> QED BY <1>1, <2>2, <4>1, <5>1 DEF Running
      <4> QED BY <4>2, <4>3
    <3> QED BY <3>1, <3>2
  <2> QED BY <2>3 DEF Running
<1>4. ASSUME NEW c \in CPU, NEW e \in KernelEvent, Said(c, e)  PROVE Running'
  <2>1. /\ e.pid \in Pid /\ cpu'[c] = Idle /\ attached /\ \A d \in CPU : d # c => cpu'[d] = cpu[d]
        /\ \A q \in Pid : On(q)' = On(q) \ {c}
    BY <1>4, Left
  <2>2. ASSUME NEW d \in CPU, cpu'[d] # Idle
        PROVE  /\ attached' /\ cpu'[d].pid \in Living'
               /\ cpu'[d].type # "create" => cpu'[d].leans = NoPid
               /\ (cpu'[d].pid \notin Threads \/ cpu'[d].type \in {"create", "last"}) =>
                      On(cpu[d].pid)' = {d}
               /\ cpu'[d].pid \notin Threads => cpu'[d].pid \in target_pids' /\ cpu'[d].type # "exit"
    <3>1. d # c /\ cpu'[d] = cpu[d] /\ cpu[d] # Idle /\ cpu[d].pid \in Pid /\ cpu[d].pid \in Living
      BY <1>1, <2>1, <2>2 DEF Running
    <3>2. On(cpu[d].pid)' = On(cpu[d].pid) \ {c} /\ d \in On(cpu[d].pid)
      BY <2>1, <3>1 DEF On
    <3>3. cpu[c] # Idle /\ e.pid = cpu[c].pid /\ c \in On(e.pid)
      BY <1>4 DEF Said, On
    <3>4. (cpu[c].type = "last" \/ e.pid \notin Threads) => cpu[d].pid # e.pid
      BY <1>1, <3>1, <3>2, <3>3 DEF Running
    <3>5. cpu[d].pid \in Living'
      BY <1>4, <3>1, <3>4 DEF Said
    <3>6. cpu[d].pid \in target_pids /\ cpu[d].pid \notin Threads => cpu[d].pid \in target_pids'
      BY <1>4, <3>4 DEF Said
    <3>7. /\ attached /\ cpu[d].type # "create" => cpu[d].leans = NoPid
          /\ (cpu[d].pid \notin Threads \/ cpu[d].type \in {"create", "last"}) => On(cpu[d].pid) = {d}
          /\ cpu[d].pid \notin Threads => cpu[d].pid \in target_pids /\ cpu[d].type # "exit"
      BY <1>1, <2>1, <3>1 DEF Running
    <3> QED BY <2>1, <3>1, <3>2, <3>5, <3>6, <3>7
  <2> QED BY <2>2 DEF Running
<1> QED BY <1>2, <1>3, <1>4 DEF Tells, Quiet

LEMMA QuietKeepsAgreed ==
  ASSUME EbpfInv, Quiet, Agreed, UNCHANGED monitored
  PROVE  Agreed'
<1>1. ring' = ring /\ monitored' = monitored /\ \A q, j : Introduced(q, j)' <=> Introduced(q, j)
  BY DEF Quiet, Introduced, Creates
<1>2. /\ \A i \in 1..Len(ring), q \in Pid : ring[i].pid = q => Introduced(q, i)
      /\ \A i \in 1..Len(ring), q \in Pid, r \in Pid \cup {Outside, NoPid} :
             (/\ ring[i].type = "create" /\ ring[i].pid = q /\ ring[i].ppid = r
              /\ ~Introduced(q, i - 1)) => Introduced(r, i - 1)
  BY DEF Agreed
<1>3. CASE Still
  <2>1. target_pids' = target_pids /\ cpu' = cpu /\ Making' = Making
    BY <1>3 DEF Still, Making
  <2> QED BY <1>1, <2>1 DEF Agreed
<1>4. ASSUME NEW c \in CPU, NEW r \in Program, Starts(c, r)  PROVE Agreed'
  <2>1. /\ r.pid \in Pid /\ cpu'[c] = r /\ \A d \in CPU : d # c => cpu'[d] = cpu[d]
        /\ Making' = IF r.type = "create" THEN Making \cup {r.pid} ELSE Making
    BY <1>4, Started
  <2>2. /\ target_pids' = target_pids \cup {r.pid}
        /\ r.leans = NoPid => r.pid \in target_pids
        /\ r.leans # NoPid => r.leans \in target_pids /\ r.type = "create"
    BY <1>4 DEF Starts
  <2>3. r.pid \notin Making
    <3>1. \A d \in CPU : cpu[d].pid = r.pid => cpu[d].type # "create"
      BY <1>4 DEF Starts, On
    <3> QED BY <3>1 DEF Making
  <2>4. \A q \in target_pids : q \in Making' \/ Introduced(q, Len(ring))
    BY <2>1 DEF Agreed
  <2>5. r.leans = NoPid => Introduced(r.pid, Len(ring))
    BY <2>2, <2>3 DEF Agreed
  <2>6. r.leans # NoPid => r.leans \in Making' \/ Introduced(r.leans, Len(ring))
    BY <2>2, <2>4
  <2>7. r.leans # NoPid => r.pid \in Making'
    BY <2>1, <2>2
  <2>8. \A q \in target_pids' : q \in Making' \/ Introduced(q, Len(ring))
    BY <2>2, <2>4, <2>5, <2>7
  <2>9. \A d \in CPU : cpu'[d] # Idle =>
            /\ cpu'[d].leans = NoPid => Introduced(cpu'[d].pid, Len(ring))
            /\ cpu'[d].leans # NoPid => cpu'[d].leans \in Making' \/ Introduced(cpu'[d].leans, Len(ring))
    BY <2>1, <2>5, <2>6 DEF Agreed
  <2> HIDE DEF Introduced
  <2> QED BY <1>1, <1>2, <2>8, <2>9 DEF Agreed
<1> QED BY <1>3, <1>4 DEF Quiet

\* Who will be followed to its end, or has a program to finish, does not end unseen.
LEMMA QuietGoesOn ==
  ASSUME EbpfInv, Quiet, attached, NEW q \in Living, ExitToCome(q)
  PROVE  q \in Living' /\ proc'[q].birth = proc[q].birth /\ ExitToCome(q)'
<1>1. CASE Still
  BY <1>1 DEF Still, ExitToCome, On
<1>2. ASSUME NEW c \in CPU, NEW r \in Program, Starts(c, r)
      PROVE  q \in Living' /\ proc'[q].birth = proc[q].birth /\ ExitToCome(q)'
  <2>1. q \in Pid /\ ExitToCome(q)'
    BY <1>2, Started DEF Living
  <2> QED BY <1>2, <2>1 DEF Starts, worldVars, Living
<1> QED BY <1>1, <1>2 DEF Quiet

LEMMA QuietKeeps ==
  ASSUME EbpfInv, Quiet, attached => attached',
         UNCHANGED <<monitored, correlator, shown, raised, heard>>
  PROVE  Dormant' /\ Told'
<1>1. /\ ring' = ring /\ lost' = lost /\ raced' = raced
      /\ monitored' = monitored /\ correlator' = correlator /\ heard' = heard
  BY DEF Quiet
<1>2. Dormant'
  BY <1>1 DEF EbpfInv, Dormant
<1>3. Typed /\ Len(ring) \in Nat
  BY RingTyped DEF EbpfInv
<1>4. Agreed => Agreed'
  BY QuietKeepsAgreed
<1>0. correlator.contacted \subseteq Pid /\ correlator.written \subseteq Pid
  BY <1>3 DEF Typed, C!EngineType
<1>5. CASE attached
  <2>1. \A q \in Living : ExitToCome(q) =>
            q \in Living' /\ proc'[q].birth = proc[q].birth /\ ExitToCome(q)'
    BY <1>5, QuietGoesOn
  <2>2. Owned => Owned'
    BY <1>1, <2>1 DEF Owned, NoExit
  <2>3. ASSUME NEW q \in Pid, NEW T, Clean(q, T)  PROVE Clean(q, T)'
    BY <1>1, <2>1, <2>3 DEF Clean, Backed, NoExit
  <2> QED BY <1>0, <1>1, <1>2, <1>4, <2>2, <2>3 DEF EbpfInv, Told
<1>6. CASE ~attached
  <2>1. ring' = <<>> /\ correlator'.contacted = {} /\ correlator'.written = {}
    BY <1>1, <1>6 DEF EbpfInv, Dormant
  <2>2. Owned'
    BY <2>1 DEF Owned
  <2> QED BY <1>1, <1>2, <1>4, <2>1, <2>2 DEF EbpfInv, Told
<1> QED BY <1>5, <1>6

\* A process whose event is submitted is tracked, or is a child of one that is.
LEMMA SaidKeepsAgreed ==
  ASSUME EbpfInv, NEW c \in CPU, NEW e \in KernelEvent, Said(c, e), Agreed,
         ~lost', "exec" \notin raced', UNCHANGED monitored
  PROVE  Agreed'
<1>0. PICK n \in Nat : n = Len(ring)
  BY RingTyped DEF EbpfInv
<1>1. /\ Typed /\ Agreed /\ ring' = Append(ring, e) /\ monitored' = monitored
      /\ cpu[c] # Idle /\ e.pid = cpu[c].pid /\ e.pid \in Pid
      /\ \A d \in CPU : d # c => cpu'[d] = cpu[d]
      /\ cpu'[c] = Idle /\ target_pids' \subseteq target_pids
  BY Left DEF EbpfInv, Said
<1>2. /\ n \in Nat /\ Len(ring') = n + 1
      /\ ring'[n + 1] = e /\ \A i \in 1..n : ring'[i] = ring[i]
      /\ \A q \in Pid \cup {Outside, NoPid} : \A i \in Nat \ {0}, j \in 0..n :
             Creates(q, i, j)' <=> Creates(q, i, j)
  BY <1>0, <1>1, Appended
<1>3. /\ e.pid \in Pid /\ e.ppid \in Pid \cup {Outside, NoPid} /\ target_pids \subseteq Pid
      /\ \A d \in CPU : cpu[d] # Idle => cpu[d].pid \in Pid /\ cpu[d].leans \in Pid \cup {NoPid}
  BY <1>1, EventTyped, CpuTyped DEF Typed, TypeOK, Program
<1>4. \A q \in Pid \cup {Outside, NoPid}, j \in 0..n : Introduced(q, j)' <=> Introduced(q, j)
  <2>1. 1 \in Nat \ {0}
    OBVIOUS
  <2> QED BY <1>1, <1>2, <2>1 DEF Introduced
<1>5. \A q \in Pid \cup {Outside, NoPid} : Introduced(q, n) => Introduced(q, n + 1)'
  <2>1. \A q : Introduced(q, n)' => Introduced(q, n + 1)'
    BY DEF Introduced, Creates
  <2> QED BY <1>2, <1>4, <2>1
<1>6. e.type = "create" => Introduced(e.pid, n + 1)'
  <2>1. n + 1 \in 1..(n + 1)
    BY <1>2
  <2> QED BY <1>2, <2>1 DEF Introduced, Creates
<1>7. ASSUME NEW q \in Pid \cup {NoPid}, q \in Making \/ Introduced(q, n)
      PROVE  q \in Making' \/ Introduced(q, n + 1)'
  <2>1. q \in Making => q \in Making' \/ (e.type = "create" /\ q = e.pid)
    BY Left
  <2> HIDE DEF Introduced
  <2> QED BY <1>5, <1>6, <1>7, <2>1
<1>8. \A q \in target_pids' : q \in Making' \/ Introduced(q, n + 1)'
  <2> HIDE DEF Introduced
  <2> QED BY <1>0, <1>1, <1>3, <1>7 DEF Agreed
<1>9. ASSUME NEW d \in CPU, cpu'[d] # Idle
      PROVE  /\ cpu'[d].leans = NoPid => Introduced(cpu[d].pid, n + 1)'
             /\ cpu'[d].leans # NoPid => cpu'[d].leans \in Making' \/ Introduced(cpu[d].leans, n + 1)'
  <2>1. d # c /\ cpu'[d] = cpu[d] /\ cpu[d] # Idle
    BY <1>1, <1>9
  <2>2. PICK p \in Pid, l \in Pid \cup {NoPid} : p = cpu[d].pid /\ l = cpu[d].leans
    BY <1>3, <2>1
  <2>3. /\ l = NoPid => Introduced(p, n)
        /\ l # NoPid => l \in Making \/ Introduced(l, n)
    BY <1>0, <1>1, <2>1, <2>2 DEF Agreed
  <2>4. l = NoPid => Introduced(p, n + 1)'
    BY <1>5, <2>3
  <2>5. l # NoPid => l \in Making' \/ Introduced(l, n + 1)'
    BY <1>7, <2>3
  <2>6. p = cpu'[d].pid /\ l = cpu'[d].leans
    BY <2>1, <2>2
  <2> QED BY <2>4, <2>5, <2>6 DEF Introduced
\* Who leans on a parent does so on one that is introduced.
<1>10. /\ cpu[c].leans = NoPid => Introduced(e.pid, n)
       /\ cpu[c].leans # NoPid => e.type = "create" /\ Introduced(e.ppid, n)
  <2>1. cpu[c].leans = NoPid => Introduced(e.pid, n)
    BY <1>0, <1>1 DEF Agreed
  <2>2. ASSUME cpu[c].leans # NoPid  PROVE e.type = "create" /\ Introduced(e.ppid, n)
    <3>1. cpu[c].type = "create"
      BY <1>1, <2>2 DEF EbpfInv, Running
    <3>2. e.type = "create" /\ ~Late(c)
      BY <1>1, <3>1 DEF Said
    <3>3. e.ppid \in monitored \/ (e.ppid = cpu[c].leans /\ cpu[c].leans \notin Making)
      BY <2>2, <3>2 DEF Late, Said
    <3>4. cpu[c].leans \in Making \/ Introduced(cpu[c].leans, n)
      BY <1>0, <1>1, <2>2 DEF Agreed
    <3> QED BY <3>2, <3>3, <3>4 DEF Introduced
  <2> QED BY <2>1, <2>2
<1>11. ASSUME NEW i \in 1..(n + 1), NEW q \in Pid, ring'[i].pid = q
       PROVE  Introduced(q, i)'
  <2>1. CASE i = n + 1
    <3>1. q = e.pid
      BY <1>2, <1>11, <2>1
    <3> QED BY <1>3, <1>5, <1>6, <1>10, <2>1, <3>1
  <2>2. CASE i \in 1..n
    <3>1. i \in 0..n /\ ring'[i] = ring[i]
      BY <1>2, <2>2
    <3>2. Introduced(q, i)
      BY <1>0, <1>1, <1>11, <2>2, <3>1 DEF Agreed
    <3> QED BY <1>4, <3>1, <3>2
  <2> QED BY <1>2, <2>1, <2>2
<1>12. ASSUME NEW i \in 1..(n + 1), NEW q \in Pid, NEW r \in Pid \cup {Outside, NoPid},
              ring'[i].type = "create", ring'[i].pid = q, ring'[i].ppid = r,
              ~Introduced(q, i - 1)'
       PROVE  Introduced(r, i - 1)'
  <2>1. CASE i = n + 1
    <3>1. i - 1 = n /\ n \in 0..n /\ e.type = "create" /\ e.pid = q /\ e.ppid = r
      BY <1>2, <1>12, <2>1
    <3>2. ~Introduced(q, n)
      BY <1>4, <1>12, <3>1
    <3>3. Introduced(r, n)
      BY <1>10, <3>1, <3>2
    <3> QED BY <1>4, <3>1, <3>3
  <2>2. CASE i \in 1..n
    <3>1. i - 1 \in 0..n /\ ring'[i] = ring[i]
      BY <1>2, <2>2
    <3>2. ~Introduced(q, i - 1)
      BY <1>4, <1>12, <3>1
    <3>3. Introduced(r, i - 1)
      BY <1>0, <1>1, <1>12, <2>2, <3>1, <3>2 DEF Agreed
    <3> QED BY <1>4, <3>1, <3>3
  <2> QED BY <1>2, <2>1, <2>2
<1> HIDE DEF Introduced
<1> QED BY <1>2, <1>8, <1>9, <1>11, <1>12 DEF Agreed

\* A process that goes on after its deed will have its exit submitted.
LEMMA SaidKeepsOwned ==
  ASSUME EbpfInv, NEW c \in CPU, NEW e \in KernelEvent, Said(c, e), Owned,
         ~lost', "exit" \notin raced'
  PROVE  Owned'
<1>0. PICK n \in Nat : n = Len(ring)
  BY RingTyped DEF EbpfInv
<1>1. /\ Typed /\ Owned /\ ring' = Append(ring, e)
      /\ e.pid \in Living /\ e.pid \in Pid /\ proc[e.pid].birth = e.birth
  BY Left DEF EbpfInv, Said
<1>2. /\ Len(ring') = n + 1 /\ Len(ring) = n
      /\ ring'[n + 1] = e /\ \A i \in 1..n : ring'[i] = ring[i]
      /\ \A q \in Pid \cup {Outside, NoPid} : \A i \in Nat \ {0}, j \in 0..n :
             NoExit(q, i, j)' <=> NoExit(q, i, j)
  BY <1>0, <1>1, Appended
<1>3. /\ \A q \in Living : q # e.pid \/ e.type # "exit" =>
             q \in Living' /\ proc'[q].birth = proc[q].birth
      /\ \A q \in Pid : (ExitToCome(q) /\ (q # e.pid \/ e.type # "exit")) => ExitToCome(q)'
      /\ e.type \in Deed => ExitToCome(e.pid)'
  <2>1. \A q \in Living : q # e.pid \/ e.type # "exit" =>
            q \in Living' /\ proc'[q].birth = proc[q].birth
    BY DEF Said
  <2>2. \A q \in Pid : (ExitToCome(q) /\ (q # e.pid \/ e.type # "exit")) => ExitToCome(q)'
    BY Left
  <2>3. e.type \in Deed => ExitToCome(e.pid) /\ e.type # "exit"
    BY DEF Said, Deed
  <2> QED BY <1>1, <2>1, <2>2, <2>3
<1>4. \A i \in 1..(n + 1) : i = n + 1 \/ (i \in 1..n /\ ring'[i] = ring[i])
  BY <1>2
<1>5. ASSUME NEW i \in 1..n, NEW q \in Pid, ring[i].type \in Deed, ring[i].pid = q,
             NoExit(q, i, n)
      PROVE  q \in Living /\ ExitToCome(q) /\ proc[q].birth = ring[i].birth
  BY <1>1, <1>2, <1>5 DEF Owned
<1>6. ASSUME NEW i \in 1..(n + 1), NEW q \in Pid, ring'[i].type \in Deed, ring'[i].pid = q
      PROVE  /\ \A j \in i..(n + 1) :
                   (ring'[j].pid = q /\ NoExit(q, i, j - 1)') => ring'[j].birth = ring'[i].birth
             /\ NoExit(q, i, n + 1)' =>
                   q \in Living' /\ ExitToCome(q)' /\ proc'[q].birth = ring'[i].birth
  <2>1. ASSUME NEW j \in i..(n + 1), ring'[j].pid = q, NoExit(q, i, j - 1)'
        PROVE  ring'[j].birth = ring'[i].birth
    <3>1. CASE j \in 1..n
      <4>1. i \in 1..n /\ j \in i..n /\ ring'[i] = ring[i] /\ ring'[j] = ring[j] /\ j - 1 \in 0..n
        BY <1>2, <3>1
      <4>2. NoExit(q, i, j - 1)
        BY <1>2, <2>1, <4>1
      <4> QED BY <1>1, <1>2, <1>6, <2>1, <4>1, <4>2 DEF Owned
    <3>2. CASE j = n + 1 /\ i \in 1..n
      <4>1. j - 1 = n /\ ring'[i] = ring[i] /\ n \in 0..n /\ q = e.pid
        BY <1>2, <2>1, <3>2
      <4>2. NoExit(q, i, n)
        BY <1>2, <2>1, <3>2, <4>1
      <4>3. proc[q].birth = ring[i].birth
        BY <1>5, <1>6, <3>2, <4>1, <4>2
      <4> QED BY <1>1, <1>2, <3>2, <4>1, <4>3
    <3>3. CASE j = n + 1 /\ i = n + 1
      BY <3>3
    <3> QED BY <3>1, <3>2, <3>3
  <2>2. ASSUME NoExit(q, i, n + 1)'
        PROVE  q \in Living' /\ ExitToCome(q)' /\ proc'[q].birth = ring'[i].birth
    <3>1. e.type = "exit" => e.pid # q
      BY <1>2, <2>2 DEF NoExit
    <3>2. CASE i = n + 1
      <4>1. q = e.pid /\ e.type # "exit" /\ ring'[i] = e /\ e.type \in Deed
        BY <1>2, <1>6, <3>2 DEF Deed
      <4> QED BY <1>1, <1>3, <4>1
    <3>3. CASE i \in 1..n
      <4>1. NoExit(q, i, n)'
        BY <2>2 DEF NoExit
      <4>2. NoExit(q, i, n) /\ ring'[i] = ring[i]
        BY <1>2, <3>3, <4>1
      <4>3. q \in Living /\ ExitToCome(q) /\ proc[q].birth = ring[i].birth
        BY <1>5, <1>6, <3>3, <4>2
      <4> QED BY <1>3, <3>1, <4>2, <4>3
    <3> QED BY <1>4, <3>2, <3>3
  <2> QED BY <2>1, <2>2
<1> QED BY <1>2, <1>6 DEF Owned, NoExit

LEMMA SaidKeepsClean ==
  ASSUME EbpfInv, NEW c \in CPU, NEW e \in KernelEvent, Said(c, e), ~lost', UNCHANGED heard,
         NEW q \in Pid, NEW T, Clean(q, T)
  PROVE  Clean(q, T)'
<1>0. PICK n \in Nat : n = Len(ring)
  BY RingTyped DEF EbpfInv
<1>1. /\ Typed /\ ring' = Append(ring, e)
      /\ e.pid \in Living /\ proc[e.pid].birth = e.birth
  BY Left DEF EbpfInv, Said
<1>2. /\ Len(ring') = n + 1 /\ Len(ring) = n
      /\ ring'[n + 1] = e /\ \A i \in 1..n : ring'[i] = ring[i]
      /\ \A i \in Nat \ {0}, j \in 0..n : NoExit(q, i, j)' <=> NoExit(q, i, j)
  BY <1>0, <1>1, Appended
<1>3. /\ \A p \in Living : p # e.pid \/ e.type # "exit" =>
             p \in Living' /\ proc'[p].birth = proc[p].birth
      /\ \A p \in Pid : (ExitToCome(p) /\ (p # e.pid \/ e.type # "exit")) => ExitToCome(p)'
  <2>1. \A p \in Living : p # e.pid \/ e.type # "exit" =>
            p \in Living' /\ proc'[p].birth = proc[p].birth
    BY DEF Said
  <2>2. \A p \in Pid : (ExitToCome(p) /\ (p # e.pid \/ e.type # "exit")) => ExitToCome(p)'
    BY Left
  <2> QED BY <2>1, <2>2
<1>4. ASSUME NEW i \in 1..(n + 1), ring'[i].pid = q, NoExit(q, 1, i - 1)'
      PROVE  Backed(T, ring[i].birth)'
  <2>1. i - 1 \in 0..n /\ 1 \in Nat \ {0}
    OBVIOUS
  <2>2. NoExit(q, 1, i - 1)
    BY <1>2, <1>4, <2>1
  <2>3. CASE i = n + 1
    <3>1. i - 1 = n /\ q = e.pid /\ ring'[i] = e
      BY <1>2, <1>4, <2>3
    <3>2. Backed(T, proc[q].birth)
      BY <1>2, <2>2, <3>1 DEF Clean
    <3> QED BY <1>1, <3>1, <3>2 DEF Backed
  <2>4. CASE i \in 1..n
    <3>1. ring'[i] = ring[i]
      BY <1>2, <2>4
    <3>2. Backed(T, ring[i].birth)
      BY <1>2, <1>4, <2>2, <2>4, <3>1 DEF Clean
    <3> QED BY <3>1, <3>2 DEF Backed
  <2> QED BY <2>3, <2>4
<1>5. ASSUME NoExit(q, 1, n + 1)'
      PROVE  q \in Living' /\ ExitToCome(q)' /\ Backed(T, proc[q].birth)'
  <2>1. e.type = "exit" => e.pid # q
    BY <1>2, <1>5 DEF NoExit
  <2>2. NoExit(q, 1, n)'
    BY <1>5 DEF NoExit
  <2>3. NoExit(q, 1, n)
    <3>1. 1 \in Nat \ {0} /\ n \in 0..n
      OBVIOUS
    <3> QED BY <1>2, <2>2, <3>1
  <2>4. q \in Living /\ ExitToCome(q) /\ Backed(T, proc[q].birth)
    BY <1>2, <2>3 DEF Clean
  <2>5. q \in Living' /\ ExitToCome(q)' /\ proc'[q].birth = proc[q].birth
    BY <1>3, <2>1, <2>4
  <2> QED BY <2>4, <2>5 DEF Backed
<1> QED BY <1>2, <1>4, <1>5 DEF Clean, NoExit

\* An ID goes on to stand for its process, and a new one stands for the new process.
LEMMA KernelKeepsNamed ==
  ASSUME EbpfInv, UNCHANGED <<monitored, heard>>, World \/ UNCHANGED worldVars,
         Tells
  PROVE  Named'
<1>1. /\ Typed /\ Named /\ monitored' = monitored /\ heard' = heard
      /\ Living \subseteq used /\ used \subseteq Pid
  BY DEF EbpfInv, WorldInv, WorldTypeOK, Numbered
<1>2. /\ \A p \in Living' : p \in Living => proc'[p].birth = proc[p].birth
      /\ used \subseteq used' /\ (NoneReused' => NoneReused)
      /\ NoneReused' => \A p \in Living' : p \in Living \/ p \notin used
      /\ WorldInv'
  BY WorldIsKept
<1>3. \A i \in 1..Len(ring') : \/ i \in 1..Len(ring) /\ ring'[i] = ring[i]
                               \/ /\ ring'[i].pid \in Living
                                  /\ ring'[i].birth = proc[ring'[i].pid].birth
  <2>1. CASE ring' = ring
    BY <2>1
  <2>2. CASE ring' # ring
    <3>1. PICK c \in CPU, e \in KernelEvent : Said(c, e)
      BY <2>2 DEF Tells, Quiet
    <3>2. ring' = Append(ring, e) /\ e.pid \in Living /\ proc[e.pid].birth = e.birth
      BY <2>2, <3>1, Left DEF Said
    <3> QED BY <1>1, <3>2, Appended
  <2> QED BY <2>1, <2>2
<1>4. \A i \in 1..Len(ring') : ring'[i].pid \in used
  BY <1>1, <1>3 DEF Named
<1>5. ASSUME NoneReused', NEW q \in used, NEW b \in Nat, Identity(q, b)  PROVE Identity(q, b)'
  <2>1. q \in Living' => q \in Living
    BY <1>2, <1>5
  <2>2. q \in Living' => proc'[q].birth = b
    BY <1>2, <1>5, <2>1 DEF Identity
  <2>3. \A i \in 1..Len(ring') : ring'[i].pid = q => ring'[i].birth = b
    BY <1>3, <1>5 DEF Identity
  <2> QED BY <2>2, <2>3 DEF Identity
<1>6. ASSUME NoneReused', NEW q \in used'  PROVE \E b \in Nat : Identity(q, b)'
  <2>1. CASE q \in used
    BY <1>1, <1>2, <1>5, <1>6, <2>1 DEF Named
  <2>2. CASE q \notin used
    <3>1. \A i \in 1..Len(ring') : ring'[i].pid # q
      BY <1>4, <2>2
    <3>2. CASE q \in Living'
      <4>1. proc'[q].birth \in Nat
        <5>1. q \in Pid /\ proc' \in [Pid -> Process]
          BY <1>2 DEF WorldInv, WorldTypeOK
        <5> QED BY <5>1, ProcessesAssumption DEF Process
      <4>2. Identity(q, proc[q].birth)'
        BY <3>1 DEF Identity
      <4> QED BY <4>1, <4>2 DEF Identity
    <3>3. CASE q \notin Living'
      <4>1. Identity(q, 0)'
        BY <3>1, <3>3 DEF Identity
      <4> QED BY <4>1
    <3> QED BY <3>2, <3>3
  <2> QED BY <2>1, <2>2
<1>7. ASSUME NoneReused'
      PROVE  /\ Identity(Sample, 1)'
             /\ \A q \in monitored : q # Sample =>
                    \E b \in Nat : Identity(q, b)' /\ <<"create", b>> \in heard
  BY <1>1, <1>2, <1>5, <1>7 DEF Named
<1> QED BY <1>1, <1>2, <1>4, <1>6, <1>7 DEF Named

LEMMA KernelKeepsTyped ==
  ASSUME EbpfInv, Tells, WorldInv', UNCHANGED <<monitored, correlator, shown, raised, heard>>,
         attached' \in BOOLEAN, stopped' \in BOOLEAN
  PROVE  Typed'
<1>1. /\ Typed /\ submitted \in 0..MaxEvents /\ MaxEvents \in Nat /\ target_pids \subseteq Pid
      /\ Len(ring) <= RingSize /\ RingSize \in Nat /\ lost \in BOOLEAN
      /\ raced \subseteq {"exec", "exit"} /\ cpu \in [CPU -> Program \cup {Idle}]
      /\ ring \in Seq(KernelEvent)
  BY EbpfMonitorAssumption DEF EbpfInv, Typed, TypeOK
<1>2. /\ ring' \in Seq(KernelEvent) /\ Len(ring') <= RingSize /\ submitted' \in 0..MaxEvents
      /\ target_pids' \subseteq Pid /\ lost' \in BOOLEAN /\ raced' \subseteq {"exec", "exit"}
      /\ cpu' \in [CPU -> Program \cup {Idle}]
  <2>1. CASE Quiet
    <3>1. target_pids' \subseteq Pid /\ cpu' \in [CPU -> Program \cup {Idle}]
      <4>1. CASE Still
        BY <1>1, <4>1 DEF Still
      <4>2. ASSUME NEW c \in CPU, NEW r \in Program, Starts(c, r)
            PROVE  target_pids' \subseteq Pid /\ cpu' \in [CPU -> Program \cup {Idle}]
        BY <1>1, <4>2 DEF Starts, Program
      <4> QED BY <2>1, <4>1, <4>2 DEF Quiet
    <3> QED BY <1>1, <2>1, <3>1 DEF Quiet
  <2>2. ASSUME NEW c \in CPU, NEW e \in KernelEvent, Said(c, e)
        PROVE  /\ ring' \in Seq(KernelEvent) /\ Len(ring') <= RingSize /\ submitted' \in 0..MaxEvents
               /\ target_pids' \subseteq Pid /\ lost' \in BOOLEAN /\ raced' \subseteq {"exec", "exit"}
               /\ cpu' \in [CPU -> Program \cup {Idle}]
    <3>1. submitted' \in 0..MaxEvents /\ lost' \in BOOLEAN /\ cpu' \in [CPU -> Program \cup {Idle}]
      BY <1>1, <2>2 DEF Said
    <3>2. target_pids' \subseteq Pid /\ raced' \subseteq {"exec", "exit"}
      BY <1>1, <2>2 DEF Said
    <3>3. ring' \in Seq(KernelEvent) /\ Len(ring') <= RingSize
      BY <1>1, <2>2, Appended DEF Said
    <3> QED BY <3>1, <3>2, <3>3
  <2> QED BY <2>1, <2>2 DEF Tells
<1>3. WorldTypeOK'
  BY DEF WorldInv
<1> QED BY <1>1, <1>2, <1>3 DEF Typed, TypeOK

LEMMA SaidKeeps ==
  ASSUME EbpfInv, NEW c \in CPU, NEW e \in KernelEvent, Said(c, e),
         UNCHANGED <<monitored, correlator, shown, raised, heard>>
  PROVE  Dormant' /\ Told'
<1>1. attached /\ attached'
  BY Left DEF Said
<1>2. Dormant'
  BY <1>1 DEF Dormant
<1>3. correlator.contacted \subseteq Pid /\ correlator.written \subseteq Pid
  BY DEF EbpfInv, Typed, C!EngineType
<1>4. (~lost' => ~lost) /\ raced \subseteq raced'
  BY DEF Said
<1>5. (~lost' /\ "exec" \notin raced') => Agreed'
  BY <1>4, SaidKeepsAgreed DEF EbpfInv, Told
<1>6. ASSUME ~lost', "exit" \notin raced'
      PROVE  /\ Owned'
             /\ \A q \in correlator.contacted : Clean(q, {"connect"})'
             /\ \A q \in correlator.written : Clean(q, {"openat", "write"})'
  <2>1. Owned' /\ heard' = heard
    BY <1>4, <1>6, SaidKeepsOwned DEF EbpfInv, Told
  <2>2. ASSUME NEW q \in Pid, NEW T, Clean(q, T)  PROVE Clean(q, T)'
    BY <1>6, <2>1, <2>2, SaidKeepsClean
  <2> QED BY <1>3, <1>4, <1>6, <2>1, <2>2 DEF EbpfInv, Told
<1> QED BY <1>2, <1>5, <1>6 DEF EbpfInv, Told

LEMMA KernelKeeps ==
  ASSUME EbpfInv, CleanSlate, CreateFirst, StartEBPF \/ Kernel \/ Stop
  PROVE  EbpfInv' /\ CleanSlate' /\ CreateFirst'
<1>1. /\ UNCHANGED <<monitored, correlator, shown, raised, heard>>
      /\ World \/ UNCHANGED worldVars
      /\ attached => attached'
      /\ attached' \in BOOLEAN /\ stopped' \in BOOLEAN
      /\ Tells
  BY KernelSays
<1>2. WorldInv' /\ (NoneReused' => NoneReused)
  BY <1>1, WorldIsKept
<1>3. (~lost' => ~lost) /\ raced \subseteq raced'
  BY <1>1 DEF Tells, Quiet, Said
<1>4. Typed'
  BY <1>1, <1>2, KernelKeepsTyped
<1>5. Named'
  BY <1>1, KernelKeepsNamed
<1>6. Running'
  BY <1>1, KernelKeepsRunning
<1>7. Dormant' /\ Told'
  BY <1>1, QuietKeeps, SaidKeeps DEF Tells
<1>8. CleanSlate' /\ CreateFirst'
  BY <1>1, <1>2, <1>3 DEF CleanSlate, DeedsOfOne, CreateFirst
<1> QED BY <1>2, <1>4, <1>5, <1>6, <1>7, <1>8 DEF EbpfInv

-----------------------------------------------------------------------------
(* The user side.                                                           *)
\* An exit clears the ID; a deed is kept as such; an alert that joins two deeds
\* goes by what was kept.
LEMMA Correlated ==
  ASSUME Typed, NEW e \in KernelEvent, Correlate(e)
  PROVE  /\ correlator' \in C!EngineType
         /\ \A q \in correlator'.contacted :
                \/ q \in correlator.contacted /\ ~(e.type = "exit" /\ q = e.pid)
                \/ q = e.pid /\ e.type = "connect"
         /\ \A q \in correlator'.written :
                \/ q \in correlator.written /\ ~(e.type = "exit" /\ q = e.pid)
                \/ q = e.pid /\ e.type \in {"openat", "write"}
         /\ \A a \in raised' : a.kind \in {"persistence", "aftermath"} =>
                \/ e.type \in {"openat", "write"} /\ e.pid \in correlator.contacted
                \/ e.type = "connect" /\ e.pid \in correlator.written
<1> DEFINE ev == Meaning(e)
<1>0. correlator \in C!EngineType /\ e.pid \in Pid /\ e.birth \in Nat
  BY EventTyped DEF Typed
<1>c. correlator' = C!ProcessEvent(correlator, ev) /\ raised' = C!Alerts(correlator, ev)
  BY DEF Correlate
<1>t. e.type \in {"create", "exit", "openat", "write", "connect", "ptrace"}
  BY EventTyped DEF EventType
<1>1. CASE e.type = "create"
  <2> DEFINE node == [pid |-> e.pid, spawn |-> e.birth, integrity |-> "high", user |-> "root"]
             kept == {n \in correlator.processes : n.pid # e.pid \/ n.spawn # e.birth}
  <2>1. ev = [type |-> "create", pid |-> e.pid, time |-> e.birth, ppid |-> e.ppid,
              integrity |-> "high", user |-> "root", traits |-> {}]
    BY <1>1 DEF Meaning
  <2>2. /\ ev.type = "create" /\ ev.pid = e.pid /\ ev.time = e.birth /\ ev.traits = {}
        /\ ev.integrity = "high" /\ ev.user = "root"
    BY <2>1
  <2>3. C!NodeOf(ev) = node
    BY <2>2 DEF C!NodeOf
  <2>4. node \in C!Node
    BY <1>0 DEF C!Node, C!Integrity, C!User
  <2> HIDE DEF node, ev
  <2>5. correlator' = [correlator EXCEPT !.processes = kept \cup {node}, !.pidToKey[e.pid] = e.birth]
    BY <1>0, <1>c, <2>2, <2>3 DEF C!ProcessEvent, C!AfterCreate, C!EngineType
  <2>6. /\ correlator' \in C!EngineType /\ correlator'.contacted = correlator.contacted
        /\ correlator'.written = correlator.written
    BY <1>0, <2>4, <2>5 DEF C!EngineType
  <2>7. raised' = C!CheckPrivilegeEscalation(correlator, ev)
    BY <1>c, <2>2 DEF C!Alerts, C!CheckLolbinRename, C!CheckPersistenceToolSpawn
  <2>8. \A a \in raised' : a.kind = "escalation"
    <3> SUFFICES ASSUME NEW a \in raised'  PROVE a.kind = "escalation"
      OBVIOUS
    <3>1. a = C!Alert(ev, "escalation")
      BY <2>7, Zenon DEF C!CheckPrivilegeEscalation
    <3> QED BY <3>1 DEF C!Alert
  <2> QED BY <1>1, <2>6, <2>8
<1>2. CASE e.type = "exit"
  <2> DEFINE inj == [pair \in Pid \X Pid |->
                        IF pair[1] = e.pid THEN C!Never ELSE correlator.injection[pair]]
             kept == {n \in correlator.processes :
                         n.pid # e.pid \/ n.spawn # correlator.pidToKey[e.pid]}
  <2>1. ev = [type |-> "exit", pid |-> e.pid, time |-> e.birth]
    BY <1>2 DEF Meaning
  <2>2. ev.type = "exit" /\ ev.pid = e.pid
    BY <2>1
  <2> HIDE DEF ev
  <2>3. correlator' = [correlator EXCEPT !.processes = kept, !.pidToKey[e.pid] = C!Never,
                                         !.injection = inj, !.contacted = @ \ {e.pid},
                                         !.written = @ \ {e.pid}]
    BY <1>0, <1>c, <2>2 DEF C!ProcessEvent, C!AfterExit, C!EngineType
  <2>4. inj \in [Pid \X Pid -> Nat] /\ kept \subseteq C!Node
    BY <1>0 DEF C!EngineType, C!Never
  <2> HIDE DEF inj, kept
  <2>5. /\ correlator' \in C!EngineType /\ correlator'.contacted = correlator.contacted \ {e.pid}
        /\ correlator'.written = correlator.written \ {e.pid}
    BY <1>0, <2>3, <2>4 DEF C!EngineType, C!Never
  <2>6. raised' = {}
    BY <1>c, <2>2 DEF C!Alerts
  <2> QED BY <2>5, <2>6
<1>3. CASE e.type \in {"openat", "write"}
  <2>1. ev = [type |-> "write", pid |-> e.pid, time |-> e.birth, place |-> ResolvePath(e)]
    BY <1>3 DEF Meaning
  <2>2. ev.type = "write" /\ ev.pid = e.pid
    BY <2>1
  <2> HIDE DEF ev
  <2>3. correlator' = correlator \/ correlator' = [correlator EXCEPT !.written = @ \cup {e.pid}]
    BY <1>c, <2>2 DEF C!ProcessEvent, C!AfterWrite
  <2>4. /\ correlator' \in C!EngineType /\ correlator'.contacted = correlator.contacted
        /\ \A q \in correlator'.written : q \in correlator.written \/ q = e.pid
    BY <1>0, <2>3 DEF C!EngineType
  <2>5. \A a \in raised' : e.pid \in correlator.contacted
    BY <1>c, <2>2 DEF C!Alerts, C!CheckPersistenceToC2
  <2> QED BY <1>3, <2>4, <2>5
<1>4. CASE e.type = "connect"
  <2>1. ev = [type |-> "connect", pid |-> e.pid, time |-> e.birth, dest |-> TRUE]
    BY <1>4 DEF Meaning
  <2>2. ev.type = "connect" /\ ev.pid = e.pid /\ ev.dest
    BY <2>1
  <2> HIDE DEF ev
  <2>3. correlator' = [correlator EXCEPT !.contacted = @ \cup {e.pid}]
    BY <1>c, <2>2 DEF C!ProcessEvent, C!AfterConnect
  <2>4. /\ correlator' \in C!EngineType /\ correlator'.written = correlator.written
        /\ correlator'.contacted = correlator.contacted \cup {e.pid}
    BY <1>0, <2>3 DEF C!EngineType
  <2>5. \A a \in raised' : e.pid \in correlator.written
    BY <1>c, <2>2 DEF C!Alerts, C!CheckC2Aftermath
  <2> QED BY <1>4, <2>4, <2>5
<1>5. CASE e.type = "ptrace"
  <2>1. ev = [type |-> "call", pid |-> e.pid, time |-> e.birth, target |-> e.target,
              call |-> "other"]
    BY <1>5 DEF Meaning
  <2>2. /\ ev.type = "call" /\ ev.pid = e.pid /\ ev.target = e.target /\ ev.call = "other"
        /\ e.target \in Pid \cup {NoPid}
    BY <2>1, EventTyped
  <2> HIDE DEF ev
  <2>3. correlator' = C!AfterCall(correlator, ev)
    BY <1>c, <2>2 DEF C!ProcessEvent
  <2>4. CASE ~C!Foreign(ev)
    <3>1. correlator' = correlator
      BY <2>3, <2>4 DEF C!AfterCall
    <3>2. raised' = {}
      BY <1>c, <2>2 DEF C!Alerts, C!CheckProcessInjectionWindowed
    <3> QED BY <1>0, <1>5, <3>1, <3>2
  <2>5. CASE C!Foreign(ev)
    <3>1. e.target \in Pid
      BY <2>2, <2>5 DEF C!Foreign
    <3>2. C!FirstSeen(correlator, ev) \in Nat
      BY <1>0, <2>2, <3>1 DEF C!FirstSeen, C!EngineType, C!Never
    <3>3. correlator' = [correlator EXCEPT !.injection[<<e.pid, e.target>>] =
                            C!FirstSeen(correlator, ev)]
      BY <2>2, <2>3, <2>5 DEF C!AfterCall
    <3>4. /\ correlator' \in C!EngineType /\ correlator'.written = correlator.written
          /\ correlator'.contacted = correlator.contacted
      BY <1>0, <3>1, <3>2, <3>3 DEF C!EngineType
    <3>5. raised' = {}
      BY <1>c, <2>2 DEF C!Alerts, C!CheckProcessInjectionWindowed
    <3> QED BY <1>5, <3>4, <3>5
  <2> QED BY <2>4, <2>5
<1> QED BY <1>t, <1>1, <1>2, <1>3, <1>4, <1>5

\* The user side takes the first event; it adopts first and filters then.
Taken(e) ==
    /\ attached /\ ring # <<>> /\ e = Head(ring) /\ ring' = Tail(ring)
    /\ UNCHANGED <<worldVars, attached, cpu, submitted, lost, raced, stopped>>
    /\ \/ /\ e.type = "create" /\ e.ppid \in monitored
          /\ monitored' = monitored \cup {e.pid} /\ target_pids' = target_pids \cup {e.pid}
       \/ /\ ~(e.type = "create" /\ e.ppid \in monitored)
          /\ monitored' = monitored /\ target_pids' = target_pids
    /\ IF e.pid \in monitored' /\ ~Discards(e) THEN Emit(e) ELSE Drop

LEMMA Takes ==
  ASSUME EbpfInv, HandleBPFEvent
  PROVE  \E e \in KernelEvent : Taken(e)
<1>1. ring \in Seq(KernelEvent) /\ ring # <<>>
  BY DEF HandleBPFEvent, EbpfInv, Typed, TypeOK
<1>2. PICK e \in KernelEvent : e = Head(ring)
  BY <1>1
<1>3. Taken(e)
  BY <1>2 DEF HandleBPFEvent, Taken
<1> QED BY <1>3

\* If the filters agree, the user side has adopted whom it hears of.
LEMMA TakenIsHeard ==
  ASSUME EbpfInv, NEW e \in KernelEvent, Taken(e), Agreed
  PROVE  e.pid \in monitored'
<1>1. Typed /\ ring # <<>> /\ e = Head(ring)
  BY DEF EbpfInv, Taken
<1>2. 1 \in 1..Len(ring) /\ ring[1] = e
  BY <1>1 DEF Typed, TypeOK
<1>3. e.pid \in Pid /\ e.ppid \in Pid \cup {Outside, NoPid}
  BY EventTyped
<1>4. ASSUME e.pid \notin monitored  PROVE e.type = "create" /\ e.ppid \in monitored
  <2>1. Introduced(e.pid, 1)
    BY <1>1, <1>2, <1>3 DEF Agreed
  <2>2. e.type = "create"
    BY <1>2, <1>4, <2>1 DEF Introduced, Creates
  <2>3. \A r \in Pid \cup {Outside, NoPid} : Introduced(r, 1 - 1) => r \in monitored
    BY DEF Introduced, Creates
  <2>4. e.ppid \in monitored
    <3>1. Introduced(e.ppid, 1 - 1)
      <4> HIDE DEF Introduced
      <4> QED BY <1>1, <1>2, <1>3, <1>4, <2>2, <2>3 DEF Agreed
    <3> QED BY <1>3, <2>3, <3>1
  <2> QED BY <2>2, <2>4
<1> QED BY <1>4 DEF Taken

LEMMA TakenKeepsAgreed ==
  ASSUME EbpfInv, NEW e \in KernelEvent, Taken(e), Agreed
  PROVE  Agreed'
<1>0. PICK n \in Nat : n = Len(ring)
  BY RingTyped DEF EbpfInv
<1>1. /\ Typed /\ ring # <<>> /\ e = Head(ring) /\ ring' = Tail(ring)
      /\ monitored \subseteq monitored' /\ e.pid \in monitored'
      /\ \A q \in target_pids' : q \in target_pids \/ q \in monitored'
      /\ cpu' = cpu /\ Making' = Making /\ e.pid \in Pid
  BY TakenIsHeard, EventTyped DEF EbpfInv, Taken, Making
<1>2. /\ ring[1] = e /\ 1 <= n /\ Len(ring') = n - 1 /\ Len(ring) = n
      /\ \A i \in 1..(n - 1) : ring'[i] = ring[i + 1] /\ i + 1 \in 2..n
      /\ \A q \in Pid \cup {Outside, NoPid} : \A i \in Nat \ {0}, j \in 0..(n - 1) :
             Creates(q, i, j)' <=> Creates(q, i + 1, j + 1)
  BY <1>0, <1>1, Consumed
<1>3. ASSUME NEW q \in Pid \cup {Outside, NoPid}, NEW j \in 0..(n - 1)
      PROVE  /\ Introduced(q, j + 1) => Introduced(q, j)'
             /\ Introduced(q, j)' => q \in monitored' \/ Introduced(q, j + 1)
  <2>1. Creates(q, 1, j)' <=> Creates(q, 2, j + 1)
    <3>1. 1 \in Nat \ {0} /\ 1 + 1 = 2
      OBVIOUS
    <3> QED BY <1>2, <3>1
  <2>2. Creates(q, 2, j + 1) => Creates(q, 1, j + 1)
    BY DEF Creates
  <2>3. ASSUME Creates(q, 1, j + 1), q \notin monitored'  PROVE Creates(q, 2, j + 1)
    <3>1. PICK k \in 1..(j + 1) : ring[k].type = "create" /\ ring[k].pid = q
      BY <2>3 DEF Creates
    <3>2. k # 1
      BY <1>1, <1>2, <2>3, <3>1
    <3>3. k \in 2..(j + 1)
      BY <3>1, <3>2
    <3> QED BY <3>1, <3>3 DEF Creates
  <2> QED BY <1>1, <2>1, <2>2, <2>3 DEF Introduced
<1>4. ASSUME NEW q \in Pid \cup {NoPid}, Introduced(q, n)  PROVE Introduced(q, n - 1)'
  <2>1. n - 1 \in 0..(n - 1) /\ (n - 1) + 1 = n
    BY <1>2
  <2> QED BY <1>3, <1>4, <2>1
<1>5. ASSUME NEW q \in target_pids'  PROVE q \in Making' \/ Introduced(q, n - 1)'
  <2>1. CASE q \in monitored'
    BY <2>1 DEF Introduced
  <2>2. CASE q \in target_pids
    <3>1. q \in Pid /\ (q \in Making \/ Introduced(q, n))
      BY <1>1, <1>2, <2>2 DEF Typed, TypeOK, Agreed
    <3> QED BY <1>1, <1>4, <3>1
  <2> QED BY <1>1, <1>5, <2>1, <2>2
<1>6. ASSUME NEW d \in CPU, cpu'[d] # Idle
      PROVE  /\ cpu'[d].leans = NoPid => Introduced(cpu[d].pid, n - 1)'
             /\ cpu'[d].leans # NoPid => cpu'[d].leans \in Making' \/ Introduced(cpu[d].leans, n - 1)'
  <2>1. PICK p \in Pid, l \in Pid \cup {NoPid} : p = cpu[d].pid /\ l = cpu[d].leans
    BY <1>1, <1>6, CpuTyped DEF Program
  <2>2. /\ l = NoPid => Introduced(p, n)
        /\ l # NoPid => l \in Making \/ Introduced(l, n)
    BY <1>1, <1>2, <1>6, <2>1 DEF Agreed
  <2>3. /\ l = NoPid => Introduced(p, n - 1)'
        /\ l # NoPid => l \in Making' \/ Introduced(l, n - 1)'
    BY <1>1, <1>4, <2>2
  <2>4. p = cpu'[d].pid /\ l = cpu'[d].leans
    BY <1>1, <2>1
  <2> QED BY <2>3, <2>4 DEF Introduced
<1>7. ASSUME NEW i \in 1..(n - 1), NEW q \in Pid, ring'[i].pid = q  PROVE Introduced(q, i)'
  <2>1. i + 1 \in 1..n /\ ring[i + 1].pid = q /\ i \in 0..(n - 1)
    <3>1. ring'[i] = ring[i + 1] /\ i + 1 \in 2..n
      BY <1>2
    <3>2. i + 1 \in 1..n /\ i \in 0..(n - 1)
      BY <1>2, <3>1
    <3> QED BY <1>7, <3>1, <3>2
  <2>2. Introduced(q, i + 1)
    BY <1>1, <1>2, <2>1 DEF Agreed
  <2> QED BY <1>3, <2>1, <2>2
<1>8. ASSUME NEW i \in 1..(n - 1), NEW q \in Pid, NEW r \in Pid \cup {Outside, NoPid},
             ring'[i].type = "create", ring'[i].pid = q, ring'[i].ppid = r,
             ~Introduced(q, i - 1)'
      PROVE  Introduced(r, i - 1)'
  <2>1. /\ i + 1 \in 1..n /\ ring'[i] = ring[i + 1] /\ i - 1 \in 0..(n - 1)
        /\ (i - 1) + 1 = i /\ (i + 1) - 1 = i
    BY <1>2
  <2>2. ring[i + 1].type = "create" /\ ring[i + 1].pid = q /\ ring[i + 1].ppid = r
    BY <1>8, <2>1
  <2>3. ~Introduced(q, i)
    BY <1>3, <1>8, <2>1
  <2>4. Introduced(r, i)
    <3>1. ~Introduced(q, (i + 1) - 1)
      BY <2>1, <2>3
    <3>2. Introduced(r, (i + 1) - 1)
      <4> HIDE DEF Introduced
      <4> QED BY <1>1, <1>2, <2>1, <2>2, <3>1 DEF Agreed
    <3> QED BY <2>1, <3>2
  <2> QED BY <1>3, <2>1, <2>4
<1> HIDE DEF Introduced
<1> QED BY <1>2, <1>5, <1>6, <1>7, <1>8 DEF Agreed

LEMMA TakenKeepsOwned ==
  ASSUME EbpfInv, NEW e \in KernelEvent, Taken(e), Owned
  PROVE  Owned'
<1>0. PICK n \in Nat : n = Len(ring)
  BY RingTyped DEF EbpfInv
<1>1. /\ Typed /\ ring # <<>> /\ ring' = Tail(ring) /\ proc' = proc /\ Living' = Living
      /\ \A q \in Pid : ExitToCome(q) => ExitToCome(q)'
  BY DEF EbpfInv, Taken, worldVars, Living, ExitToCome, On
<1>2. /\ 1 <= n /\ Len(ring') = n - 1 /\ Len(ring) = n
      /\ \A i \in 1..(n - 1) : ring'[i] = ring[i + 1] /\ i + 1 \in 2..n
      /\ \A q \in Pid \cup {Outside, NoPid} : \A i \in Nat \ {0}, j \in 0..(n - 1) :
             NoExit(q, i, j)' <=> NoExit(q, i + 1, j + 1)
  BY <1>0, <1>1, Consumed
<1>3. ASSUME NEW i \in 1..(n - 1), NEW q \in Pid, ring'[i].type \in Deed, ring'[i].pid = q
      PROVE  /\ \A j \in i..(n - 1) :
                   (ring'[j].pid = q /\ NoExit(q, i, j - 1)') => ring'[j].birth = ring'[i].birth
             /\ NoExit(q, i, n - 1)' =>
                   q \in Living' /\ ExitToCome(q)' /\ proc'[q].birth = ring'[i].birth
  <2>1. i + 1 \in 1..n /\ ring'[i] = ring[i + 1] /\ i \in Nat \ {0}
    BY <1>2
  <2>2. ASSUME NEW j \in i..(n - 1), ring'[j].pid = q, NoExit(q, i, j - 1)'
        PROVE  ring'[j].birth = ring'[i].birth
    <3>1. /\ j + 1 \in (i + 1)..n /\ j - 1 \in 0..(n - 1) /\ ring'[j] = ring[j + 1]
          /\ (j - 1) + 1 = j /\ (j + 1) - 1 = j
      BY <1>2
    <3>2. NoExit(q, i + 1, j)
      BY <1>2, <2>1, <2>2, <3>1
    <3>3. NoExit(q, i + 1, (j + 1) - 1) /\ ring[j + 1].pid = q
      BY <2>2, <3>1, <3>2
    <3>4. ring[i + 1].type \in Deed /\ ring[i + 1].pid = q /\ j + 1 \in (i + 1)..Len(ring)
      BY <1>2, <1>3, <2>1, <3>1
    <3>5. ring[j + 1].birth = ring[i + 1].birth
      BY <1>1, <1>2, <2>1, <3>3, <3>4 DEF Owned
    <3> QED BY <2>1, <3>1, <3>5
  <2>3. ASSUME NoExit(q, i, n - 1)'
        PROVE  q \in Living' /\ ExitToCome(q)' /\ proc'[q].birth = ring'[i].birth
    <3>1. n - 1 \in 0..(n - 1) /\ (n - 1) + 1 = n
      BY <1>2
    <3>2. NoExit(q, i + 1, n)
      BY <1>2, <2>1, <2>3, <3>1
    <3>3. q \in Living /\ ExitToCome(q) /\ proc[q].birth = ring[i + 1].birth
      BY <1>1, <1>2, <1>3, <2>1, <3>2 DEF Owned
    <3> QED BY <1>1, <2>1, <3>3
  <2> QED BY <2>2, <2>3
<1>4. ASSUME NEW i \in 1..Len(ring'), NEW q \in Pid, ring'[i].type \in Deed, ring'[i].pid = q
      PROVE  NoExit(q, i, Len(ring))' =>
                 q \in Living' /\ ExitToCome(q)' /\ proc'[q].birth = ring'[i].birth
  <2>1. i \in 1..(n - 1) /\ (NoExit(q, i, Len(ring))' => NoExit(q, i, n - 1)')
    BY <1>2 DEF NoExit
  <2> QED BY <1>3, <1>4, <2>1
<1>5. ASSUME NEW i \in 1..Len(ring'), NEW q \in Pid, ring'[i].type \in Deed, ring'[i].pid = q
      PROVE  \A j \in i..Len(ring') :
                 (ring'[j].pid = q /\ NoExit(q, i, j - 1)') => ring'[j].birth = ring'[i].birth
  <2>1. i \in 1..(n - 1) /\ i..Len(ring') = i..(n - 1)
    BY <1>2
  <2> QED BY <1>3, <1>5, <2>1
<1> QED BY <1>4, <1>5 DEF Owned

\* What was clean stays so, and a deed that is kept is that of whom the ID is.
LEMMA TakenKeepsClean ==
  ASSUME EbpfInv, NEW e \in KernelEvent, Taken(e), Owned, NEW q \in Pid, NEW T,
         \/ Clean(q, T) /\ ~(e.type = "exit" /\ q = e.pid)
         \/ q = e.pid /\ e.type \in T \cap Deed /\ Emit(e)
  PROVE  Clean(q, T)'
<1>0. PICK n \in Nat : n = Len(ring)
  BY RingTyped DEF EbpfInv
<1>1. /\ Typed /\ ring # <<>> /\ e = Head(ring) /\ ring' = Tail(ring)
      /\ proc' = proc /\ Living' = Living /\ \A p \in Pid : ExitToCome(p) => ExitToCome(p)'
      /\ heard \subseteq heard' /\ (Emit(e) => <<e.type, e.birth>> \in heard')
  BY DEF EbpfInv, Taken, worldVars, Living, ExitToCome, On, Emit, Drop
<1>2. /\ ring[1] = e /\ 1 <= n /\ Len(ring') = n - 1 /\ Len(ring) = n
      /\ \A i \in 1..(n - 1) : ring'[i] = ring[i + 1] /\ i + 1 \in 2..n
      /\ \A i \in Nat \ {0}, j \in 0..(n - 1) : NoExit(q, i, j)' <=> NoExit(q, i + 1, j + 1)
  BY <1>0, <1>1, Consumed
<1>3. ASSUME NEW j \in 0..(n - 1), NoExit(q, 1, j)'
      PROVE  NoExit(q, 1, j + 1)
  <2>1. 1 \in Nat \ {0} /\ 1 + 1 = 2
    OBVIOUS
  <2>2. NoExit(q, 2, j + 1)
    BY <1>2, <1>3, <2>1
  <2>3. ring[1].type = "exit" => ring[1].pid # q
    BY <1>2 DEF Deed
  <2>4. \A k \in 1..(j + 1) : k = 1 \/ k \in 2..(j + 1)
    OBVIOUS
  <2> QED BY <2>2, <2>3, <2>4 DEF NoExit
<1>4. ASSUME NEW i \in 1..(n - 1), ring'[i].pid = q, NoExit(q, 1, i - 1)'
      PROVE  Backed(T, ring[i].birth)'
  <2>1. /\ i - 1 \in 0..(n - 1) /\ (i - 1) + 1 = i /\ ring'[i] = ring[i + 1]
        /\ i + 1 \in 1..n /\ (i + 1) - 1 = i
    BY <1>2
  <2>2. NoExit(q, 1, i)
    BY <1>3, <1>4, <2>1
  <2>3. CASE Clean(q, T)
    <3>1. Backed(T, ring[i + 1].birth)
      BY <1>2, <1>4, <2>1, <2>2, <2>3 DEF Clean
    <3> QED BY <1>1, <2>1, <3>1 DEF Backed
  <2>4. CASE q = e.pid /\ e.type \in T \cap Deed /\ Emit(e)
    <3>1. ring[i + 1].birth = e.birth
      <4>1. 1 \in 1..n /\ i + 1 \in 1..n /\ ring[i + 1].pid = q
        BY <1>2, <1>4, <2>1
      <4> QED BY <1>1, <1>2, <2>1, <2>2, <2>4, <4>1 DEF Owned
    <3> QED BY <1>1, <2>1, <2>4, <3>1 DEF Backed
  <2> QED BY <2>3, <2>4
<1>5. ASSUME NoExit(q, 1, n - 1)'
      PROVE  q \in Living' /\ ExitToCome(q)' /\ Backed(T, proc[q].birth)'
  <2>1. n - 1 \in 0..(n - 1) /\ (n - 1) + 1 = n /\ 1 \in 1..n
    BY <1>2
  <2>2. NoExit(q, 1, n)
    BY <1>3, <1>5, <2>1
  <2>3. CASE Clean(q, T)
    <3>1. q \in Living /\ ExitToCome(q) /\ Backed(T, proc[q].birth)
      BY <1>2, <2>2, <2>3 DEF Clean
    <3> QED BY <1>1, <3>1 DEF Backed
  <2>4. CASE q = e.pid /\ e.type \in T \cap Deed /\ Emit(e)
    <3>1. q \in Living /\ ExitToCome(q) /\ proc[q].birth = e.birth
      BY <1>1, <1>2, <2>1, <2>2, <2>4 DEF Owned
    <3> QED BY <1>1, <2>4, <3>1 DEF Backed
  <2> QED BY <2>3, <2>4
<1> QED BY <1>2, <1>4, <1>5 DEF Clean, NoExit

\* An ID that is adopted is so by the creation of the one process it stands for,
\* which is heard.
LEMMA TakenKeepsNamed ==
  ASSUME EbpfInv, NEW e \in KernelEvent, Taken(e)
  PROVE  Named' /\ (CreateFirst => CreateFirst')
<1>1. /\ Typed /\ Named /\ ring # <<>> /\ e = Head(ring) /\ ring' = Tail(ring)
      /\ proc' = proc /\ births' = births /\ used' = used /\ Living' = Living
      /\ e.pid \in Pid /\ e.birth \in Nat
  BY EventTyped DEF EbpfInv, Taken, worldVars, Living
<1>2. /\ ring[1] = e /\ 1 \in 1..Len(ring)
      /\ \A i \in 1..Len(ring') : ring'[i] = ring[i + 1] /\ i + 1 \in 1..Len(ring)
  BY <1>1, Consumed
<1>3. /\ heard \subseteq heard'
      /\ \A h \in heard' : h \in heard \/ (h = <<e.type, e.birth>> /\ e.pid \in monitored')
      /\ \A q \in monitored' : q \in monitored \/
             (q = e.pid /\ e.type = "create" /\ <<e.type, e.birth>> \in heard')
      /\ monitored \subseteq monitored'
  BY DEF Taken, Emit, Drop, Discards
<1>4. e.pid \in used
  BY <1>1, <1>2 DEF Named
<1>5. /\ Sample \in used' /\ monitored' \subseteq used'
      /\ \A i \in 1..Len(ring') : ring'[i].pid \in used'
  BY <1>1, <1>2, <1>3, <1>4 DEF Named
<1>6. ASSUME NEW q, NEW b, Identity(q, b)  PROVE Identity(q, b)'
  BY <1>1, <1>2, <1>6 DEF Identity
<1>7. NoneReused' => NoneReused
  BY <1>1 DEF NoneReused
<1>8. ASSUME NoneReused, NEW q \in monitored', q # Sample
      PROVE  \E b \in Nat : Identity(q, b) /\ <<"create", b>> \in heard'
  <2>1. CASE q \in monitored
    BY <1>1, <1>3, <1>8, <2>1 DEF Named
  <2>2. CASE q = e.pid /\ e.type = "create" /\ <<e.type, e.birth>> \in heard'
    <3>1. PICK b \in Nat : Identity(q, b)
      BY <1>1, <1>4, <1>8, <2>2 DEF Named
    <3>2. b = e.birth
      BY <1>2, <2>2, <3>1 DEF Identity
    <3> QED BY <2>2, <3>1, <3>2
  <2> QED BY <1>3, <2>1, <2>2
<1>9. NoneReused => /\ Identity(Sample, 1)'
                    /\ \A q \in used : \E b \in Nat : Identity(q, b)'
  BY <1>1, <1>6 DEF Named
<1>10. NoneReused' => \A q \in monitored' : q # Sample =>
           \E b \in Nat : Identity(q, b)' /\ <<"create", b>> \in heard'
  BY <1>6, <1>7, <1>8
<1>11. Named'
  BY <1>1, <1>5, <1>7, <1>9, <1>10 DEF Named
<1>12. ASSUME CreateFirst, NoneReused', NEW h \in heard', h[2] # 1
       PROVE  <<"create", h[2]>> \in heard'
  <2>1. CASE h \in heard
    BY <1>3, <1>7, <1>12, <2>1 DEF CreateFirst
  <2>2. CASE h = <<e.type, e.birth>> /\ e.pid \in monitored'
    <3>1. h[2] = e.birth
      BY <2>2
    <3>2. e.pid # Sample
      BY <1>1, <1>2, <1>7, <1>12, <3>1 DEF Named, Identity
    <3>3. PICK b \in Nat : Identity(e.pid, b) /\ <<"create", b>> \in heard'
      BY <1>7, <1>8, <1>12, <2>2, <3>2
    <3>4. b = e.birth
      BY <1>2, <3>3 DEF Identity
    <3> QED BY <3>1, <3>3, <3>4
  <2> QED BY <1>3, <2>1, <2>2
<1> QED BY <1>11, <1>12 DEF CreateFirst

LEMMA TakenKeepsTyped ==
  ASSUME EbpfInv, NEW e \in KernelEvent, Taken(e)
  PROVE  Typed'
<1>1. /\ Typed /\ TypeOK /\ ring \in Seq(KernelEvent) /\ ring # <<>> /\ ring' = Tail(ring)
      /\ Len(ring) <= RingSize /\ RingSize \in Nat
  BY EbpfMonitorAssumption DEF EbpfInv, Typed, TypeOK, Taken
<1>2. e.pid \in Pid /\ e.birth \in 1..MaxBirths /\ e.type \in EventType
  BY EventTyped
<1>3. ring' \in Seq(KernelEvent) /\ Len(ring') <= RingSize
  BY <1>1, Consumed
<1>4. monitored' \subseteq Pid /\ target_pids' \subseteq Pid
  BY <1>1, <1>2 DEF TypeOK, Taken
<1>5. /\ shown' \in [type : EventType, birth : 1..MaxBirths] \cup {None}
      /\ heard' \subseteq EventType \X (1..MaxBirths)
      /\ correlator' \in C!EngineType
  <2>1. CASE Emit(e)
    <3>1. correlator' \in C!EngineType
      BY <1>1, <2>1, Correlated DEF Emit
    <3> QED BY <1>1, <1>2, <2>1, <3>1 DEF Emit, TypeOK
  <2>2. CASE Drop
    BY <1>1, <2>2 DEF Drop, Typed, TypeOK
  <2> QED BY <2>1, <2>2 DEF Taken
<1>6. UNCHANGED <<worldVars, attached, cpu, submitted, lost, raced, stopped>>
  BY DEF Taken
<1> QED BY <1>1, <1>3, <1>4, <1>5, <1>6 DEF Typed, TypeOK, worldVars, WorldTypeOK

\* The user side takes no program off a CPU and no ID off the map.
LEMMA TakenKeepsRunning ==
  ASSUME EbpfInv, NEW e \in KernelEvent, Taken(e)
  PROVE  Running'
<1>1. /\ Running /\ proc' = proc /\ Living' = Living /\ attached' = attached /\ cpu' = cpu
      /\ target_pids \subseteq target_pids'
  BY DEF EbpfInv, Taken, worldVars, Living
<1>2. ASSUME NEW c \in CPU, cpu'[c] # Idle
      PROVE  /\ attached' /\ cpu'[c].pid \in Living'
             /\ cpu'[c].type # "create" => cpu'[c].leans = NoPid
             /\ (cpu'[c].pid \notin Threads \/ cpu'[c].type \in {"create", "last"}) =>
                    On(cpu[c].pid)' = {c}
             /\ cpu'[c].pid \notin Threads => cpu'[c].pid \in target_pids' /\ cpu'[c].type # "exit"
  <2>1. On(cpu[c].pid)' = On(cpu[c].pid)
    BY <1>1 DEF On
  <2>2. /\ attached /\ cpu[c].pid \in Living
        /\ cpu[c].type # "create" => cpu[c].leans = NoPid
        /\ (cpu[c].pid \notin Threads \/ cpu[c].type \in {"create", "last"}) =>
               On(cpu[c].pid) = {c}
        /\ cpu[c].pid \notin Threads => cpu[c].pid \in target_pids /\ cpu[c].type # "exit"
    BY <1>1, <1>2 DEF Running
  <2> QED BY <1>1, <2>1, <2>2
<1> QED BY <1>2 DEF Running

\* What the engine keeps, it keeps under IDs the user side tracks; an event it is not
\* given is no exit of such an ID.
LEMMA TakenKeepsClean2 ==
  ASSUME EbpfInv, NEW e \in KernelEvent, Taken(e), ~lost, "exit" \notin raced
  PROVE  /\ \A q \in correlator'.contacted : Clean(q, {"connect"})'
         /\ \A q \in correlator'.written : Clean(q, {"openat", "write"})'
<1>1. /\ Typed /\ Owned /\ monitored \subseteq monitored'
      /\ correlator.contacted \cup correlator.written \subseteq monitored
      /\ correlator.contacted \subseteq Pid /\ correlator.written \subseteq Pid /\ e.pid \in Pid
      /\ \A q \in correlator.contacted : Clean(q, {"connect"})
      /\ \A q \in correlator.written : Clean(q, {"openat", "write"})
  BY EventTyped DEF EbpfInv, Told, Typed, C!EngineType, Taken
<1>2. CASE Emit(e)
  <2>1. /\ \A q \in correlator'.contacted :
               \/ q \in correlator.contacted /\ ~(e.type = "exit" /\ q = e.pid)
               \/ q = e.pid /\ e.type = "connect"
        /\ \A q \in correlator'.written :
               \/ q \in correlator.written /\ ~(e.type = "exit" /\ q = e.pid)
               \/ q = e.pid /\ e.type \in {"openat", "write"}
    BY <1>1, <1>2, Correlated DEF Emit
  <2>2. ASSUME NEW q \in correlator'.contacted  PROVE Clean(q, {"connect"})'
    <3>1. /\ \/ Clean(q, {"connect"}) /\ ~(e.type = "exit" /\ q = e.pid)
             \/ q = e.pid /\ e.type \in {"connect"} \cap Deed /\ Emit(e)
          /\ q \in Pid
      BY <1>1, <1>2, <2>1 DEF Deed
    <3> QED BY <1>1, <3>1, TakenKeepsClean
  <2>3. ASSUME NEW q \in correlator'.written  PROVE Clean(q, {"openat", "write"})'
    <3>1. /\ \/ Clean(q, {"openat", "write"}) /\ ~(e.type = "exit" /\ q = e.pid)
             \/ q = e.pid /\ e.type \in {"openat", "write"} \cap Deed /\ Emit(e)
          /\ q \in Pid
      BY <1>1, <1>2, <2>1 DEF Deed
    <3> QED BY <1>1, <3>1, TakenKeepsClean
  <2> QED BY <2>2, <2>3
<1>3. CASE Drop /\ (e.pid \notin monitored' \/ Discards(e))
  <2>1. correlator' = correlator /\ ~(e.type = "exit" /\ e.pid \in monitored')
    BY <1>3 DEF Drop, Discards
  <2>2. ASSUME NEW q \in correlator'.contacted  PROVE Clean(q, {"connect"})'
    <3>1. q \in Pid /\ Clean(q, {"connect"}) /\ ~(e.type = "exit" /\ q = e.pid)
      BY <1>1, <2>1, <2>2
    <3> QED BY <1>1, <3>1, TakenKeepsClean
  <2>3. ASSUME NEW q \in correlator'.written  PROVE Clean(q, {"openat", "write"})'
    <3>1. q \in Pid /\ Clean(q, {"openat", "write"}) /\ ~(e.type = "exit" /\ q = e.pid)
      BY <1>1, <2>1, <2>3
    <3> QED BY <1>1, <3>1, TakenKeepsClean
  <2> QED BY <2>2, <2>3
<1> QED BY <1>2, <1>3 DEF Taken

\* A deed that is kept under the ID of the event at the head is that of whom it is about.
LEMMA TakenIsClean ==
  ASSUME EbpfInv, NEW e \in KernelEvent, Taken(e), CleanSlate
  PROVE  CleanSlate'
<1>1. Typed /\ lost' = lost /\ raced' = raced
  BY DEF EbpfInv, Taken
<1>2. CASE Emit(e) /\ ~lost /\ "exit" \notin raced
  <2>1. \A a \in raised' : a.kind \in {"persistence", "aftermath"} =>
            \/ e.type \in {"openat", "write"} /\ e.pid \in correlator.contacted
            \/ e.type = "connect" /\ e.pid \in correlator.written
    BY <1>1, <1>2, Correlated DEF Emit
  <2>2. ring[1] = e /\ 1 \in 1..Len(ring) /\ \A j \in 1..(1 - 1) : FALSE
    BY <1>1, Consumed DEF Taken
  <2>3. /\ e.pid \in correlator.contacted => Backed({"connect"}, e.birth)
        /\ e.pid \in correlator.written => Backed({"openat", "write"}, e.birth)
    BY <1>2, <2>2 DEF EbpfInv, Told, Clean, NoExit
  <2>4. shown'.birth = e.birth /\ heard' = heard \cup {<<e.type, e.birth>>}
    BY <1>2 DEF Emit
  <2>5. ASSUME NEW a \in raised', a.kind \in {"persistence", "aftermath"}
        PROVE  /\ <<"connect", shown'.birth>> \in heard'
               /\ <<"openat", shown'.birth>> \in heard' \/ <<"write", shown'.birth>> \in heard'
    <3>1. \/ e.type \in {"openat", "write"} /\ Backed({"connect"}, e.birth)
          \/ e.type = "connect" /\ Backed({"openat", "write"}, e.birth)
      BY <2>1, <2>3, <2>5
    <3> QED BY <2>4, <3>1 DEF Backed
  <2> QED BY <2>5 DEF CleanSlate, DeedsOfOne
<1>3. CASE Drop
  <2>1. raised' = {}
    BY <1>3 DEF Drop
  <2> QED BY <2>1 DEF CleanSlate, DeedsOfOne
<1>4. CASE lost \/ "exit" \in raced
  BY <1>1, <1>4 DEF CleanSlate
<1> QED BY <1>2, <1>3, <1>4 DEF Taken

LEMMA UserKeeps ==
  ASSUME EbpfInv, CleanSlate, CreateFirst, HandleBPFEvent
  PROVE  EbpfInv' /\ CleanSlate' /\ CreateFirst'
<1>1. PICK e \in KernelEvent : Taken(e)
  BY Takes
<1>2. Typed' /\ Named' /\ CreateFirst' /\ Running' /\ CleanSlate'
  BY <1>1, TakenKeepsTyped, TakenKeepsNamed, TakenKeepsRunning, TakenIsClean
<1>3. WorldInv'
  BY <1>1 DEF Taken, EbpfInv, worldVars, WorldInv, WorldTypeOK, Numbered, Related, Wired, Living
<1>4. Dormant' /\ lost' = lost /\ raced' = raced /\ Typed
  BY <1>1 DEF Taken, Dormant, EbpfInv
<1>5. correlator'.contacted \cup correlator'.written \subseteq monitored'
  <2>1. correlator.contacted \cup correlator.written \subseteq monitored /\ monitored \subseteq monitored'
    BY <1>1 DEF EbpfInv, Told, Taken
  <2>2. CASE Emit(e) /\ e.pid \in monitored'
    <3>1. /\ \A q \in correlator'.contacted : q \in correlator.contacted \/ q = e.pid
          /\ \A q \in correlator'.written : q \in correlator.written \/ q = e.pid
      BY <1>4, <2>2, Correlated DEF Emit
    <3> QED BY <2>1, <2>2, <3>1
  <2>3. CASE Drop
    BY <2>1, <2>3 DEF Drop
  <2> QED BY <1>1, <2>2, <2>3 DEF Taken
<1>6. (~lost' /\ "exec" \notin raced') => Agreed'
  BY <1>1, <1>4, TakenKeepsAgreed DEF EbpfInv, Told
<1>7. (~lost' /\ "exit" \notin raced') => Owned'
  BY <1>1, <1>4, TakenKeepsOwned DEF EbpfInv, Told
<1>8. (~lost' /\ "exit" \notin raced') =>
          /\ \A q \in correlator'.contacted : Clean(q, {"connect"})'
          /\ \A q \in correlator'.written : Clean(q, {"openat", "write"})'
  BY <1>1, <1>4, TakenKeepsClean2
<1>9. Told'
  BY <1>5, <1>6, <1>7, <1>8 DEF Told
<1> QED BY <1>2, <1>3, <1>4, <1>9 DEF EbpfInv

LEMMA Initially == Init => EbpfInv /\ CleanSlate /\ CreateFirst
<1> SUFFICES ASSUME Init  PROVE EbpfInv /\ CleanSlate /\ CreateFirst
  OBVIOUS
<1>0. /\ Sample \in Pid /\ Outside \notin Pid /\ MaxBirths \in Nat \ {0} /\ NoPid \notin Pid
      /\ RingSize \in Nat /\ MaxEvents \in Nat
  BY ProcessesAssumption, EbpfMonitorAssumption
<1>1. WorldInv /\ WorldTypeOK
  BY WorldInitially DEF Init, WorldInv
<1>2. C!NewEngine \in C!EngineType /\ C!NewEngine.contacted = {} /\ C!NewEngine.written = {}
  BY DEF C!NewEngine, C!EngineType, C!Never
<1>3. ring = <<>> /\ ring \in Seq(KernelEvent) /\ Len(ring) = 0
  BY DEF Init
<1>4. Typed
  <2>1. /\ attached \in BOOLEAN /\ stopped \in BOOLEAN /\ lost \in BOOLEAN
        /\ target_pids \subseteq Pid /\ monitored \subseteq Pid
    BY <1>0 DEF Init
  <2>2. shown = None /\ heard = {} /\ correlator \in C!EngineType /\ raced = {}
    BY <1>2 DEF Init
  <2>3. submitted \in 0..MaxEvents /\ Len(ring) <= RingSize
    BY <1>0, <1>3 DEF Init
  <2>4. cpu \in [CPU -> Program \cup {Idle}]
    BY DEF Init
  <2> QED BY <1>1, <1>3, <2>1, <2>2, <2>3, <2>4 DEF Typed, TypeOK
<1>5. Dormant /\ Running
  BY <1>2, <1>3 DEF Init, Dormant, Running
<1>6. Told
  <2>1. Owned
    BY <1>3 DEF Owned
  <2>2. Agreed
    <3>1. \A q \in target_pids : Introduced(q, Len(ring))
      BY DEF Init, Introduced
    <3>2. \A c \in CPU : cpu[c] = Idle
      BY DEF Init
    <3> QED BY <1>3, <3>1, <3>2 DEF Agreed
  <2> QED BY <1>2, <2>1, <2>2 DEF Told, Init
<1>7. /\ used = {Sample} /\ monitored = {Sample} /\ proc[Sample].birth = 1
  <2>1. proc[Sample] = [Free EXCEPT !.birth = 1, !.tree = TRUE]
    BY <1>0 DEF Init, WorldInit
  <2>2. Free \in Process
    BY <1>0 DEF Free, Process
  <2> QED BY <1>0, <2>1, <2>2 DEF Init, WorldInit, Process
<1>8. Identity(Sample, 1)
  BY <1>3, <1>7 DEF Identity
<1>9. Named
  BY <1>3, <1>7, <1>8 DEF Named
<1>10. CleanSlate /\ CreateFirst
  BY DEF Init, CleanSlate, DeedsOfOne, CreateFirst
<1> QED BY <1>1, <1>4, <1>5, <1>6, <1>9, <1>10 DEF EbpfInv

LEMMA Always == Spec => [](EbpfInv /\ CleanSlate /\ CreateFirst)
<1> DEFINE All == EbpfInv /\ CleanSlate /\ CreateFirst
<1>1. ASSUME All, UNCHANGED vars  PROVE All'
  <2>1. /\ UNCHANGED worldVars /\ UNCHANGED <<ring, target_pids, cpu, submitted, lost, raced>>
        /\ UNCHANGED <<monitored, correlator, shown, raised, heard>>
        /\ UNCHANGED <<attached, stopped>>
    BY <1>1 DEF vars, kernelVars, userVars
  <2>2. Quiet
    BY <1>1, <2>1, LivesGoOn DEF Quiet, Still
  <2>3. WorldInv' /\ Named' /\ Dormant' /\ Told'
    BY <1>1, <2>1, <2>2, WorldIsKept, KernelKeepsNamed, QuietKeeps DEF Tells
  <2>4. Typed' /\ Running'
    BY <1>1, <2>1 DEF EbpfInv, Typed, TypeOK, worldVars, WorldTypeOK, Running, On, Living
  <2>5. CleanSlate' /\ CreateFirst'
    BY <1>1, <2>1 DEF CleanSlate, DeedsOfOne, CreateFirst, worldVars, NoneReused
  <2> QED BY <2>3, <2>4, <2>5 DEF EbpfInv
<1>2. ASSUME All, Next  PROVE All'
  BY <1>2, KernelKeeps, UserKeeps DEF Next
<1>3. All /\ [Next]_vars => All'
  BY <1>1, <1>2
<1>4. Init => All
  BY Initially
<1> QED BY <1>3, <1>4, PTL DEF Spec

-----------------------------------------------------------------------------
(* The results.                                                             *)
\* The variables keep to their types, the ring to its size.
THEOREM TypeCorrect == Spec => []TypeOK
BY Always, PTL DEF EbpfInv, Typed

\* A process is introduced before it is heard, whatever the ring loses, as long as
\* no ID comes back: who is adopted is so by a creation that is heard, of the one
\* process its ID stands for (monitor_linux.go:584-589).
THEOREM IntroducedFirst == Spec => []CreateFirst
BY Always, PTL

\* An alert joins the deeds of one process if nothing was lost and no call was
\* submitted after the exit of another thread of its process: what is tracked does
\* not end without an exit event, and the engine forgets the ID by it
\* (monitoring.bpf.c:152-166, correlation.go:133).
THEOREM SlateIsClean == Spec => []CleanSlate
BY Always, PTL

\* The user side discards nothing the kernel let through but opens of no interest: it
\* adopts every process the kernel tracks by the time it comes to that process'
\* events, if no creation comes too late (monitor_linux.go:568-588, 632-638).
THEOREM FiltersAgree == Spec => NoneDiscarded
<1> DEFINE Shown == (submitted' = submitted /\ ring' # ring /\ ~lost /\ "exec" \notin raced) =>
                        shown' # None \/ Discards(Head(ring))
<1>1. ASSUME EbpfInv, [Next]_vars  PROVE [Shown]_vars
  <2>1. submitted \in Nat
    BY <1>1, EbpfMonitorAssumption DEF EbpfInv, Typed, TypeOK
  <2>2. CASE StartEBPF \/ Kernel \/ Stop
    <3>1. Tells
      BY <1>1, <2>2, KernelSays
    <3> QED BY <2>1, <3>1 DEF Tells, Quiet, Said
  <2>3. CASE HandleBPFEvent
    <3>1. PICK e \in KernelEvent : Taken(e)
      BY <1>1, <2>3, Takes
    <3>2. e = Head(ring)
      BY <3>1 DEF Taken
    <3>3. (~lost /\ "exec" \notin raced) => e.pid \in monitored'
      BY <1>1, <3>1, TakenIsHeard DEF EbpfInv, Told
    <3>4. Emit(e) => shown' # None
      <4>1. e.type # "none" /\ None.type = "none"
        BY EventTyped DEF None, EventType
      <4>2. Emit(e) => shown'.type = e.type
        BY DEF Emit
      <4> QED BY <4>1, <4>2
    <3>5. ASSUME ~lost, "exec" \notin raced, ~Discards(Head(ring))  PROVE shown' # None
      <4>1. e.pid \in monitored' /\ ~Discards(e)
        BY <3>2, <3>3, <3>5
      <4>2. Emit(e)
        BY <3>1, <4>1 DEF Taken
      <4> QED BY <3>4, <4>2
    <3> QED BY <3>5
  <2> QED BY <1>1, <2>2, <2>3 DEF Next
<1>2. Spec => []EbpfInv
  BY Always, PTL
<1> QED BY <1>1, <1>2, PTL DEF Spec, NoneDiscarded

-----------------------------------------------------------------------------
(* Processes with one thread.                                               *)
\* A process with one thread submits no call after its exit, so that nothing but a
\* lost event has an alert join the deeds of two processes (monitoring.bpf.c:253-258).
THEOREM CleanWithoutThreads == ASSUME Threads = {}  PROVE Spec => [](~lost => DeedsOfOne)
<1> DEFINE Orderly == "exit" \notin raced
<1>1. Init => Orderly
  BY DEF Init
<1>2. ASSUME EbpfInv, Orderly, [Next]_vars  PROVE Orderly'
  <2>1. CASE StartEBPF \/ Kernel \/ Stop
    <3>1. Tells
      BY <1>2, <2>1, KernelSays
    <3>2. CASE Quiet
      BY <1>2, <3>2 DEF Quiet
    <3>3. ASSUME NEW c \in CPU, NEW e \in KernelEvent, Said(c, e)  PROVE Orderly'
      <4>1. cpu[c] # Idle /\ e.pid = cpu[c].pid
        BY <3>3 DEF Said
      <4>2. e.pid \in target_pids
        BY <1>2, <4>1 DEF EbpfInv, Running
      <4>3. ExitToCome(e.pid)
        BY <4>2 DEF ExitToCome
      <4> QED BY <1>2, <3>3, <4>3 DEF Said
    <3> QED BY <3>1, <3>2, <3>3 DEF Tells
  <2>2. CASE HandleBPFEvent
    <3>1. raced' = raced
      BY <2>2 DEF HandleBPFEvent
    <3> QED BY <1>2, <3>1
  <2>3. CASE UNCHANGED vars
    BY <1>2, <2>3 DEF vars, kernelVars
  <2> QED BY <1>2, <2>1, <2>2, <2>3 DEF Next
<1>3. Spec => [](EbpfInv /\ CleanSlate)
  BY Always, PTL
<1>4. CleanSlate /\ Orderly => (~lost => DeedsOfOne)
  BY DEF CleanSlate
<1> QED BY <1>1, <1>2, <1>3, <1>4, PTL DEF Spec

\* What an exit event is about has ended, on its way and when it is sent.
Over ==
    /\ \A i \in 1..Len(ring) :
           /\ ring[i].birth <= births
           /\ ring[i].type = "exit" => \A p \in Pid : proc[p].birth # ring[i].birth
    /\ shown.birth \in Nat /\ shown.birth <= births
    /\ shown.type = "exit" => shown.birth # 0
    /\ ExitMeansGone

\* No step of the host gives an old birth to an ID.
LEMMA BirthsAreNew ==
  ASSUME EbpfInv, World \/ UNCHANGED worldVars
  PROVE  /\ births \in Nat /\ births' \in Nat /\ births <= births'
         /\ \A p \in Pid : \/ proc'[p].birth = proc[p].birth \/ proc'[p].birth = 0
                           \/ proc'[p].birth > births
<1>1. proc \in [Pid -> Process] /\ births \in Nat
  BY ProcessesAssumption DEF EbpfInv, WorldInv, WorldTypeOK
<1>2. ASSUME NEW q \in Pid, NEW parent \in Living \cup {Outside}, Fork(parent, q)
      PROVE  /\ births' = births + 1 /\ proc'[q].birth = births + 1
             /\ \A p \in Pid : p # q => proc'[p] = proc[p]
  <2>1. births' = births + 1
    BY <1>2 DEF Fork, Spawn
  <2> DEFINE new == [birth |-> births + 1, ppid |-> parent, file |-> FALSE, conn |-> FALSE,
                     tree |-> parent \in Pid /\ proc[parent].tree]
  <2>2. proc' = [proc EXCEPT ![q] = new]
    BY <1>2 DEF Fork, Spawn
  <2>3. new.birth = births + 1
    OBVIOUS
  <2> HIDE DEF new
  <2> QED BY <1>1, <2>1, <2>2, <2>3
<1>3. ASSUME NEW q \in Pid, Exit(q) \/ OpenFile(q) \/ Connect(q)
      PROVE  births' = births /\ \A p \in Pid : proc'[p].birth = proc[p].birth \/ proc'[p].birth = 0
  BY <1>1, <1>3 DEF Exit, OpenFile, Connect, Process, Free
<1>4. CASE World
  BY <1>1, <1>2, <1>3, <1>4 DEF World
<1>5. CASE UNCHANGED worldVars
  BY <1>1, <1>5 DEF worldVars
<1> QED BY <1>4, <1>5

LEMMA OverKeeps ==
  ASSUME Threads = {}, EbpfInv, Over, [Next]_vars
  PROVE  Over'
<1>1. births \in Nat /\ Typed /\ proc \in [Pid -> Process] /\ shown.birth \in Nat
  BY ProcessesAssumption DEF EbpfInv, WorldInv, WorldTypeOK, Over
<1>2. \A i \in 1..Len(ring) : ring[i].birth \in Nat /\ ring[i].birth # 0
  BY <1>1, RingTyped, EventTyped
<1>3. CASE HandleBPFEvent
  <2>1. PICK e \in KernelEvent : Taken(e)
    BY <1>3, Takes
  <2>2. /\ ring[1] = e /\ 1 \in 1..Len(ring) /\ proc' = proc /\ births' = births
        /\ \A i \in 1..Len(ring') : ring'[i] = ring[i + 1] /\ i + 1 \in 1..Len(ring)
    BY <1>1, <2>1, Consumed DEF Taken, worldVars
  <2>3. \A i \in 1..Len(ring') :
            /\ ring'[i].birth <= births'
            /\ ring'[i].type = "exit" => \A p \in Pid : proc'[p].birth # ring'[i].birth
    BY <2>2 DEF Over
  <2>4. CASE Emit(e)
    <3>1. shown'.birth = e.birth /\ shown'.type = e.type /\ e.birth \in Nat /\ e.birth # 0
      BY <2>4, EventTyped DEF Emit
    <3>2. e.birth <= births /\ (e.type = "exit" => \A p \in Pid : proc[p].birth # e.birth)
      BY <2>2 DEF Over
    <3>3. ExitMeansGone'
      BY <2>2, <3>1, <3>2 DEF ExitMeansGone
    <3> QED BY <1>1, <2>2, <2>3, <3>1, <3>2, <3>3 DEF Over
  <2>5. CASE Drop
    <3>1. shown'.birth = 0 /\ shown'.type = "none"
      BY <2>5 DEF Drop, None
    <3>2. ExitMeansGone'
      BY <3>1 DEF ExitMeansGone
    <3> QED BY <1>1, <2>2, <2>3, <3>1, <3>2 DEF Over
  <2> QED BY <2>1, <2>4, <2>5 DEF Taken
<1>4. CASE StartEBPF \/ Kernel \/ Stop
  <2>1. shown' = shown /\ (World \/ UNCHANGED worldVars) /\ Tells
    BY <1>4, KernelSays
  <2>2. /\ births' \in Nat /\ births <= births'
        /\ \A p \in Pid : \/ proc'[p].birth = proc[p].birth \/ proc'[p].birth = 0
                          \/ proc'[p].birth > births
    BY <2>1, BirthsAreNew
  <2>3. ASSUME NEW b \in Nat, b # 0, b <= births, \A p \in Pid : proc[p].birth # b
        PROVE  \A p \in Pid : proc'[p].birth # b
    BY <1>1, <2>2, <2>3
  <2>4. /\ shown'.birth \in Nat /\ shown'.birth <= births'
        /\ (shown'.type = "exit" => shown'.birth # 0) /\ ExitMeansGone'
    BY <1>1, <2>1, <2>2, <2>3 DEF Over, ExitMeansGone
  <2>5. \A i \in 1..Len(ring) :
            /\ ring[i].birth <= births'
            /\ ring[i].type = "exit" => \A p \in Pid : proc'[p].birth # ring[i].birth
    BY <1>1, <1>2, <2>2, <2>3 DEF Over
  <2>6. CASE ring' = ring
    BY <2>4, <2>5, <2>6 DEF Over
  <2>7. CASE ring' # ring
    <3>1. PICK c \in CPU, e \in KernelEvent : Said(c, e) /\ ring' = Append(ring, e)
      BY <2>1, <2>7 DEF Tells, Quiet, Said
    <3>2. /\ cpu[c] # Idle /\ e.pid = cpu[c].pid /\ e.pid \in Living
          /\ e.birth = proc[e.pid].birth
          /\ e.type = "exit" => e.pid \notin Living'
      <4>1. cpu[c] # Idle /\ e.pid = cpu[c].pid /\ e.birth = proc[e.pid].birth
        BY <3>1 DEF Said
      <4>2. cpu[c].pid \in Living /\ cpu[c].type # "exit"
        BY <4>1 DEF EbpfInv, Running
      <4> QED BY <3>1, <4>1, <4>2 DEF Said
    <3>3. e.pid \in Pid /\ e.birth <= births /\ e.birth \in Nat /\ e.birth # 0
      BY <3>2, EventTyped DEF EbpfInv, WorldInv, Numbered
    <3>4. ASSUME e.type = "exit", NEW p \in Pid  PROVE proc'[p].birth # e.birth
      <4>1. CASE p \in Living
        <5>1. proc[p].birth = e.birth => p = e.pid
          BY <3>2, <4>1 DEF EbpfInv, WorldInv, Numbered
        <5>2. proc'[e.pid].birth = 0
          BY <3>2, <3>3, <3>4 DEF Living
        <5> QED BY <1>1, <2>2, <3>3, <5>1, <5>2
      <4>2. CASE p \notin Living
        <5>1. proc[p].birth = 0
          BY <4>2 DEF Living
        <5> QED BY <1>1, <2>2, <3>3, <5>1
      <4> QED BY <4>1, <4>2
    <3>5. \A i \in 1..Len(ring') : (i \in 1..Len(ring) /\ ring'[i] = ring[i]) \/ ring'[i] = e
      BY <1>1, <3>1, Appended
    <3>6. e.birth <= births'
      BY <1>1, <2>2, <3>3
    <3> QED BY <2>4, <2>5, <3>4, <3>5, <3>6 DEF Over
  <2> QED BY <2>6, <2>7
<1>5. CASE UNCHANGED vars
  BY <1>5 DEF vars, worldVars, kernelVars, userVars, Over, ExitMeansGone
<1> QED BY <1>3, <1>4, <1>5 DEF Next

\* An exit event is about a process that has ended if processes have one thread: the
\* exits of threads are all that run ebpf_thread's counterexample can rest on
\* (monitoring.bpf.c:5).
THEOREM ExitsWithoutThreads == ASSUME Threads = {}  PROVE Spec => []ExitMeansGone
<1>1. Init => Over
  <2> SUFFICES ASSUME Init  PROVE Over
    OBVIOUS
  <2>1. ring = <<>> /\ shown.birth = 0 /\ shown.type = "none" /\ births = 1
    BY DEF Init, None, WorldInit
  <2> QED BY <2>1 DEF Over, ExitMeansGone
<1>2. EbpfInv /\ Over /\ [Next]_vars => Over'
  BY OverKeeps
<1>3. Spec => []EbpfInv
  BY Always, PTL
<1>4. Over => ExitMeansGone
  BY DEF Over
<1> QED BY <1>1, <1>2, <1>3, <1>4, PTL DEF Spec
=============================================================================
