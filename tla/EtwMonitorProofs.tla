--------------------------- MODULE EtwMonitorProofs --------------------------
(***************************************************************************)
(* Proofs about the Windows monitor, for any number of IDs and births and  *)
(* whichever providers have events: the tree of the sample is tracked, the *)
(* alerts lean on what the process now did, and a child above its parent   *)
(* is reported.                                                            *)
(***************************************************************************)
EXTENDS EtwMonitor, TLAPS

\* What the engine keeps under an ID is about the process that has it now, if ends
\* are heard; before the session is live it keeps nothing.
Slate ==
    /\ session = "pending" => correlator.contacted = {} /\ correlator.written = {}
    /\ session = "enabled" =>
           /\ \A p \in correlator.contacted : p \in Living \cap monitored /\ "connected" \in did[p]
           /\ \A p \in correlator.written : p \in Living \cap monitored /\ "lasting" \in did[p]

\* A process of the tree that was started under observation has its node, with
\* the integrity it has.
Charted ==
    ~spoofed => \A p \in Living \ missed : (proc[p].tree /\ proc[p].birth # 1) =>
        \E n \in correlator.processes :
            n.pid = p /\ n.spawn = correlator.pidToKey[p] /\ n.integrity = level[p]

EtwInv == TypeOK /\ DescendantsTracked /\ Slate /\ Charted

-----------------------------------------------------------------------------
(* The host.                                                                *)
LEMMA Typed ==
  ASSUME TypeOK
  PROVE  /\ proc \in [Pid -> Process] /\ births \in 1..MaxBirths /\ births \in Nat /\ used \subseteq Pid
         /\ monitored \subseteq Pid /\ level \in [Pid -> {"low", "high"}] /\ spoofed \in BOOLEAN
         /\ missed \subseteq Pid /\ session \in {"pending", "enabled", "unavailable"}
         /\ created \in Pid \cup {NoPid} /\ did \in [Pid -> SUBSET {"lasting", "connected"}]
         /\ correlator.processes \subseteq C!Node
         /\ correlator.pidToKey \in [Pid -> Nat]
         /\ correlator.injection \in [Pid \X Pid -> Nat]
         /\ correlator.contacted \subseteq Pid /\ correlator.written \subseteq Pid
<1>1. /\ correlator.processes \subseteq C!Node
      /\ correlator.pidToKey \in [Pid -> Nat]
      /\ correlator.injection \in [Pid \X Pid -> Nat]
      /\ correlator.contacted \subseteq Pid /\ correlator.written \subseteq Pid
  BY DEF TypeOK, C!EngineType
<1>2. births \in 1..MaxBirths /\ births \in Nat
  BY ProcessesAssumption DEF TypeOK, WorldTypeOK
<1> QED BY <1>1, <1>2 DEF TypeOK, WorldTypeOK

\* A start takes a free ID and disturbs no other.
LEMMA Started ==
  ASSUME TypeOK, NEW creator \in Living \cup {Outside}, NEW parent \in Living \cup {Outside},
         NEW p \in Pid, Spawn(creator, parent, p)
  PROVE  /\ WorldTypeOK' /\ births < MaxBirths
         /\ proc'[p].birth = births + 1 /\ proc'[p].ppid = parent
         /\ proc'[p].tree <=> creator \in Pid /\ proc[creator].tree
         /\ \A q \in Pid : q # p => proc'[q] = proc[q]
         /\ p \notin Living /\ Living' = Living \cup {p}
<1> DEFINE new == [birth |-> births + 1, ppid |-> parent, file |-> FALSE, conn |-> FALSE,
                   tree |-> creator \in Pid /\ proc[creator].tree]
<1>1. proc \in [Pid -> Process] /\ births \in 1..MaxBirths /\ births \in Nat /\ used \subseteq Pid
  BY Typed
<1>2. /\ births < MaxBirths /\ p \notin Living /\ births' = births + 1
      /\ used' = used \cup {p} /\ proc' = [proc EXCEPT ![p] = new]
  BY DEF Spawn
<1>3. /\ new \in Process /\ new.birth = births + 1 /\ new.ppid = parent
      /\ new.tree <=> creator \in Pid /\ proc[creator].tree
  <2>1. parent \in Pid \cup {Outside} /\ births + 1 \in 0..MaxBirths
    BY <1>1, <1>2, ProcessesAssumption DEF Living
  <2>2. (creator \in Pid /\ proc[creator].tree) \in BOOLEAN
    OBVIOUS
  <2> QED BY <2>1, <2>2 DEF Process
<1> HIDE DEF new
<1>4. proc'[p] = new /\ (\A q \in Pid : q # p => proc'[q] = proc[q]) /\ proc' \in [Pid -> Process]
  BY <1>1, <1>2, <1>3
<1>5. Living' = Living \cup {p}
  BY <1>1, <1>3, <1>4 DEF Living
<1>6. WorldTypeOK'
  BY <1>1, <1>2, <1>4, ProcessesAssumption DEF WorldTypeOK
<1> QED BY <1>2, <1>3, <1>4, <1>5, <1>6

\* An end frees the ID; the others may get another parent.
LEMMA Ended ==
  ASSUME TypeOK, NEW p \in Pid, Exit(p)
  PROVE  /\ WorldTypeOK' /\ Living' = Living \ {p}
         /\ \A q \in Living' : proc'[q].tree = proc[q].tree /\ proc'[q].birth = proc[q].birth
<1> DEFINE orphan(q) == [proc[q] EXCEPT !.ppid = IF Namespaces /\ proc[q].tree
                                                  THEN Sample ELSE Outside]
<1>1. proc \in [Pid -> Process] /\ births \in 1..MaxBirths /\ used \subseteq Pid
  BY Typed
<1>2. p \in Living /\ births' = births /\ used' = used
  BY DEF Exit
<1>3. proc' = [q \in Pid |-> IF q = p THEN Free
                             ELSE IF q \in Living /\ proc[q].ppid = p THEN orphan(q) ELSE proc[q]]
  BY EtwMonitorAssumption DEF Exit
<1>4. \A q \in Pid : /\ orphan(q) \in Process
                     /\ orphan(q).tree = proc[q].tree /\ orphan(q).birth = proc[q].birth
  BY <1>1, ProcessesAssumption DEF Process
<1>5. Free \in Process /\ Free.birth = 0
  BY ProcessesAssumption DEF Free, Process
<1> HIDE DEF orphan
<1>6. proc' \in [Pid -> Process]
  BY <1>1, <1>3, <1>4, <1>5
<1>7. /\ proc'[p] = Free
      /\ \A q \in Pid : q # p => proc'[q].tree = proc[q].tree /\ proc'[q].birth = proc[q].birth
  BY <1>3, <1>4
<1>8. Living' = Living \ {p}
  BY <1>5, <1>7 DEF Living
<1> QED BY <1>1, <1>2, <1>6, <1>7, <1>8 DEF WorldTypeOK, Living

-----------------------------------------------------------------------------
(* The engine.                                                              *)
\* A creation enters a node and the ID's key, and the one alert is that of an
\* escalation over the parent's node.
LEMMA CreateEffect ==
  ASSUME TypeOK, NEW p \in Pid, NEW parent, NEW integrity \in {"low", "high"},
         Handled(CreateEvent(p, parent, integrity))
  PROVE  /\ correlator' \in C!EngineType /\ created' = p
         /\ correlator'.contacted = correlator.contacted
         /\ correlator'.written = correlator.written
         /\ \A q \in Pid : correlator'.pidToKey[q] =
                               IF q = p THEN births + 1 ELSE correlator.pidToKey[q]
         /\ \E n \in correlator'.processes :
                n.pid = p /\ n.spawn = births + 1 /\ n.integrity = integrity
         /\ \A n \in correlator.processes : n.pid # p => n \in correlator'.processes
         /\ \A a \in raised' : a.kind = "escalation"
         /\ \A n \in correlator'.processes :
                (/\ n.pid = parent /\ n.spawn = correlator'.pidToKey[n.pid]
                 /\ n.integrity = "low" /\ integrity = "high") =>
                    \E a \in raised' : a.kind = "escalation" /\ a.pid = p
<1> DEFINE ev == CreateEvent(p, parent, integrity)
           node == [pid |-> p, spawn |-> births + 1, integrity |-> integrity, user |-> ""]
           kept == {n \in correlator.processes : n.pid # p \/ n.spawn # births + 1}
<1>1. correlator' = C!ProcessEvent(correlator, ev) /\ raised' = C!Alerts(correlator, ev)
  BY DEF Handled
<1>2. /\ ev.type = "create" /\ ev.pid = p /\ ev.time = births + 1 /\ ev.ppid = parent
      /\ ev.integrity = integrity /\ ev.user = "" /\ ev.traits = {}
  BY DEF CreateEvent
<1>3. C!NodeOf(ev) = node
  BY <1>2 DEF C!NodeOf
<1> HIDE DEF ev
<1>4. correlator' = C!AfterCreate(correlator, ev)
  BY <1>1, <1>2 DEF C!ProcessEvent
<1>5. correlator' = [correlator EXCEPT !.processes = kept \cup {node}, !.pidToKey[p] = births + 1]
  <2> DEFINE old == {n \in correlator.processes : n.pid # ev.pid \/ n.spawn # ev.time}
  <2>1. correlator' = [correlator EXCEPT !.processes = old \cup {C!NodeOf(ev)},
                                         !.pidToKey[ev.pid] = ev.time]
    BY <1>4 DEF C!AfterCreate
  <2>2. old = kept
    BY <1>2
  <2> HIDE DEF old, kept, node
  <2> QED BY <1>2, <1>3, <2>1, <2>2
<1>6. births + 1 \in Nat /\ correlator \in C!EngineType
  BY Typed DEF TypeOK
<1>7. node \in C!Node /\ node.pid = p /\ node.spawn = births + 1 /\ node.integrity = integrity
  BY <1>6 DEF C!Node, C!Integrity, C!User
<1> HIDE DEF node
<1>8. correlator' \in C!EngineType
  BY <1>5, <1>6, <1>7 DEF C!EngineType
<1>9. /\ correlator'.contacted = correlator.contacted
      /\ correlator'.written = correlator.written
      /\ correlator'.processes = kept \cup {node}
      /\ correlator'.pidToKey = [correlator.pidToKey EXCEPT ![p] = births + 1]
  BY <1>5, <1>6 DEF C!EngineType
<1>10. \A q \in Pid : correlator'.pidToKey[q] =
                          IF q = p THEN births + 1 ELSE correlator.pidToKey[q]
  BY <1>9, Typed
<1>11. created' = p
  BY <1>2 DEF Handled, ev
<1>12. raised' = C!CheckPrivilegeEscalation(correlator, ev)
  BY <1>1, <1>2 DEF C!Alerts, C!CheckLolbinRename, C!CheckPersistenceToolSpawn
<1>13. \A a \in raised' : a.kind = "escalation"
  <2> SUFFICES ASSUME NEW a \in raised'  PROVE a.kind = "escalation"
    OBVIOUS
  <2>1. a = C!Alert(ev, "escalation")
    BY <1>12, Zenon DEF C!CheckPrivilegeEscalation
  <2> QED BY <2>1 DEF C!Alert
<1>14. ASSUME NEW n \in correlator'.processes,
              n.pid = parent, n.spawn = correlator'.pidToKey[n.pid],
              n.integrity = "low", integrity = "high"
       PROVE  \E a \in raised' : a.kind = "escalation" /\ a.pid = p
  <2>1. n.pid = ev.ppid /\ ev.integrity = "high" /\ "consent" \notin ev.traits
    BY <1>2, <1>14
  <2>2. C!Alert(ev, "escalation") \in raised'
    BY <1>4, <1>12, <1>14, <2>1, Zenon DEF C!CheckPrivilegeEscalation
  <2>3. /\ C!Alert(ev, "escalation").kind = "escalation"
        /\ C!Alert(ev, "escalation").pid = p
    BY <1>2 DEF C!Alert
  <2> QED BY <2>2, <2>3
<1>15. \E n \in correlator'.processes :
           n.pid = p /\ n.spawn = births + 1 /\ n.integrity = integrity
  BY <1>7, <1>9
<1>16. \A n \in correlator.processes : n.pid # p => n \in correlator'.processes
  BY <1>9
<1> QED BY <1>8, <1>9, <1>10, <1>11, <1>13, <1>14, <1>15, <1>16

\* An exit takes what is kept under the ID, and raises nothing.
LEMMA ExitEffect ==
  ASSUME TypeOK, NEW p \in Pid, Handled([type |-> "exit", pid |-> p, time |-> births])
  PROVE  /\ correlator' \in C!EngineType /\ created' = NoPid /\ raised' = {}
         /\ correlator'.contacted = correlator.contacted \ {p}
         /\ correlator'.written = correlator.written \ {p}
         /\ \A q \in Pid : q # p => correlator'.pidToKey[q] = correlator.pidToKey[q]
         /\ \A n \in correlator.processes : n.pid # p => n \in correlator'.processes
<1> DEFINE ev == [type |-> "exit", pid |-> p, time |-> births]
           inj == [pair \in Pid \X Pid |->
                      IF pair[1] = p THEN C!Never ELSE correlator.injection[pair]]
           kept == {n \in correlator.processes : n.pid # p \/ n.spawn # correlator.pidToKey[p]}
<1>1. correlator' = C!AfterExit(correlator, ev) /\ raised' = {} /\ created' = NoPid
  BY DEF Handled, C!ProcessEvent, C!Alerts
<1>2. correlator \in C!EngineType
  BY DEF TypeOK
<1>3. correlator' = [correlator EXCEPT !.processes = kept,
                                       !.pidToKey[p] = C!Never,
                                       !.injection = inj,
                                       !.contacted = @ \ {p},
                                       !.written = @ \ {p}]
  BY <1>1, <1>2 DEF C!AfterExit, C!EngineType
<1>4. inj \in [Pid \X Pid -> Nat]
  BY Typed DEF C!Never
<1>5. kept \subseteq C!Node
  BY Typed
<1>6. \A n \in correlator.processes : n.pid # p => n \in kept
  OBVIOUS
<1> HIDE DEF inj, kept
<1>7. correlator' \in C!EngineType
  BY <1>2, <1>3, <1>4, <1>5 DEF C!EngineType, C!Never
<1>8. /\ correlator'.contacted = correlator.contacted \ {p}
      /\ correlator'.written = correlator.written \ {p}
      /\ correlator'.processes = kept
      /\ correlator'.pidToKey = [correlator.pidToKey EXCEPT ![p] = C!Never]
  BY <1>2, <1>3 DEF C!EngineType
<1> QED BY <1>1, <1>6, <1>7, <1>8, Typed

\* What an event that is neither does: it leaves the graph, and keeps a contact
\* or a lasting write only as one of p's deeds, which its alerts go by.
Lawful(p, deed) ==
    /\ correlator' \in C!EngineType /\ created' = NoPid
    /\ correlator'.processes = correlator.processes
    /\ correlator'.pidToKey = correlator.pidToKey
    /\ \A q \in correlator'.contacted : q \in correlator.contacted \/ (q = p /\ "connected" \in deed)
    /\ \A q \in correlator'.written : q \in correlator.written \/ (q = p /\ "lasting" \in deed)
    /\ \A a \in raised' :
          /\ a.kind \in {"persistence", "aftermath"} =>
                 a.pid = p /\ (p \in correlator.contacted \/ "connected" \in deed)
          /\ a.kind = "aftermath" => p \in correlator.written
          /\ (a.kind \in {"subscription", "task", "service"} /\ a.severity = "critical") =>
                 a.pid = p /\ p \in correlator.contacted

\* An engine that is left alone, and alerts of other kinds.
LEMMA Idle ==
  ASSUME TypeOK, NEW p \in Pid, NEW deed, correlator' = correlator, created' = NoPid,
         \A a \in raised' :
             a.kind \notin {"persistence", "aftermath", "subscription", "task", "service"}
  PROVE  Lawful(p, deed)
BY DEF Lawful, TypeOK

LEMMA WriteEffect ==
  ASSUME TypeOK, NEW p \in Pid, NEW place \in C!Place, Handled(Write(p, place))
  PROVE  Lawful(p, IF place = "lasting" THEN {"lasting"} ELSE {})
<1> DEFINE ev == Write(p, place)
<1>1. ev.type = "write" /\ ev.pid = p /\ ev.place = place
  BY DEF Write
<1> HIDE DEF ev
<1>2. /\ correlator' = C!AfterWrite(correlator, ev) /\ created' = NoPid
      /\ raised' = C!CheckPersistenceToC2(correlator, ev)
  BY <1>1 DEF Handled, ev, C!ProcessEvent, C!Alerts
<1>3. correlator' = IF place = "lasting"
                    THEN [correlator EXCEPT !.written = @ \cup {p}] ELSE correlator
  BY <1>1, <1>2 DEF C!AfterWrite
<1>4. /\ correlator' \in C!EngineType
      /\ correlator'.processes = correlator.processes
      /\ correlator'.pidToKey = correlator.pidToKey
      /\ correlator'.contacted = correlator.contacted
      /\ correlator'.written = IF place = "lasting" THEN correlator.written \cup {p}
                                                     ELSE correlator.written
  BY <1>3 DEF TypeOK, C!EngineType
<1>5. \A a \in raised' : a.kind = "persistence" /\ a.pid = p /\ p \in correlator.contacted
  BY <1>1, <1>2 DEF C!CheckPersistenceToC2, C!Alert
<1> QED BY <1>2, <1>4, <1>5 DEF Lawful

LEMMA ConnectEffect ==
  ASSUME TypeOK, NEW p \in Pid,
         Handled([type |-> "connect", pid |-> p, time |-> births, dest |-> TRUE])
  PROVE  Lawful(p, {"connected"})
<1> DEFINE ev == [type |-> "connect", pid |-> p, time |-> births, dest |-> TRUE]
<1>1. ev.type = "connect" /\ ev.pid = p /\ ev.dest
  OBVIOUS
<1> HIDE DEF ev
<1>2. /\ correlator' = C!AfterConnect(correlator, ev) /\ created' = NoPid
      /\ raised' = C!CheckC2Aftermath(correlator, ev)
  BY <1>1 DEF Handled, ev, C!ProcessEvent, C!Alerts
<1>3. correlator' = [correlator EXCEPT !.contacted = @ \cup {p}]
  BY <1>1, <1>2 DEF C!AfterConnect
<1>4. /\ correlator' \in C!EngineType
      /\ correlator'.processes = correlator.processes
      /\ correlator'.pidToKey = correlator.pidToKey
      /\ correlator'.contacted = correlator.contacted \cup {p}
      /\ correlator'.written = correlator.written
  <2>1. correlator \in C!EngineType
    BY DEF TypeOK
  <2>2. correlator.contacted \cup {p} \in SUBSET Pid
    BY <2>1 DEF C!EngineType
  <2> DEFINE now == correlator.contacted \cup {p}
  <2>3. correlator' = [correlator EXCEPT !.contacted = now]
    BY <1>3
  <2> HIDE DEF now
  <2> QED BY <2>1, <2>2, <2>3 DEF C!EngineType, now
<1>5. \A a \in raised' : a.kind = "aftermath" /\ a.pid = p /\ p \in correlator.written
  BY <1>1, <1>2 DEF C!CheckC2Aftermath, C!Alert
<1> QED BY <1>2, <1>4, <1>5 DEF Lawful

Installs == {"subscription", "method", "task", "service", "none"}

\* An installation is critical beside a contact.
LEMMA InstallAlerts ==
  ASSUME NEW p \in Pid, NEW what \in Installs,
         NEW a \in C!Alerts(correlator, [type |-> "install", pid |-> p, time |-> births,
                                         install |-> what])
  PROVE  /\ a.kind \notin {"persistence", "aftermath"}
         /\ (a.kind \in {"subscription", "task", "service"} /\ a.severity = "critical") =>
                a.pid = p /\ p \in correlator.contacted
<1>1. a \in IF what = "none" THEN {}
            ELSE {[pid |-> p, kind |-> what,
                   severity |-> IF what # "method" /\ p \in correlator.contacted
                                THEN "critical" ELSE "high"]}
  BY DEF C!Alerts, C!CheckInstallation
<1> QED BY <1>1 DEF Installs

LEMMA InstallEffect ==
  ASSUME TypeOK, NEW p \in Pid, NEW what \in Installs,
         Handled([type |-> "install", pid |-> p, time |-> births, install |-> what])
  PROVE  Lawful(p, {})
<1> DEFINE ev == [type |-> "install", pid |-> p, time |-> births, install |-> what]
<1>1. correlator' = correlator /\ created' = NoPid /\ raised' = C!Alerts(correlator, ev)
  BY DEF Handled, C!ProcessEvent
<1>2. \A a \in raised' :
          /\ a.kind \notin {"persistence", "aftermath"}
          /\ (a.kind \in {"subscription", "task", "service"} /\ a.severity = "critical") =>
                 a.pid = p /\ p \in correlator.contacted
  BY <1>1, InstallAlerts
<1> QED BY <1>1, <1>2 DEF Lawful, TypeOK

\* A service's key is an installation and then a write elsewhere.
LEMMA ServiceEffect ==
  ASSUME TypeOK, NEW p \in Pid,
         HandledTwice([type |-> "install", pid |-> p, time |-> births, install |-> "service"],
                      Write(p, "other"))
  PROVE  Lawful(p, {})
<1> DEFINE first == [type |-> "install", pid |-> p, time |-> births, install |-> "service"]
           second == Write(p, "other")
<1>1. C!ProcessEvent(correlator, first) = correlator
  BY DEF C!ProcessEvent
<1>2. C!ProcessEvent(correlator, second) = correlator /\ C!Alerts(correlator, second) = {}
  BY DEF Write, C!ProcessEvent, C!AfterWrite, C!Alerts, C!CheckPersistenceToC2
<1>3. correlator' = correlator /\ created' = NoPid /\ raised' = C!Alerts(correlator, first)
  BY <1>1, <1>2, Zenon DEF HandledTwice
<1>4. \A a \in raised' :
          /\ a.kind \notin {"persistence", "aftermath"}
          /\ (a.kind \in {"subscription", "task", "service"} /\ a.severity = "critical") =>
                 a.pid = p /\ p \in correlator.contacted
  BY <1>3, InstallAlerts DEF Installs
<1> QED BY <1>3, <1>4 DEF Lawful, TypeOK

\* A thread is an API call twice, which touches the injection states only.
LEMMA CallOnEngine ==
  ASSUME NEW e \in C!EngineType, NEW p \in Pid, NEW owner \in Pid, NEW ev,
         ev.type = "call" \/ ev.type = "thread",
         ev.pid = p, ev.target = owner, ev.call = "execute",
         [ev EXCEPT !.call = "execute"] = ev
  PROVE  /\ C!ProcessEvent(e, ev) \in C!EngineType
         /\ C!ProcessEvent(e, ev).processes = e.processes
         /\ C!ProcessEvent(e, ev).pidToKey = e.pidToKey
         /\ C!ProcessEvent(e, ev).contacted = e.contacted
         /\ C!ProcessEvent(e, ev).written = e.written
         /\ \A a \in C!Alerts(e, ev) : a.kind \in {"unprepared", "confirmed", "late"}
<1> DEFINE f == C!ProcessEvent(e, ev)
<1>1. f = C!AfterCall(e, ev) /\ C!Alerts(e, ev) = C!CheckProcessInjectionWindowed(e, ev)
  BY DEF C!ProcessEvent, C!Alerts
<1>2. f = e \/ f = [e EXCEPT !.injection[<<p, owner>>] = C!Never]
  BY <1>1 DEF C!AfterCall
<1> HIDE DEF f
<1>3. C!Never \in Nat
  BY DEF C!Never
<1>4. /\ f \in C!EngineType /\ f.processes = e.processes /\ f.pidToKey = e.pidToKey
      /\ f.contacted = e.contacted /\ f.written = e.written
  BY <1>2, <1>3 DEF C!EngineType
<1>5. \A a \in C!Alerts(e, ev) : a.kind \in {"unprepared", "confirmed", "late"}
  BY <1>1 DEF C!CheckProcessInjectionWindowed
<1> QED BY <1>4, <1>5 DEF f

LEMMA ThreadEffect ==
  ASSUME TypeOK, NEW p \in Pid, NEW owner \in Pid,
         LET call == [type |-> "call", pid |-> p, time |-> births, target |-> owner,
                      call |-> "execute"]
         IN  HandledTwice(call, [call EXCEPT !.type = "thread"])
  PROVE  Lawful(p, {})
<1> DEFINE call == [type |-> "call", pid |-> p, time |-> births, target |-> owner,
                    call |-> "execute"]
           thread == [call EXCEPT !.type = "thread"]
           between == C!ProcessEvent(correlator, call)
           Calls == [type : {"call", "thread"}, pid : Pid, time : Nat, target : Pid,
                     call : {"execute"}]
<1>1. /\ call.type = "call" /\ call.pid = p /\ call.target = owner /\ call.call = "execute"
      /\ [call EXCEPT !.call = "execute"] = call
  OBVIOUS
<1>c. call \in Calls
  BY Typed
<1>3. /\ correlator' = C!ProcessEvent(between, thread) /\ created' = NoPid
      /\ raised' = C!Alerts(correlator, call) \cup C!Alerts(between, thread)
  BY DEF HandledTwice
<1> HIDE DEF call
<1>2. /\ thread.type = "thread" /\ thread.pid = p /\ thread.target = owner
      /\ thread.call = "execute" /\ [thread EXCEPT !.call = "execute"] = thread
  BY <1>1, <1>c
<1> HIDE DEF thread
<1>4. correlator \in C!EngineType
  BY DEF TypeOK
<1>5. /\ between \in C!EngineType
      /\ between.processes = correlator.processes /\ between.pidToKey = correlator.pidToKey
      /\ between.contacted = correlator.contacted /\ between.written = correlator.written
      /\ \A a \in C!Alerts(correlator, call) : a.kind \in {"unprepared", "confirmed", "late"}
  BY <1>1, <1>4, CallOnEngine
<1> HIDE DEF between
<1>6. /\ correlator' \in C!EngineType
      /\ correlator'.processes = between.processes /\ correlator'.pidToKey = between.pidToKey
      /\ correlator'.contacted = between.contacted /\ correlator'.written = between.written
      /\ \A a \in C!Alerts(between, thread) : a.kind \in {"unprepared", "confirmed", "late"}
  BY <1>2, <1>3, <1>5, CallOnEngine
<1> QED BY <1>3, <1>5, <1>6 DEF Lawful

-----------------------------------------------------------------------------
(* The invariant.                                                           *)
LEMMA Initially == Init => EtwInv /\ CleanSlate /\ EscalationReported
<1> SUFFICES ASSUME Init  PROVE EtwInv /\ CleanSlate /\ EscalationReported
  OBVIOUS
<1> USE ProcessesAssumption, EtwMonitorAssumption
<1> DEFINE first == [Free EXCEPT !.birth = 1, !.tree = TRUE]
<1>1. Free \in Process /\ Free.birth = 0
  BY DEF Free, Process
<1>2. first \in Process /\ first.birth = 1
  <2>1. 1 \in 0..MaxBirths
    OBVIOUS
  <2> QED BY <1>1, <2>1 DEF Process
<1> HIDE DEF first
<1>3. proc = [p \in Pid |-> IF p = Sample THEN first ELSE Free] /\ births = 1 /\ used = {Sample}
  BY DEF Init, WorldInit, first
<1>4. WorldTypeOK /\ Living = {Sample} /\ proc[Sample].birth = 1
  BY <1>1, <1>2, <1>3 DEF WorldTypeOK, Living
<1>5. C!NewEngine \in C!EngineType /\ C!NewEngine.contacted = {} /\ C!NewEngine.written = {}
  BY DEF C!NewEngine, C!EngineType, C!Never
<1>6. TypeOK
  BY <1>4, <1>5 DEF Init, TypeOK
<1>7. DescendantsTracked /\ Slate /\ Charted
  BY <1>4, <1>5 DEF Init, DescendantsTracked, Slate, Charted
<1>8. CleanSlate /\ EscalationReported
  BY DEF Init, CleanSlate, EscalationReported, Living
<1> QED BY <1>6, <1>7, <1>8 DEF EtwInv

\* Only a start has anything to report of an escalation.
LEMMA NothingCreated == TypeOK' /\ created' = NoPid => EscalationReported'
BY EtwMonitorAssumption DEF EscalationReported, Living

LEMMA StopKeeps ==
  ASSUME EtwInv, NEW p \in Pid, ProcessStop(p)
  PROVE  EtwInv' /\ CleanSlate' /\ EscalationReported'
<1>1. TypeOK
  BY DEF EtwInv
<1>2. /\ WorldTypeOK' /\ Living' = Living \ {p}
      /\ \A q \in Living' : proc'[q].tree = proc[q].tree /\ proc'[q].birth = proc[q].birth
  BY <1>1, Ended DEF ProcessStop
<1>3. /\ session' = session /\ monitored' = monitored /\ level' = level /\ spoofed' = spoofed
      /\ missed' = missed \ {p}
      /\ did' \in [Pid -> SUBSET {"lasting", "connected"}]
      /\ \A q \in Pid : q # p => did'[q] = did[q]
  BY <1>1, Typed DEF ProcessStop
<1>4. /\ correlator' \in C!EngineType /\ created' = NoPid /\ raised' = {}
      /\ \A q \in correlator'.contacted \cup correlator'.written :
             session # "pending" /\ (session = "enabled" => q # p)
      /\ correlator'.contacted \subseteq correlator.contacted
      /\ correlator'.written \subseteq correlator.written
      /\ \A q \in Pid : q # p => correlator'.pidToKey[q] = correlator.pidToKey[q]
      /\ \A n \in correlator.processes : n.pid # p => n \in correlator'.processes
  <2>1. CASE session = "enabled" /\ p \in monitored
    BY <1>1, <2>1, ExitEffect DEF ProcessStop
  <2>2. CASE ~(session = "enabled" /\ p \in monitored)
    BY <1>1, <2>2 DEF ProcessStop, Ignored, EtwInv, Slate, TypeOK
  <2> QED BY <2>1, <2>2
<1>5. TypeOK'
  BY <1>1, <1>2, <1>3, <1>4 DEF TypeOK
<1>6. DescendantsTracked'
  BY <1>2, <1>3 DEF EtwInv, DescendantsTracked
<1>7. Slate'
  BY <1>1, <1>2, <1>3, <1>4, Typed DEF EtwInv, Slate
<1>8. Charted'
  <2> SUFFICES ASSUME ~spoofed', NEW q \in Living' \ missed', proc'[q].tree /\ proc'[q].birth # 1
               PROVE  \E n \in correlator'.processes :
                          n.pid = q /\ n.spawn = correlator'.pidToKey[q] /\ n.integrity = level'[q]
    BY DEF Charted
  <2>1. /\ q \in Living \ missed /\ q \in Pid /\ q # p
        /\ proc[q].tree /\ proc[q].birth # 1
    BY <1>2, <1>3 DEF Living
  <2>2. PICK n \in correlator.processes :
            n.pid = q /\ n.spawn = correlator.pidToKey[q] /\ n.integrity = level[q]
    BY <1>3, <2>1 DEF EtwInv, Charted
  <2> QED BY <1>3, <1>4, <2>1, <2>2
<1>9. CleanSlate' /\ EscalationReported'
  BY <1>4, <1>5, NothingCreated DEF CleanSlate
<1> QED BY <1>5, <1>6, <1>7, <1>8, <1>9 DEF EtwInv

\* A start under the name of another parent may be taken for one of the creator,
\* which changes nothing that is left to show.
LEMMA StartKeeps ==
  ASSUME EtwInv, NEW creator \in Living \cup {Outside}, NEW parent \in Living \cup {Outside},
         NEW p \in Pid, ProcessStart(creator, parent, p)
  PROVE  EtwInv' /\ CleanSlate' /\ EscalationReported'
<1> USE ProcessesAssumption, EtwMonitorAssumption
<1>1. TypeOK
  BY DEF EtwInv
<1>2. PICK integrity \in {"low", "high"} :
          /\ Spawn(creator, parent, p)
          /\ spoofed' = (spoofed \/ parent # creator)
          /\ missed' = IF session # "enabled" \/ creator \in missed
                       THEN missed \cup {p} ELSE missed \ {p}
          /\ level' = [level EXCEPT ![p] = integrity]
          /\ IF session = "enabled"
             THEN /\ monitored' = Adopted(creator, parent, p)
                  /\ LET about == Subject(creator, parent, p)
                     IN  IF about = NoPid THEN Ignored
                                          ELSE Handled(CreateEvent(about, parent, integrity))
             ELSE Ignored /\ UNCHANGED monitored
          /\ did' = [did EXCEPT ![p] = {}]
          /\ UNCHANGED session
  BY DEF ProcessStart
<1> DEFINE about == Subject(creator, parent, p)
<1>3. /\ WorldTypeOK' /\ births \in Nat /\ births >= 1
      /\ proc'[p].ppid = parent /\ proc'[p].birth = births + 1
      /\ proc'[p].tree <=> creator \in Pid /\ proc[creator].tree
      /\ \A q \in Pid : q # p => proc'[q] = proc[q]
      /\ p \notin Living /\ Living' = Living \cup {p}
  <2>1. births \in 1..MaxBirths /\ births \in Nat
    BY <1>1, Typed
  <2> QED BY <1>1, <1>2, <2>1, Started
<1>4. /\ monitored \subseteq monitored' /\ monitored' \subseteq Pid
      /\ session = "enabled" /\ parent \in monitored => p \in monitored'
      /\ session' = session /\ missed' \subseteq Pid
      /\ \A q \in Living' \ missed' :
             IF q = p THEN session = "enabled" /\ creator \notin missed ELSE q \in Living \ missed
      /\ \A q \in Pid : level'[q] = IF q = p THEN integrity ELSE level[q]
      /\ \A q \in Pid : q # p => did'[q] = did[q]
      /\ level' \in [Pid -> {"low", "high"}]
      /\ did' \in [Pid -> SUBSET {"lasting", "connected"}]
      /\ spoofed' \in BOOLEAN
  BY <1>1, <1>2, <1>3, Typed DEF Adopted
<1>5. about \in Pid \cup {NoPid}
  BY <1>1, Typed DEF Subject
<1>6. CASE session # "enabled" \/ about = NoPid
  <2>1. correlator' = correlator /\ created' = NoPid /\ raised' = {}
    BY <1>2, <1>6 DEF Ignored
  <2>2. /\ ~spoofed' => ~spoofed
        /\ ~spoofed' /\ p \notin missed' => ~proc'[p].tree
    <3>1. ~spoofed' => ~spoofed /\ parent = creator
      BY <1>1, <1>2, Typed
    <3>2. ASSUME ~spoofed', p \notin missed', proc'[p].tree  PROVE FALSE
      <4>1. session = "enabled" /\ creator \notin missed /\ creator \in Pid /\ proc[creator].tree
        BY <1>2, <1>3, <3>2
      <4>2. creator \in Living \ missed /\ creator \in monitored
        BY <3>1, <3>2, <4>1 DEF EtwInv, DescendantsTracked
      <4>3. about = p
        BY <3>1, <3>2, <4>2 DEF Subject
      <4> QED BY <1>6, <4>1, <4>3
    <3> QED BY <3>1, <3>2
  <2>3. TypeOK'
    BY <1>1, <1>3, <1>4, <2>1 DEF TypeOK
  <2>4. DescendantsTracked'
    <3> SUFFICES ASSUME ~spoofed', NEW q \in Living' \ missed', proc'[q].tree  PROVE q \in monitored'
      BY DEF DescendantsTracked
    <3>1. q # p /\ q \in Living \ missed /\ proc[q].tree /\ ~spoofed
      BY <1>3, <1>4, <2>2 DEF Living
    <3> QED BY <1>4, <3>1 DEF EtwInv, DescendantsTracked
  <2>5. Slate'
    BY <1>1, <1>3, <1>4, <2>1, Typed DEF EtwInv, Slate
  <2>6. Charted'
    <3> SUFFICES ASSUME ~spoofed', NEW q \in Living' \ missed', proc'[q].tree, proc'[q].birth # 1
                 PROVE  \E n \in correlator'.processes :
                            n.pid = q /\ n.spawn = correlator'.pidToKey[q] /\ n.integrity = level'[q]
      BY DEF Charted
    <3>1. /\ q # p /\ q \in Pid /\ q \in Living \ missed /\ ~spoofed
          /\ proc[q].tree /\ proc[q].birth # 1
      BY <1>3, <1>4, <2>2 DEF Living
    <3> QED BY <1>4, <2>1, <3>1 DEF EtwInv, Charted
  <2>7. CleanSlate' /\ EscalationReported'
    BY <2>1, <2>3, NothingCreated DEF CleanSlate
  <2> QED BY <2>3, <2>4, <2>5, <2>6, <2>7 DEF EtwInv
<1>7. CASE session = "enabled" /\ about \in Pid
  <2>1. Handled(CreateEvent(about, parent, integrity))
    BY <1>2, <1>7
  <2> HIDE DEF about
  <2>2. /\ correlator' \in C!EngineType /\ created' = about
        /\ correlator'.contacted = correlator.contacted
        /\ correlator'.written = correlator.written
        /\ \A q \in Pid : correlator'.pidToKey[q] =
                              IF q = about THEN births + 1 ELSE correlator.pidToKey[q]
        /\ \E n \in correlator'.processes :
               n.pid = about /\ n.spawn = births + 1 /\ n.integrity = integrity
        /\ \A n \in correlator.processes : n.pid # about => n \in correlator'.processes
        /\ \A a \in raised' : a.kind = "escalation"
        /\ \A n \in correlator'.processes :
               (/\ n.pid = parent /\ n.spawn = correlator'.pidToKey[n.pid]
                /\ n.integrity = "low" /\ integrity = "high") =>
                   \E a \in raised' : a.kind = "escalation" /\ a.pid = about
    BY <1>1, <1>7, <2>1, CreateEffect
  <2>3. ~spoofed' => ~spoofed /\ parent = creator /\ about = p /\ p \in monitored'
    <3>1. spoofed \in BOOLEAN
      BY <1>1, Typed
    <3>2. ~spoofed' => ~spoofed /\ parent = creator
      BY <1>2, <3>1
    <3> QED BY <1>4, <1>7, <3>2 DEF about, Subject
  <2>4. TypeOK'
    BY <1>1, <1>3, <1>4, <1>7, <2>2 DEF TypeOK
  <2>5. DescendantsTracked'
    <3> SUFFICES ASSUME ~spoofed', NEW q \in Living' \ missed', proc'[q].tree  PROVE q \in monitored'
      BY DEF DescendantsTracked
    <3>1. CASE q = p
      BY <2>3, <3>1
    <3>2. CASE q # p
      <4>1. q \in Living \ missed /\ proc[q].tree /\ ~spoofed
        BY <1>3, <1>4, <2>3, <3>2 DEF Living
      <4> QED BY <1>4, <4>1 DEF EtwInv, DescendantsTracked
    <3> QED BY <3>1, <3>2
  <2>6. Slate'
    BY <1>1, <1>3, <1>4, <2>2, Typed DEF EtwInv, Slate
  <2>7. Charted'
    <3> SUFFICES ASSUME ~spoofed', NEW q \in Living' \ missed', proc'[q].tree, proc'[q].birth # 1
                 PROVE  \E n \in correlator'.processes :
                            n.pid = q /\ n.spawn = correlator'.pidToKey[q] /\ n.integrity = level'[q]
      BY DEF Charted
    <3>1. about = p /\ ~spoofed /\ q \in Pid
      BY <2>3 DEF Living
    <3>2. CASE q = p
      BY <1>4, <2>2, <3>1, <3>2
    <3>3. CASE q # p
      <4>1. q \in Living \ missed /\ proc[q].tree /\ proc[q].birth # 1
        BY <1>3, <1>4, <3>1, <3>3
      <4>2. PICK n \in correlator.processes :
                n.pid = q /\ n.spawn = correlator.pidToKey[q] /\ n.integrity = level[q]
        BY <3>1, <4>1 DEF EtwInv, Charted
      <4> QED BY <1>4, <2>2, <3>1, <3>3, <4>2
    <3> QED BY <3>2, <3>3
  <2>8. CleanSlate'
    BY <2>2 DEF CleanSlate
  <2>9. EscalationReported'
    <3> SUFFICES ASSUME NEW q \in Living', ~spoofed', created' = q, proc'[q].tree,
                        proc'[q].ppid \in Pid \ missed', proc'[proc'[q].ppid].birth # 1,
                        level'[proc'[q].ppid] = "low", level'[q] = "high"
                 PROVE  \E a \in raised' : a.kind = "escalation" /\ a.pid = q
      BY DEF EscalationReported
    <3>1. q = p /\ about = p /\ ~spoofed /\ parent = creator
      BY <2>2, <2>3
    <3>2. /\ parent \in Pid /\ parent \in Living \ missed /\ parent # p
          /\ proc[parent].tree
      BY <1>3, <1>4, <3>1
    <3>3. proc[parent].birth # 1 /\ level[parent] = "low" /\ integrity = "high"
      BY <1>3, <1>4, <3>1, <3>2
    <3>4. PICK n \in correlator.processes :
              n.pid = parent /\ n.spawn = correlator.pidToKey[parent] /\ n.integrity = level[parent]
      BY <3>1, <3>2, <3>3 DEF EtwInv, Charted
    <3>5. n \in correlator'.processes /\ n.spawn = correlator'.pidToKey[n.pid]
      BY <2>2, <3>1, <3>2, <3>4
    <3> QED BY <2>2, <3>1, <3>3, <3>4, <3>5
  <2> QED BY <2>4, <2>5, <2>6, <2>7, <2>8, <2>9 DEF EtwInv
<1> QED BY <1>5, <1>6, <1>7

\* What a tracked process does is one of its deeds; an untracked one is not heard.
LEMMA DeedKeeps ==
  ASSUME EtwInv, NEW p \in Living, NEW deed \in SUBSET {"lasting", "connected"},
         UNCHANGED <<worldVars, session, monitored, level, spoofed, missed>>, session # "pending",
         \/ p \in monitored /\ Lawful(p, deed) /\ did' = [did EXCEPT ![p] = @ \cup deed]
         \/ Ignored /\ UNCHANGED did
  PROVE  EtwInv' /\ CleanSlate' /\ EscalationReported'
<1>1. TypeOK /\ p \in Pid
  BY DEF EtwInv, Living
<1>2. /\ proc' = proc /\ births' = births /\ used' = used /\ Living' = Living
      /\ monitored' = monitored /\ level' = level /\ spoofed' = spoofed
      /\ session' = session /\ missed' = missed
  BY DEF worldVars, Living
<1>3. /\ created' = NoPid /\ correlator' \in C!EngineType
      /\ correlator'.processes = correlator.processes
      /\ correlator'.pidToKey = correlator.pidToKey
  BY <1>1 DEF Lawful, Ignored, TypeOK
<1>4. /\ did' \in [Pid -> SUBSET {"lasting", "connected"}]
      /\ \A q \in Pid : did[q] \subseteq did'[q]
  <2>1. did \in [Pid -> SUBSET {"lasting", "connected"}]
    BY <1>1 DEF TypeOK
  <2>2. CASE did' = [did EXCEPT ![p] = @ \cup deed]
    BY <1>1, <2>1, <2>2
  <2>3. CASE UNCHANGED did
    BY <2>1, <2>3
  <2> QED BY <2>2, <2>3
<1>5. TypeOK'
  <2>1. WorldTypeOK'
    BY <1>1, <1>2 DEF TypeOK, WorldTypeOK
  <2>2. /\ session' \in {"pending", "enabled", "unavailable"} /\ missed' \subseteq Pid
        /\ monitored' \subseteq Pid /\ level' \in [Pid -> {"low", "high"}] /\ spoofed' \in BOOLEAN
    BY <1>1, <1>2 DEF TypeOK
  <2> QED BY <1>3, <1>4, <2>1, <2>2 DEF TypeOK
<1>6. DescendantsTracked' /\ Charted'
  BY <1>2, <1>3 DEF EtwInv, DescendantsTracked, Charted
<1>7. EscalationReported'
  BY <1>3, <1>5, NothingCreated
<1>8. CASE p \in monitored /\ Lawful(p, deed) /\ did' = [did EXCEPT ![p] = @ \cup deed]
  <2>1. did'[p] = did[p] \cup deed
    BY <1>1, <1>8, Typed
  <2>2. Slate'
    BY <1>1, <1>2, <1>4, <1>8, <2>1, Typed DEF EtwInv, Slate, Lawful
  <2>3. CleanSlate'
    <3>1. session = "enabled" =>
              /\ p \in correlator.contacted => "connected" \in did[p]
              /\ p \in correlator.written => "lasting" \in did[p]
      BY DEF EtwInv, Slate
    <3> QED BY <1>2, <1>8, <2>1, <3>1 DEF CleanSlate, Lawful
  <2> QED BY <1>5, <1>6, <1>7, <2>2, <2>3 DEF EtwInv
<1>9. CASE Ignored /\ UNCHANGED did
  <2>1. Slate'
    BY <1>2, <1>9 DEF EtwInv, Slate, Ignored
  <2>2. CleanSlate'
    BY <1>9 DEF Ignored, CleanSlate
  <2> QED BY <1>5, <1>6, <1>7, <2>1, <2>2 DEF EtwInv
<1> QED BY <1>8, <1>9

\* Every event is lawful in its deed.
LEMMA EventKeeps ==
  ASSUME EtwInv, NEW p \in Living, HandleETWEvent(p)
  PROVE  EtwInv' /\ CleanSlate' /\ EscalationReported'
<1>1. TypeOK /\ p \in Pid
  BY DEF EtwInv, Living
<1> DEFINE Done(deed) == /\ UNCHANGED <<worldVars, session, monitored, level, spoofed, missed>>
                         /\ session # "pending"
                         /\ \/ /\ p \in monitored /\ Lawful(p, deed)
                               /\ did' = [did EXCEPT ![p] = @ \cup deed]
                            \/ Ignored /\ UNCHANGED did
<1>2. \E deed \in SUBSET {"lasting", "connected"} : Done(deed)
  <2>w. ASSUME NEW place \in C!Place, NEW provider \in {"Kernel-File", "Kernel-Registry"},
               Filtered(provider, p, IF place = "lasting" THEN {"lasting"} ELSE {},
                        Handled(Write(p, place)))
        PROVE  \E deed \in SUBSET {"lasting", "connected"} : Done(deed)
    <3> DEFINE d == IF place = "lasting" THEN {"lasting"} ELSE {}
    <3>1. d \in SUBSET {"lasting", "connected"}
      OBVIOUS
    <3>2. Handled(Write(p, place)) => Lawful(p, d)
      BY <1>1, WriteEffect
    <3>3. Filtered(provider, p, d, Handled(Write(p, place)))
      BY <2>w
    <3> HIDE DEF d
    <3>4. Done(d)
      BY <3>2, <3>3 DEF Filtered
    <3> QED BY <3>1, <3>4
  <2>d. ASSUME NEW provider \in {"Kernel-File", "Kernel-Registry"},
               Filtered(provider, p, {}, Handled(Deletion(p)))
        PROVE  Done({})
    <3>1. Handled(Deletion(p)) => Lawful(p, {})
      <4>1. Handled(Deletion(p)) => correlator' = correlator /\ created' = NoPid /\ raised' = {}
        BY DEF Handled, Deletion, C!ProcessEvent, C!Alerts
      <4> QED BY <1>1, <4>1, Idle
    <3> QED BY <2>d, <3>1 DEF Filtered
  <2>1. CASE KernelFile(p)
    BY <2>1, <2>w, <2>d DEF KernelFile
  <2>2. CASE KernelRegistry(p)
    <3>1. ASSUME Filtered("Kernel-Registry", p, {},
                          HandledTwice([type |-> "install", pid |-> p, time |-> births,
                                        install |-> "service"], Write(p, "other")))
          PROVE  Done({})
      BY <1>1, <3>1, ServiceEffect DEF Filtered
    <3> QED BY <2>2, <2>w, <2>d, <3>1 DEF KernelRegistry
  <2>3. CASE KernelNetwork(p)
    <3>1. Done({"connected"})
      BY <1>1, <2>3, ConnectEffect DEF KernelNetwork, Filtered
    <3> QED BY <3>1
  <2>4. CASE KernelThread(p)
    <3>1. Done({})
      BY <1>1, <2>4, ThreadEffect DEF KernelThread, Filtered
    <3> QED BY <3>1
  <2>5. CASE KernelImage(p)
    <3>1. ASSUME NEW reflective \in BOOLEAN,
                 Handled([type |-> "image", pid |-> p, time |-> births,
                          reflective |-> reflective])
          PROVE  Lawful(p, {})
      <4>1. /\ correlator' = correlator /\ created' = NoPid
            /\ \A a \in raised' : a.kind = "reflective"
        BY <3>1 DEF Handled, C!ProcessEvent, C!Alerts, C!Alert
      <4> QED BY <1>1, <4>1, Idle
    <3>2. Done({})
      BY <2>5, <3>1 DEF KernelImage, Filtered
    <3> QED BY <3>2
  <2>6. CASE KernelHandle(p)
    <3>1. ASSUME NEW process \in BOOLEAN, NEW lsass \in BOOLEAN,
                 Handled([type |-> IF process THEN "access" ELSE "handle", pid |-> p,
                          time |-> births, lsass |-> lsass])
          PROVE  Lawful(p, {})
      <4>1. /\ correlator' = correlator /\ created' = NoPid
            /\ \A a \in raised' : a.kind = "lsass"
        BY <3>1 DEF Handled, C!ProcessEvent, C!Alerts, C!Alert
      <4> QED BY <1>1, <4>1, Idle
    <3>2. Done({})
      BY <2>6, <3>1 DEF KernelHandle, Filtered
    <3> QED BY <3>2
  <2>7. CASE WMIActivity(p) \/ TaskScheduler(p)
    <3>1. Done({})
      BY <1>1, <2>7, InstallEffect DEF WMIActivity, TaskScheduler, Filtered, Installs
    <3> QED BY <3>1
  <2> QED BY <2>1, <2>2, <2>3, <2>4, <2>5, <2>6, <2>7 DEF HandleETWEvent
<1> QED BY <1>2, DeedKeeps

\* Enabling the first provider finds an empty engine.
LEMMA EnableKeeps == EtwInv /\ EnableProvider => EtwInv' /\ CleanSlate' /\ EscalationReported'
<1> SUFFICES ASSUME EtwInv, EnableProvider
             PROVE  EtwInv' /\ CleanSlate' /\ EscalationReported'
  OBVIOUS
<1>1. /\ proc' = proc /\ births' = births /\ used' = used /\ Living' = Living
      /\ monitored' = monitored /\ level' = level /\ spoofed' = spoofed /\ missed' = missed
      /\ did' = did /\ correlator' = correlator /\ created' = NoPid /\ raised' = {}
      /\ session = "pending" /\ session' \in {"enabled", "unavailable"}
  BY DEF EnableProvider, Ignored, worldVars, Living
<1>2. TypeOK'
  BY <1>1 DEF EtwInv, TypeOK, WorldTypeOK
<1>3. DescendantsTracked' /\ Slate' /\ Charted'
  BY <1>1 DEF EtwInv, DescendantsTracked, Slate, Charted
<1>4. CleanSlate' /\ EscalationReported'
  BY <1>1, <1>2, NothingCreated DEF CleanSlate
<1> QED BY <1>2, <1>3, <1>4 DEF EtwInv

LEMMA StepKeeps == EtwInv /\ Next => EtwInv' /\ CleanSlate' /\ EscalationReported'
BY EnableKeeps, StartKeeps, StopKeeps, EventKeeps DEF Next

LEMMA Always == Spec => [](EtwInv /\ CleanSlate /\ EscalationReported)
<1> DEFINE All == EtwInv /\ CleanSlate /\ EscalationReported
<1>1. ASSUME All, UNCHANGED vars  PROVE All'
  BY <1>1 DEF vars, worldVars, EtwInv, TypeOK, WorldTypeOK, DescendantsTracked, Slate, Charted,
              CleanSlate, EscalationReported, Living
<1>2. All /\ [Next]_vars => All'
  BY <1>1, StepKeeps
<1>3. Init => All
  BY Initially
<1> QED BY <1>2, <1>3, PTL DEF Spec

-----------------------------------------------------------------------------
(* The results.                                                             *)
\* Types, of the handler's map and the engine's.
THEOREM TypeCorrect == Spec => []TypeOK
BY Always, PTL DEF EtwInv

\* Unless a parent was spoofed, the engine's graph has the node of every living
\* process of the sample's tree that was, with its ancestors up to the sample,
\* started under observation, with its own integrity, whatever other processes had
\* its ID before: a start replaces the node and an exit drops the key
\* (correlation.go:121-136, monitor_windows.go:197-213).
THEOREM TreeIsCharted == Spec => []Charted
BY Always, PTL DEF EtwInv

\* What the tree starts under observation is tracked to any depth and whatever ends,
\* apart from the children of what was started before the session was live: the
\* handler adopts by the parent's ID, which is the creator's if nobody is spoofed,
\* and forgets no ID (monitor_windows.go:197-216).
THEOREM TreeIsTracked == Spec => []DescendantsTracked
BY Always, PTL DEF EtwInv

\* With ends heard, an alert leans on deeds of the process that has the ID now: what
\* the engine keeps under an ID goes with every exit, as whatever is kept was tracked
\* (monitor_windows.go:316-328, correlation.go:133).
THEOREM SlateIsClean == Spec => []CleanSlate
BY Always, PTL

\* An escalation over a parent that was started under observation is reported: the
\* parent's node is there and is its latest (correlation.go:415-436).
THEOREM EscalationIsReported == Spec => []EscalationReported
BY Always, PTL
=============================================================================
