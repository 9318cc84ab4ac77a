--------------------------- MODULE BehaviourProofs ---------------------------
(***************************************************************************)
(* Theorems about Behaviour, for any set of process IDs, any windows, any  *)
(* bound on the clock and any choice of event types.                       *)
(***************************************************************************)
EXTENDS Behaviour, TLAPS

\* An ID without a process has an empty history.
DeadIsEmpty == \A p \in Pid : ~own[p].alive => own[p] = Dead

\* What the engine keeps of connections and writes is the history of the process
\* that has the ID.
Contacts == \A p \in Pid : p \in engine.contacted <=> own[p].contacted
Writes   == \A p \in Pid : p \in engine.written <=> own[p].lasting

\* Preparations have been made, and on others.
Preparations == \A p \in Pid : \A prep \in own[p].preparations : prep[1] # p /\ prep[2] <= now

\* An injection state stands for a preparation of the living process, and where
\* there is a preparation and no state, some preparation is too old.
Backed ==
    \A p, t \in Pid :
        engine.injection[<<p, t>>] # Never =>
            <<t, engine.injection[<<p, t>>]>> \in own[p].preparations
Remembered ==
    \A p, t \in Pid :
        (engine.injection[<<p, t>>] = Never /\ \E prep \in own[p].preparations : prep[1] = t) =>
            \E prep \in own[p].preparations : prep[1] = t /\ now - prep[2] > MaxWindow

Inv ==
    /\ TypeOK /\ now # Never
    /\ DeadIsEmpty /\ Contacts /\ Writes
    /\ Preparations /\ Backed /\ Remembered
    /\ GraphIsTheLiving /\ EvidenceIsOwn /\ EitherOrderIsReported

History == [alive : BOOLEAN, contacted : BOOLEAN, lasting : BOOLEAN,
            alerted : BOOLEAN, preparations : SUBSET (Pid \X Nat)]

LEMMA EmptyHistories == Dead \in History /\ Fresh \in History
BY DEF Dead, Fresh, History

-----------------------------------------------------------------------------
(* What each action does to the engine, the alerts and the histories.      *)

\* A creation enters a node, and raises alerts of escalation only.
LEMMA CreateEffect ==
    ASSUME TypeOK, NEW p \in Pid, Created(p)
    PROVE  /\ p \notin Alive
           /\ engine' \in EngineType
           /\ engine'.contacted = engine.contacted /\ engine'.written = engine.written
           /\ engine'.injection = engine.injection
           /\ engine'.pidToKey = [engine.pidToKey EXCEPT ![p] = now]
           /\ \E n \in Node :
                 /\ n.pid = p /\ n.spawn = now
                 /\ engine'.processes =
                       {m \in engine.processes : m.pid # p \/ m.spawn # now} \cup {n}
           /\ \A a \in raised' : a.kind = "escalation"
           /\ now' = now /\ own' = [own EXCEPT ![p] = Fresh]
<1>1. PICK parent \in Alive \cup {NoPid}, level \in {"low", "high"} :
          /\ p \notin Alive
          /\ Report([type |-> "create", pid |-> p, time |-> now, ppid |-> parent,
                     integrity |-> level, user |-> "", traits |-> {}])
          /\ own' = [own EXCEPT ![p] = Fresh]
  BY DEF Created
<1> DEFINE ev == [type |-> "create", pid |-> p, time |-> now, ppid |-> parent,
                  integrity |-> level, user |-> "", traits |-> {}]
<1>2. engine' = AfterCreate(engine, ev)
  BY <1>1 DEF Report, ProcessEvent
<1>3. NodeOf(ev) = [pid |-> p, spawn |-> now, integrity |-> level, user |-> ""]
  BY DEF NodeOf
<1>4. NodeOf(ev) \in Node
  <2>1. p \in Pid /\ now \in Nat /\ level \in Integrity /\ "" \in User
    BY <1>1 DEF TypeOK, Integrity, User
  <2>2. [pid |-> p, spawn |-> now, integrity |-> level, user |-> ""] \in Node
    BY <2>1 DEF Node
  <2> QED BY <1>3, <2>2
<1>5. engine' = [engine EXCEPT
                    !.processes = {m \in @ : m.pid # p \/ m.spawn # now} \cup {NodeOf(ev)},
                    !.pidToKey[p] = now]
  BY <1>2 DEF AfterCreate
<1>6. engine' \in EngineType
  BY <1>4, <1>5 DEF TypeOK, EngineType
<1>7. /\ engine'.contacted = engine.contacted /\ engine'.written = engine.written
      /\ engine'.injection = engine.injection
      /\ engine'.pidToKey = [engine.pidToKey EXCEPT ![p] = now]
      /\ engine'.processes = {m \in engine.processes : m.pid # p \/ m.spawn # now} \cup {NodeOf(ev)}
  BY <1>5 DEF TypeOK, EngineType
<1>8. raised' = CheckPrivilegeEscalation(engine, ev) \cup CheckLolbinRename(ev)
                \cup CheckPersistenceToolSpawn(ev)
  BY <1>1 DEF Report, Alerts
<1>9. CheckLolbinRename(ev) = {} /\ CheckPersistenceToolSpawn(ev) = {}
  BY DEF CheckLolbinRename, CheckPersistenceToolSpawn
<1>10. \A a \in CheckPrivilegeEscalation(engine, ev) : a.kind = "escalation"
  <2> SUFFICES ASSUME NEW a \in CheckPrivilegeEscalation(engine, ev)
               PROVE  a.kind = "escalation"
    OBVIOUS
  <2>1. a = Alert(ev, "escalation")
    BY Zenon DEF CheckPrivilegeEscalation
  <2> QED BY <2>1 DEF Alert
<1> QED
  <2>1. NodeOf(ev).pid = p /\ NodeOf(ev).spawn = now
    <3>1. ASSUME NEW who  PROVE LET node == [pid |-> p, spawn |-> now, integrity |-> level, user |-> who]
                                IN  node.pid = p /\ node.spawn = now
      OBVIOUS
    <3> QED BY <1>3, <3>1
  <2>2. \A a \in raised' : a.kind = "escalation"
    BY <1>8, <1>9, <1>10
  <2>3. Report(ev) /\ own' = [own EXCEPT ![p] = Fresh] /\ p \notin Alive
    BY <1>1
  <2> HIDE DEF ev
  <2>4. now' = now
    BY <2>3 DEF Report
  <2> QED BY <1>4, <1>6, <1>7, <2>1, <2>2, <2>3, <2>4

\* An exit takes everything that is kept under the ID.
LEMMA ExitEffect ==
    ASSUME TypeOK, NEW p \in Pid, Exited(p)
    PROVE  /\ p \in Alive
           /\ engine' \in EngineType
           /\ engine'.contacted = engine.contacted \ {p}
           /\ engine'.written = engine.written \ {p}
           /\ \A q, t \in Pid : engine'.injection[<<q, t>>] =
                                    IF q = p THEN Never ELSE engine.injection[<<q, t>>]
           /\ engine'.pidToKey = [engine.pidToKey EXCEPT ![p] = Never]
           /\ engine'.processes =
                 {n \in engine.processes : n.pid # p \/ n.spawn # engine.pidToKey[p]}
           /\ raised' = {}
           /\ now' = now /\ own' = [own EXCEPT ![p] = Dead]
<1> DEFINE ev == [type |-> "exit", pid |-> p, time |-> now]
           inj == [pair \in Pid \X Pid |->
                      IF pair[1] = p THEN Never ELSE engine.injection[pair]]
<1>1. engine' = AfterExit(engine, ev) /\ raised' = {} /\ now' = now
  BY DEF Exited, Report, ProcessEvent, Alerts
<1>2. engine' = [engine EXCEPT
                    !.processes = {n \in @ : n.pid # p \/ n.spawn # engine.pidToKey[p]},
                    !.pidToKey[p] = Never,
                    !.injection = inj,
                    !.contacted = @ \ {p},
                    !.written = @ \ {p}]
  BY <1>1 DEF AfterExit, TypeOK, EngineType
<1>3. inj \in [Pid \X Pid -> Nat]
  BY DEF TypeOK, EngineType, Never
<1>4. \A q, t \in Pid : inj[<<q, t>>] = IF q = p THEN Never ELSE engine.injection[<<q, t>>]
  OBVIOUS
<1> HIDE DEF inj
<1>5. engine' \in EngineType
  BY <1>2, <1>3 DEF TypeOK, EngineType, Never
<1>6. /\ engine'.contacted = engine.contacted \ {p}
      /\ engine'.written = engine.written \ {p}
      /\ engine'.injection = inj
      /\ engine'.pidToKey = [engine.pidToKey EXCEPT ![p] = Never]
      /\ engine'.processes =
             {n \in engine.processes : n.pid # p \/ n.spawn # engine.pidToKey[p]}
  BY <1>2 DEF TypeOK, EngineType
<1> QED
  BY <1>1, <1>4, <1>5, <1>6 DEF Exited

\* A write is kept if it is lasting, and joined with earlier contacts.
LEMMA WriteEffect ==
    ASSUME TypeOK, NEW p \in Pid, Wrote(p)
    PROVE  /\ p \in Alive /\ now' = now
           /\ engine' \in EngineType
           /\ engine'.processes = engine.processes /\ engine'.pidToKey = engine.pidToKey
           /\ engine'.injection = engine.injection /\ engine'.contacted = engine.contacted
           /\ \E place \in Place :
                 /\ engine'.written = IF place = "lasting" THEN engine.written \cup {p}
                                      ELSE engine.written
                 /\ raised' = IF place # "other" /\ p \in engine.contacted
                              THEN {[pid |-> p, kind |-> "persistence"]} ELSE {}
                 /\ own' = [own EXCEPT ![p].lasting = @ \/ place = "lasting",
                                       ![p].alerted = @ \/ Joined]
<1>1. PICK place \in Place :
          /\ p \in Alive
          /\ Report([type |-> "write", pid |-> p, time |-> now, place |-> place])
          /\ own' = [own EXCEPT ![p].lasting = @ \/ place = "lasting",
                                ![p].alerted = @ \/ Joined]
  BY DEF Wrote
<1> DEFINE ev == [type |-> "write", pid |-> p, time |-> now, place |-> place]
<1>2. engine' = AfterWrite(engine, ev) /\ raised' = CheckPersistenceToC2(engine, ev) /\ now' = now
  BY <1>1 DEF Report, ProcessEvent, Alerts
<1>3. engine' = IF place = "lasting" THEN [engine EXCEPT !.written = @ \cup {p}] ELSE engine
  BY <1>2 DEF AfterWrite
<1>4. raised' = IF place # "other" /\ p \in engine.contacted
                THEN {[pid |-> p, kind |-> "persistence"]} ELSE {}
  BY <1>2 DEF CheckPersistenceToC2, Alert
<1>5. /\ engine' \in EngineType
      /\ engine'.processes = engine.processes /\ engine'.pidToKey = engine.pidToKey
      /\ engine'.injection = engine.injection /\ engine'.contacted = engine.contacted
      /\ engine'.written = IF place = "lasting" THEN engine.written \cup {p} ELSE engine.written
  BY <1>3 DEF TypeOK, EngineType
<1> QED
  BY <1>1, <1>2, <1>4, <1>5

\* A connection is kept if it has a destination, and joined with earlier writes.
LEMMA ConnectEffect ==
    ASSUME TypeOK, NEW p \in Pid, Connected(p)
    PROVE  /\ p \in Alive /\ now' = now
           /\ engine' \in EngineType
           /\ engine'.processes = engine.processes /\ engine'.pidToKey = engine.pidToKey
           /\ engine'.injection = engine.injection /\ engine'.written = engine.written
           /\ \E dest \in BOOLEAN :
                 /\ engine'.contacted = IF dest THEN engine.contacted \cup {p}
                                        ELSE engine.contacted
                 /\ raised' = IF dest /\ p \in engine.written
                              THEN {[pid |-> p, kind |-> "aftermath"]} ELSE {}
                 /\ own' = [own EXCEPT ![p].contacted = @ \/ dest,
                                       ![p].alerted = @ \/ Joined]
<1>1. PICK dest \in BOOLEAN :
          /\ p \in Alive
          /\ Report([type |-> "connect", pid |-> p, time |-> now, dest |-> dest])
          /\ own' = [own EXCEPT ![p].contacted = @ \/ dest,
                                ![p].alerted = @ \/ Joined]
  BY DEF Connected
<1> DEFINE ev == [type |-> "connect", pid |-> p, time |-> now, dest |-> dest]
<1>2. engine' = AfterConnect(engine, ev) /\ raised' = CheckC2Aftermath(engine, ev) /\ now' = now
  BY <1>1 DEF Report, ProcessEvent, Alerts
<1>3. engine' = IF dest THEN [engine EXCEPT !.contacted = @ \cup {p}] ELSE engine
  BY <1>2 DEF AfterConnect
<1>4. raised' = IF dest /\ p \in engine.written
                THEN {[pid |-> p, kind |-> "aftermath"]} ELSE {}
  BY <1>2 DEF CheckC2Aftermath, Alert
<1>5. /\ engine' \in EngineType
      /\ engine'.processes = engine.processes /\ engine'.pidToKey = engine.pidToKey
      /\ engine'.injection = engine.injection /\ engine'.written = engine.written
      /\ engine'.contacted = IF dest THEN engine.contacted \cup {p} ELSE engine.contacted
  BY <1>3 DEF TypeOK, EngineType
<1> QED
  BY <1>1, <1>2, <1>4, <1>5

\* An installation changes nothing; it is critical beside a contact only.
LEMMA InstallEffect ==
    ASSUME TypeOK, NEW p \in Pid, Installed(p)
    PROVE  /\ p \in Alive /\ now' = now /\ engine' = engine /\ own' = own
           /\ \A a \in raised' :
                 /\ a.pid = p
                 /\ a.kind \in {"subscription", "method", "task", "service"}
                 /\ a.severity = "critical" => p \in engine.contacted
<1>1. PICK what \in {"subscription", "method", "task", "service"} :
          /\ p \in Alive
          /\ Report([type |-> "install", pid |-> p, time |-> now, install |-> what])
          /\ own' = own
  BY DEF Installed
<1> DEFINE ev == [type |-> "install", pid |-> p, time |-> now, install |-> what]
<1>2. engine' = engine /\ raised' = CheckInstallation(engine, ev) /\ now' = now
  BY <1>1 DEF Report, ProcessEvent, Alerts
<1>3. raised' = {[pid |-> p, kind |-> what,
                  severity |-> IF what # "method" /\ p \in engine.contacted
                               THEN "critical" ELSE "high"]}
  BY <1>2 DEF CheckInstallation
<1> QED
  BY <1>1, <1>2, <1>3

(* Calls and threads.  First is the state of the pair that has not expired, *)
(* State what the call makes of it, Kind the alert of an execution.        *)
First(p, t) ==
    LET first == engine.injection[<<p, t>>]
    IN  IF first # Never /\ now - first > MaxWindow THEN Never ELSE first

State(p, t, call) ==
    CASE call = "prepare" /\ First(p, t) = Never -> now
      [] call = "execute" -> Never
      [] OTHER -> First(p, t)

Kind(p, t) ==
    IF First(p, t) = Never THEN "unprepared"
    ELSE IF now - First(p, t) <= PrimaryWindow THEN "confirmed" ELSE "late"

Judged(p, t, call) ==
    IF call = "execute" THEN {[pid |-> p, kind |-> Kind(p, t), target |-> t]} ELSE {}

Kept(preps, t, call) ==
    CASE call = "prepare" -> preps \cup {<<t, now>>}
      [] call = "execute" -> {prep \in preps : prep[1] # t}
      [] OTHER -> preps

\* A call of p on t as it is remembered and judged: nothing, if it is a call on
\* itself or on nobody.
Calling(p, t, call) ==
    /\ engine' \in EngineType
    /\ engine'.processes = engine.processes /\ engine'.pidToKey = engine.pidToKey
    /\ engine'.contacted = engine.contacted /\ engine'.written = engine.written
    /\ engine'.injection = [engine.injection EXCEPT ![<<p, t>>] = State(p, t, call)]
    /\ raised' = Judged(p, t, call)
    /\ own' = [own EXCEPT ![p].preparations = Kept(@, t, call)]
NoCalling(p, t) ==
    /\ engine' = engine /\ raised' = {}
    /\ \/ own' = own
       \/ own' = [own EXCEPT ![p].preparations = {prep \in @ : prep[1] # t}]

LEMMA CallOnEngine ==
    ASSUME TypeOK, NEW p \in Pid, NEW t \in Pid \cup {NoPid}, NEW ev,
           NEW call \in {"prepare", "execute", "other"},
           ev.pid = p, ev.time = now, ev.target = t, ev.call = call
    PROVE  /\ t \in {p, NoPid} => /\ AfterCall(engine, ev) = engine
                                  /\ CheckProcessInjectionWindowed(engine, ev) = {}
           /\ t \notin {p, NoPid} =>
                 /\ AfterCall(engine, ev) =
                        [engine EXCEPT !.injection[<<p, t>>] = State(p, t, call)]
                 /\ CheckProcessInjectionWindowed(engine, ev) = Judged(p, t, call)
                 /\ State(p, t, call) \in Nat
<1>1. Foreign(ev) <=> t \notin {p, NoPid}
  BY DEF Foreign
<1>2. ASSUME t \in {p, NoPid}
      PROVE  AfterCall(engine, ev) = engine /\ CheckProcessInjectionWindowed(engine, ev) = {}
  BY <1>1, <1>2 DEF AfterCall, CheckProcessInjectionWindowed
<1>3. ASSUME t \notin {p, NoPid}
      PROVE  /\ AfterCall(engine, ev) =
                    [engine EXCEPT !.injection[<<p, t>>] = State(p, t, call)]
             /\ CheckProcessInjectionWindowed(engine, ev) = Judged(p, t, call)
             /\ State(p, t, call) \in Nat
  <2>1. FirstSeen(engine, ev) = First(p, t)
    BY DEF FirstSeen, First
  <2>2. AfterCall(engine, ev) = [engine EXCEPT !.injection[<<p, t>>] = State(p, t, call)]
    BY <1>1, <1>3, <2>1 DEF AfterCall, State
  <2>3. CheckProcessInjectionWindowed(engine, ev) = Judged(p, t, call)
    BY <1>1, <1>3, <2>1 DEF CheckProcessInjectionWindowed, Judged, Kind
  <2>4. State(p, t, call) \in Nat
    <3>1. engine.injection[<<p, t>>] \in Nat /\ now \in Nat
      BY <1>3 DEF TypeOK, EngineType
    <3> QED BY <3>1 DEF State, First, Never
  <2> QED BY <2>2, <2>3, <2>4
<1> QED BY <1>2, <1>3

\* A call of p on t has reached the engine as some event ev and is in p's history.
HeardAs(p, t, call) ==
    \E ev :
        /\ ev.pid = p /\ ev.time = now /\ ev.target = t /\ ev.call = call
        /\ p \in Alive /\ now' = now
        /\ engine' = AfterCall(engine, ev)
        /\ raised' = CheckProcessInjectionWindowed(engine, ev)
        /\ own' = [own EXCEPT ![p].preparations =
                      IF call = "prepare" /\ t \in {p, NoPid} THEN @ ELSE Kept(@, t, call)]

LEMMA CallEffect ==
    ASSUME TypeOK, NEW p \in Pid, Called(p) \/ StartedThread(p)
    PROVE  /\ p \in Alive /\ now' = now
           /\ \/ \E t \in {p, NoPid} : NoCalling(p, t)
              \/ \E t \in Pid \ {p, NoPid}, call \in {"prepare", "execute", "other"} :
                    Calling(p, t, call)
<1>1. ASSUME Called(p)
      PROVE  \E t \in Pid \cup {NoPid}, call \in {"prepare", "execute", "other"} :
                 HeardAs(p, t, call)
  <2>1. PICK t \in Pid \cup {NoPid}, call \in {"prepare", "execute", "other"} :
            /\ p \in Alive
            /\ Report([type |-> "call", pid |-> p, time |-> now, target |-> t, call |-> call])
            /\ own' = [own EXCEPT ![p].preparations =
                          CASE call = "prepare" /\ t \notin {p, NoPid} -> @ \cup {<<t, now>>}
                            [] call = "execute" -> {prep \in @ : prep[1] # t}
                            [] OTHER -> @]
    BY <1>1 DEF Called
  <2> DEFINE ev == [type |-> "call", pid |-> p, time |-> now, target |-> t, call |-> call]
  <2>2. /\ engine' = AfterCall(engine, ev) /\ now' = now
        /\ raised' = CheckProcessInjectionWindowed(engine, ev)
    BY <2>1 DEF Report, ProcessEvent, Alerts
  <2>3. own' = [own EXCEPT ![p].preparations =
                   IF call = "prepare" /\ t \in {p, NoPid} THEN @ ELSE Kept(@, t, call)]
    BY <2>1 DEF Kept
  <2>4. ev.pid = p /\ ev.time = now /\ ev.target = t /\ ev.call = call
    OBVIOUS
  <2>5. HeardAs(p, t, call)
    BY <2>1, <2>2, <2>3, <2>4 DEF HeardAs
  <2> QED BY <2>5
<1>2. ASSUME StartedThread(p)
      PROVE  \E t \in Pid \cup {NoPid}, call \in {"prepare", "execute", "other"} :
                 HeardAs(p, t, call)
  <2>1. PICK t \in Pid :
            /\ p \in Alive
            /\ Report([type |-> "thread", pid |-> p, time |-> now, target |-> t,
                       call |-> "thread"])
            /\ own' = [own EXCEPT ![p].preparations = {prep \in @ : prep[1] # t}]
    BY <1>2 DEF StartedThread
  <2> DEFINE heard == [type |-> "thread", pid |-> p, time |-> now, target |-> t,
                       call |-> "thread"]
             ev == [heard EXCEPT !.call = "execute"]
  <2>2. /\ engine' = AfterCall(engine, ev) /\ now' = now
        /\ raised' = CheckProcessInjectionWindowed(engine, ev)
    BY <2>1 DEF Report, ProcessEvent, Alerts
  <2>3. own' = [own EXCEPT ![p].preparations =
                   IF "execute" = "prepare" /\ t \in {p, NoPid} THEN @ ELSE Kept(@, t, "execute")]
    BY <2>1 DEF Kept
  <2>4. ev.pid = p /\ ev.time = now /\ ev.target = t /\ ev.call = "execute"
    OBVIOUS
  <2>5. HeardAs(p, t, "execute")
    BY <2>1, <2>2, <2>3, <2>4 DEF HeardAs
  <2> QED BY <2>5
<1>3. PICK t \in Pid \cup {NoPid}, call \in {"prepare", "execute", "other"} : HeardAs(p, t, call)
  BY <1>1, <1>2
<1>4. PICK ev :
          /\ ev.pid = p /\ ev.time = now /\ ev.target = t /\ ev.call = call
          /\ p \in Alive /\ now' = now
          /\ engine' = AfterCall(engine, ev)
          /\ raised' = CheckProcessInjectionWindowed(engine, ev)
          /\ own' = [own EXCEPT ![p].preparations =
                        IF call = "prepare" /\ t \in {p, NoPid} THEN @ ELSE Kept(@, t, call)]
  BY <1>3 DEF HeardAs
<1>5. CASE t \in {p, NoPid}
  <2>1. engine' = engine /\ raised' = {}
    BY <1>4, <1>5, CallOnEngine
  <2>2. own' = own \/ own' = [own EXCEPT ![p].preparations = {prep \in @ : prep[1] # t}]
    BY <1>4, <1>5 DEF Kept, TypeOK
  <2> QED BY <1>4, <1>5, <2>1, <2>2 DEF NoCalling
<1>6. CASE t \notin {p, NoPid}
  <2>1. /\ engine' = [engine EXCEPT !.injection[<<p, t>>] = State(p, t, call)]
        /\ raised' = Judged(p, t, call)
        /\ State(p, t, call) \in Nat
    BY <1>4, <1>6, CallOnEngine
  <2>2. /\ engine' \in EngineType
        /\ engine'.processes = engine.processes /\ engine'.pidToKey = engine.pidToKey
        /\ engine'.contacted = engine.contacted /\ engine'.written = engine.written
        /\ engine'.injection = [engine.injection EXCEPT ![<<p, t>>] = State(p, t, call)]
    BY <2>1, <1>6 DEF TypeOK, EngineType
  <2>3. own' = [own EXCEPT ![p].preparations = Kept(@, t, call)]
    BY <1>4, <1>6
  <2>4. Calling(p, t, call)
    BY <2>1, <2>2, <2>3 DEF Calling
  <2>5. t \in Pid \ {p, NoPid}
    BY <1>6
  <2> QED BY <1>4, <2>4, <2>5
<1> QED BY <1>5, <1>6

-----------------------------------------------------------------------------
(* Each action preserves the invariant.                                    *)

LEMMA CreatePreserves ==
    ASSUME Inv, NEW p \in Pid, Created(p)
    PROVE  Inv'
<1>1. TypeOK /\ own \in [Pid -> History] /\ Dead \in History /\ Fresh \in History
  BY EmptyHistories DEF Inv, TypeOK, History
<1>2. /\ p \notin Alive
      /\ engine' \in EngineType
      /\ engine'.contacted = engine.contacted /\ engine'.written = engine.written
      /\ engine'.injection = engine.injection
      /\ engine'.pidToKey = [engine.pidToKey EXCEPT ![p] = now]
      /\ \A a \in raised' : a.kind = "escalation"
      /\ now' = now /\ own' = [own EXCEPT ![p] = Fresh]
  BY <1>1, CreateEffect
<1>3. PICK n \in Node :
          /\ n.pid = p /\ n.spawn = now
          /\ engine'.processes = {m \in engine.processes : m.pid # p \/ m.spawn # now} \cup {n}
  BY <1>1, CreateEffect
<1>4. own[p] = Dead
  BY <1>2 DEF Inv, DeadIsEmpty, Alive
<1>5. /\ \A q \in Pid : own'[q] = IF q = p THEN Fresh ELSE own[q]
      /\ own' \in [Pid -> History]
  BY <1>1, <1>2
<1>6. TypeOK' /\ (now # Never)'
  BY <1>1, <1>2, <1>5 DEF TypeOK, History, Inv
<1>7. DeadIsEmpty'
  BY <1>5 DEF Inv, DeadIsEmpty, Fresh, Dead
<1>8. Contacts' /\ Writes'
  BY <1>2, <1>4, <1>5 DEF Inv, Contacts, Writes, Fresh, Dead
<1>9. Preparations' /\ Backed' /\ Remembered'
  BY <1>2, <1>4, <1>5 DEF Inv, Preparations, Backed, Remembered, Fresh, Dead
<1>10. GraphIsTheLiving'
  <2>1. Alive' = Alive \cup {p}
    BY <1>5 DEF Alive, Fresh, Dead
  <2>2. engine.pidToKey \in [Pid -> Nat]
    BY <1>1 DEF TypeOK, EngineType
  <2>3. \A q \in Pid : engine'.pidToKey[q] = IF q = p THEN now ELSE engine.pidToKey[q]
    BY <1>2, <2>2
  <2>4. engine'.processes = engine.processes \cup {n}
    BY <1>2, <1>3 DEF Inv, GraphIsTheLiving
  <2> QED BY <1>2, <1>3, <2>1, <2>3, <2>4 DEF Inv, GraphIsTheLiving
<1>11. EvidenceIsOwn'
  BY <1>2 DEF EvidenceIsOwn
<1>12. EitherOrderIsReported'
  BY <1>5 DEF Inv, EitherOrderIsReported, Alive, Fresh, Dead
<1> QED BY <1>6, <1>7, <1>8, <1>9, <1>10, <1>11, <1>12 DEF Inv

LEMMA ExitPreserves ==
    ASSUME Inv, NEW p \in Pid, Exited(p)
    PROVE  Inv'
<1>1. TypeOK /\ own \in [Pid -> History] /\ Dead \in History
  BY EmptyHistories DEF Inv, TypeOK, History
<1>2. /\ p \in Alive
      /\ engine' \in EngineType
      /\ engine'.contacted = engine.contacted \ {p}
      /\ engine'.written = engine.written \ {p}
      /\ \A q, t \in Pid : engine'.injection[<<q, t>>] =
                               IF q = p THEN Never ELSE engine.injection[<<q, t>>]
      /\ engine'.pidToKey = [engine.pidToKey EXCEPT ![p] = Never]
      /\ engine'.processes = {n \in engine.processes : n.pid # p \/ n.spawn # engine.pidToKey[p]}
      /\ raised' = {}
      /\ now' = now /\ own' = [own EXCEPT ![p] = Dead]
  BY <1>1, ExitEffect
<1>3. /\ \A q \in Pid : own'[q] = IF q = p THEN Dead ELSE own[q]
      /\ own' \in [Pid -> History]
  BY <1>1, <1>2
<1>4. TypeOK' /\ (now # Never)'
  BY <1>1, <1>2, <1>3 DEF TypeOK, History, Inv
<1>5. DeadIsEmpty'
  BY <1>3 DEF Inv, DeadIsEmpty
<1>6. Contacts' /\ Writes'
  BY <1>2, <1>3 DEF Inv, Contacts, Writes, Dead
<1>7. Preparations' /\ Backed' /\ Remembered'
  BY <1>2, <1>3 DEF Inv, Preparations, Backed, Remembered, Dead
<1>8. GraphIsTheLiving'
  <2>1. Alive' = Alive \ {p}
    BY <1>3 DEF Alive, Dead
  <2>2. engine.pidToKey \in [Pid -> Nat]
    BY <1>1 DEF TypeOK, EngineType
  <2>3. \A q \in Pid : engine'.pidToKey[q] = IF q = p THEN Never ELSE engine.pidToKey[q]
    BY <1>2, <2>2
  <2>4. engine'.processes = {n \in engine.processes : n.pid # p}
    BY <1>2 DEF Inv, GraphIsTheLiving
  <2> QED BY <1>2, <2>1, <2>3, <2>4 DEF Inv, GraphIsTheLiving
<1>9. EvidenceIsOwn'
  BY <1>2 DEF EvidenceIsOwn
<1>10. EitherOrderIsReported'
  BY <1>3 DEF Inv, EitherOrderIsReported, Alive, Dead
<1> QED BY <1>4, <1>5, <1>6, <1>7, <1>8, <1>9, <1>10 DEF Inv

\* An action after which the same processes live: the graph stays right.
LEMMA SameGraph ==
    ASSUME GraphIsTheLiving, Alive' = Alive,
           engine'.processes = engine.processes, engine'.pidToKey = engine.pidToKey
    PROVE  GraphIsTheLiving'
BY DEF GraphIsTheLiving

LEMMA WritePreserves ==
    ASSUME Inv, NEW p \in Pid, Wrote(p)
    PROVE  Inv'
<1>1. TypeOK /\ own \in [Pid -> History]
  BY DEF Inv, TypeOK, History
<1>2. /\ p \in Alive /\ now' = now
      /\ engine' \in EngineType
      /\ engine'.processes = engine.processes /\ engine'.pidToKey = engine.pidToKey
      /\ engine'.injection = engine.injection /\ engine'.contacted = engine.contacted
  BY <1>1, WriteEffect
<1>3. PICK place \in Place :
          /\ engine'.written = IF place = "lasting" THEN engine.written \cup {p}
                               ELSE engine.written
          /\ raised' = IF place # "other" /\ p \in engine.contacted
                       THEN {[pid |-> p, kind |-> "persistence"]} ELSE {}
          /\ own' = [own EXCEPT ![p].lasting = @ \/ place = "lasting",
                                ![p].alerted = @ \/ Joined]
  BY <1>1, WriteEffect
<1>4. Joined <=> place # "other" /\ p \in engine.contacted
  <2>1. CASE place # "other" /\ p \in engine.contacted
    <3>1. [pid |-> p, kind |-> "persistence"] \in raised'
      BY <1>3, <2>1
    <3>2. [pid |-> p, kind |-> "persistence"].kind = "persistence"
      OBVIOUS
    <3>3. [pid |-> p, kind |-> "persistence"] \in {a \in raised' : a.kind \in {"persistence", "aftermath"}}
      BY <3>1, <3>2
    <3> QED BY <2>1, <3>3 DEF Joined
  <2>2. CASE ~(place # "other" /\ p \in engine.contacted)
    <3>1. raised' = {}
      BY <1>3, <2>2
    <3> QED BY <2>2, <3>1 DEF Joined
  <2> QED BY <2>1, <2>2
<1>5. Joined \in BOOLEAN /\ (place = "lasting") \in BOOLEAN
  BY DEF Joined
<1>6. /\ own' \in [Pid -> History]
      /\ \A q \in Pid : /\ own'[q].alive = own[q].alive
                        /\ own'[q].contacted = own[q].contacted
                        /\ own'[q].preparations = own[q].preparations
                        /\ q # p => own'[q] = own[q]
      /\ own'[p].lasting <=> own[p].lasting \/ place = "lasting"
      /\ own'[p].alerted <=> own[p].alerted \/ Joined
  <2> DEFINE wrote == own[p].lasting \/ place = "lasting"
             told  == own[p].alerted \/ Joined
             mine  == [own[p] EXCEPT !.lasting = wrote, !.alerted = told]
  <2>1. own' = [own EXCEPT ![p] = mine]
    BY <1>3
  <2>2. wrote \in BOOLEAN /\ told \in BOOLEAN /\ own[p] \in History
    BY <1>1
  <2> HIDE DEF wrote, told
  <2>3. /\ mine \in History /\ (mine.lasting <=> wrote) /\ (mine.alerted <=> told)
        /\ mine.alive = own[p].alive /\ mine.contacted = own[p].contacted
        /\ mine.preparations = own[p].preparations
    BY <2>2 DEF History
  <2> HIDE DEF mine
  <2>4. own' \in [Pid -> History] /\ own'[p] = mine /\ \A q \in Pid : q # p => own'[q] = own[q]
    BY <1>1, <2>1, <2>3
  <2> QED BY <2>3, <2>4 DEF wrote, told
<1>7. TypeOK' /\ (now # Never)'
  BY <1>1, <1>2, <1>6 DEF TypeOK, History, Inv
<1>8. DeadIsEmpty'
  BY <1>2, <1>6 DEF Inv, DeadIsEmpty, Alive
<1>9. Contacts' /\ Writes'
  BY <1>2, <1>3, <1>6 DEF Inv, Contacts, Writes
<1>10. Preparations' /\ Backed' /\ Remembered'
  BY <1>2, <1>6 DEF Inv, Preparations, Backed, Remembered
<1>11. GraphIsTheLiving'
  <2>1. Alive' = Alive
    BY <1>6 DEF Alive
  <2> QED BY <1>2, <2>1, SameGraph DEF Inv
<1>12. EvidenceIsOwn'
  BY <1>2, <1>3, <1>6 DEF Inv, Contacts, EvidenceIsOwn
<1>13. EitherOrderIsReported'
  BY <1>2, <1>4, <1>6 DEF Inv, Contacts, EitherOrderIsReported, Alive
<1> QED BY <1>7, <1>8, <1>9, <1>10, <1>11, <1>12, <1>13 DEF Inv

LEMMA ConnectPreserves ==
    ASSUME Inv, NEW p \in Pid, Connected(p)
    PROVE  Inv'
<1>1. TypeOK /\ own \in [Pid -> History]
  BY DEF Inv, TypeOK, History
<1>2. /\ p \in Alive /\ now' = now
      /\ engine' \in EngineType
      /\ engine'.processes = engine.processes /\ engine'.pidToKey = engine.pidToKey
      /\ engine'.injection = engine.injection /\ engine'.written = engine.written
  BY <1>1, ConnectEffect
<1>3. PICK dest \in BOOLEAN :
          /\ engine'.contacted = IF dest THEN engine.contacted \cup {p} ELSE engine.contacted
          /\ raised' = IF dest /\ p \in engine.written
                       THEN {[pid |-> p, kind |-> "aftermath"]} ELSE {}
          /\ own' = [own EXCEPT ![p].contacted = @ \/ dest,
                                ![p].alerted = @ \/ Joined]
  BY <1>1, ConnectEffect
<1>4. Joined <=> dest /\ p \in engine.written
  <2>1. CASE dest /\ p \in engine.written
    <3>1. [pid |-> p, kind |-> "aftermath"] \in raised'
      BY <1>3, <2>1
    <3>2. [pid |-> p, kind |-> "aftermath"].kind = "aftermath"
      OBVIOUS
    <3>3. [pid |-> p, kind |-> "aftermath"] \in {a \in raised' : a.kind \in {"persistence", "aftermath"}}
      BY <3>1, <3>2
    <3> QED BY <2>1, <3>3 DEF Joined
  <2>2. CASE ~(dest /\ p \in engine.written)
    <3>1. raised' = {}
      BY <1>3, <2>2
    <3> QED BY <2>2, <3>1 DEF Joined
  <2> QED BY <2>1, <2>2
<1>5. Joined \in BOOLEAN
  BY DEF Joined
<1>6. /\ own' \in [Pid -> History]
      /\ \A q \in Pid : /\ own'[q].alive = own[q].alive
                        /\ own'[q].lasting = own[q].lasting
                        /\ own'[q].preparations = own[q].preparations
                        /\ q # p => own'[q] = own[q]
      /\ own'[p].contacted <=> own[p].contacted \/ dest
      /\ own'[p].alerted <=> own[p].alerted \/ Joined
  <2> DEFINE met  == own[p].contacted \/ dest
             told == own[p].alerted \/ Joined
             mine == [own[p] EXCEPT !.contacted = met, !.alerted = told]
  <2>1. own' = [own EXCEPT ![p] = mine]
    BY <1>3
  <2>2. met \in BOOLEAN /\ told \in BOOLEAN /\ own[p] \in History
    BY <1>1
  <2> HIDE DEF met, told
  <2>3. /\ mine \in History /\ (mine.contacted <=> met) /\ (mine.alerted <=> told)
        /\ mine.alive = own[p].alive /\ mine.lasting = own[p].lasting
        /\ mine.preparations = own[p].preparations
    BY <2>2 DEF History
  <2> HIDE DEF mine
  <2>4. own' \in [Pid -> History] /\ own'[p] = mine /\ \A q \in Pid : q # p => own'[q] = own[q]
    BY <1>1, <2>1, <2>3
  <2> QED BY <2>3, <2>4 DEF met, told
<1>7. TypeOK' /\ (now # Never)'
  BY <1>1, <1>2, <1>6 DEF TypeOK, History, Inv
<1>8. DeadIsEmpty'
  BY <1>2, <1>6 DEF Inv, DeadIsEmpty, Alive
<1>9. Contacts' /\ Writes'
  BY <1>2, <1>3, <1>6 DEF Inv, Contacts, Writes
<1>10. Preparations' /\ Backed' /\ Remembered'
  BY <1>2, <1>6 DEF Inv, Preparations, Backed, Remembered
<1>11. GraphIsTheLiving'
  <2>1. Alive' = Alive
    BY <1>6 DEF Alive
  <2> QED BY <1>2, <2>1, SameGraph DEF Inv
<1>12. EvidenceIsOwn'
  BY <1>2, <1>3, <1>6 DEF Inv, Writes, EvidenceIsOwn
<1>13. EitherOrderIsReported'
  BY <1>2, <1>4, <1>6 DEF Inv, Writes, EitherOrderIsReported, Alive
<1> QED BY <1>7, <1>8, <1>9, <1>10, <1>11, <1>12, <1>13 DEF Inv

LEMMA InstallPreserves ==
    ASSUME Inv, NEW p \in Pid, Installed(p)
    PROVE  Inv'
<1>1. /\ p \in Alive /\ now' = now /\ engine' = engine /\ own' = own
      /\ \A a \in raised' : /\ a.pid = p
                            /\ a.kind \in {"subscription", "method", "task", "service"}
                            /\ a.severity = "critical" => p \in engine.contacted
  BY InstallEffect DEF Inv
<1>2. EvidenceIsOwn'
  BY <1>1 DEF Inv, Contacts, EvidenceIsOwn
<1>3. GraphIsTheLiving' /\ EitherOrderIsReported'
  BY <1>1 DEF Inv, GraphIsTheLiving, EitherOrderIsReported, Alive
<1> QED
  BY <1>1, <1>2, <1>3 DEF Inv, TypeOK, DeadIsEmpty, Contacts, Writes, Preparations, Backed, Remembered

LEMMA NoCallPreserves ==
    ASSUME Inv, NEW p \in Pid, NEW t \in {p, NoPid}, NoCalling(p, t), now' = now
    PROVE  Inv'
<1>1. own \in [Pid -> History]
  BY DEF Inv, TypeOK, History
<1>2. \A prep \in own[p].preparations : prep[1] # t
  <2>1. \A prep \in own[p].preparations : prep[1] # p /\ prep \in Pid \X Nat
    BY <1>1 DEF Inv, Preparations, History
  <2> QED BY <2>1, CorrelationAssumption
<1>3. {prep \in own[p].preparations : prep[1] # t} = own[p].preparations
  BY <1>2
<1>4. own' = own
  <2> DEFINE kept == {prep \in own[p].preparations : prep[1] # t}
             mine == [own[p] EXCEPT !.preparations = kept]
  <2>1. own' = own \/ own' = [own EXCEPT ![p] = mine]
    BY DEF NoCalling
  <2>2. kept = own[p].preparations
    BY <1>3
  <2> HIDE DEF kept
  <2>3. mine = own[p]
    BY <1>1, <2>2 DEF History
  <2> HIDE DEF mine
  <2> QED BY <1>1, <2>1, <2>3
<1> QED
  BY <1>4 DEF NoCalling, Inv, TypeOK, DeadIsEmpty, Contacts, Writes, Preparations, Backed,
              Remembered, GraphIsTheLiving, EvidenceIsOwn, EitherOrderIsReported, Alive

LEMMA FirstFacts ==
    ASSUME Inv, NEW p \in Pid, NEW t \in Pid
    PROVE  /\ First(p, t) \in Nat /\ now \in Nat
           /\ First(p, t) # Never =>
                 /\ First(p, t) = engine.injection[<<p, t>>]
                 /\ now - First(p, t) <= MaxWindow
                 /\ <<t, First(p, t)>> \in own[p].preparations
           /\ (First(p, t) = Never /\ \E prep \in own[p].preparations : prep[1] = t) =>
                 \E prep \in own[p].preparations : prep[1] = t /\ now - prep[2] > MaxWindow
<1> DEFINE first == engine.injection[<<p, t>>]
<1>1. first \in Nat /\ now \in Nat
  BY DEF Inv, TypeOK, EngineType
<1>2. First(p, t) = IF first # Never /\ now - first > MaxWindow THEN Never ELSE first
  BY DEF First
<1>3. first # Never => <<t, first>> \in own[p].preparations
  BY DEF Inv, Backed
<1>4. (first = Never /\ \E prep \in own[p].preparations : prep[1] = t) =>
          \E prep \in own[p].preparations : prep[1] = t /\ now - prep[2] > MaxWindow
  BY DEF Inv, Remembered
<1>5. ASSUME first # Never, now - first > MaxWindow
      PROVE  \E prep \in own[p].preparations : prep[1] = t /\ now - prep[2] > MaxWindow
  <2>1. <<t, first>>[1] = t /\ <<t, first>>[2] = first
    OBVIOUS
  <2> QED BY <1>3, <1>5, <2>1
<1> HIDE DEF first
<1>6. CASE first # Never /\ now - first > MaxWindow
  <2>1. First(p, t) = Never
    BY <1>2, <1>6
  <2> QED BY <1>1, <1>5, <1>6, <2>1 DEF Never
<1>7. CASE ~(first # Never /\ now - first > MaxWindow)
  <2>1. First(p, t) = first
    BY <1>2, <1>7
  <2> QED BY <1>1, <1>3, <1>4, <1>7, <2>1, CorrelationAssumption DEF first
<1> QED BY <1>6, <1>7

LEMMA CallPreserves ==
    ASSUME Inv, NEW p \in Pid, NEW t \in Pid \ {p, NoPid},
           NEW call \in {"prepare", "execute", "other"},
           p \in Alive, Calling(p, t, call), now' = now
    PROVE  Inv'
<1>1. TypeOK /\ own \in [Pid -> History] /\ now \in Nat
  BY DEF Inv, TypeOK, History
<1>2. Kept(own[p].preparations, t, call) \in SUBSET (Pid \X Nat)
  BY <1>1 DEF Kept, History
<1>3. /\ own' \in [Pid -> History]
      /\ \A q \in Pid : /\ own'[q].alive = own[q].alive
                        /\ own'[q].contacted = own[q].contacted
                        /\ own'[q].lasting = own[q].lasting
                        /\ own'[q].alerted = own[q].alerted
                        /\ q # p => own'[q] = own[q]
      /\ own'[p].preparations = Kept(own[p].preparations, t, call)
  BY <1>1, <1>2 DEF Calling, History
<1>4. /\ engine.injection \in [Pid \X Pid -> Nat]
      /\ \A q, u \in Pid : engine'.injection[<<q, u>>] =
             IF q = p /\ u = t THEN State(p, t, call) ELSE engine.injection[<<q, u>>]
  BY <1>1 DEF Calling, TypeOK, EngineType
<1>5. TypeOK' /\ (now # Never)'
  BY <1>1, <1>3 DEF Calling, TypeOK, History, Inv
<1>6. DeadIsEmpty'
  BY <1>3 DEF Inv, DeadIsEmpty, Alive
<1>7. Contacts' /\ Writes'
  BY <1>3 DEF Calling, Inv, Contacts, Writes
<1>8. Preparations'
  <2> SUFFICES ASSUME NEW q \in Pid, NEW prep \in own'[q].preparations
               PROVE  prep[1] # q /\ prep[2] <= now
    BY DEF Preparations
  <2>1. prep \in own[q].preparations \/ (q = p /\ prep = <<t, now>>)
    BY <1>3 DEF Kept
  <2> QED BY <1>1, <2>1 DEF Inv, Preparations
<1>9. Backed'
  <2> SUFFICES ASSUME NEW q \in Pid, NEW u \in Pid, engine'.injection[<<q, u>>] # Never
               PROVE  <<u, engine'.injection[<<q, u>>]>> \in own'[q].preparations
    BY DEF Backed
  <2>1. CASE q # p
    BY <1>3, <1>4, <2>1 DEF Inv, Backed
  <2>2. CASE q = p /\ u # t
    <3>1. <<u, engine.injection[<<p, u>>]>> \in own[p].preparations
      BY <1>4, <2>2 DEF Inv, Backed
    <3>2. <<u, engine.injection[<<p, u>>]>> \in Kept(own[p].preparations, t, call)
      BY <2>2, <3>1 DEF Kept
    <3> QED BY <1>3, <1>4, <2>2, <3>2
  <2>3. CASE q = p /\ u = t
    <3>1. State(p, t, call) # Never
      BY <1>4, <2>3
    <3>2. call # "execute"
      BY <3>1 DEF State
    <3>3. CASE call = "prepare" /\ First(p, t) = Never
      BY <1>3, <1>4, <2>3, <3>3 DEF State, Kept
    <3>4. CASE ~(call = "prepare" /\ First(p, t) = Never)
      <4>1. State(p, t, call) = First(p, t)
        BY <3>2, <3>4 DEF State
      <4>2. <<t, First(p, t)>> \in own[p].preparations
        BY <3>1, <4>1, FirstFacts
      <4>3. <<t, First(p, t)>> \in Kept(own[p].preparations, t, call)
        BY <3>2, <4>2 DEF Kept
      <4> QED BY <1>3, <1>4, <2>3, <4>1, <4>3
    <3> QED BY <3>3, <3>4
  <2> QED BY <2>1, <2>2, <2>3
<1>10. Remembered'
  <2> SUFFICES ASSUME NEW q \in Pid, NEW u \in Pid, engine'.injection[<<q, u>>] = Never,
                      NEW prep \in own'[q].preparations, prep[1] = u
               PROVE  \E old \in own'[q].preparations : old[1] = u /\ now - old[2] > MaxWindow
    BY DEF Remembered
  <2>1. CASE q # p
    BY <1>3, <1>4, <2>1 DEF Inv, Remembered
  <2>2. CASE q = p /\ u # t
    <3>1. engine.injection[<<p, u>>] = Never
      BY <1>4, <2>2
    <3>2. prep \in own[p].preparations
      BY <1>3, <2>2 DEF Kept
    <3>3. PICK old \in own[p].preparations : old[1] = u /\ now - old[2] > MaxWindow
      BY <2>2, <3>1, <3>2 DEF Inv, Remembered
    <3>4. old \in Kept(own[p].preparations, t, call)
      BY <2>2, <3>3 DEF Kept
    <3> QED BY <1>3, <2>2, <3>3, <3>4
  <2>3. CASE q = p /\ u = t
    <3>1. State(p, t, call) = Never
      BY <1>4, <2>3
    <3>2. call # "execute"
      BY <1>3, <2>3 DEF Kept
    <3>3. First(p, t) = Never /\ call # "prepare"
      BY <3>1, <3>2 DEF State, Inv
    <3>4. own'[p].preparations = own[p].preparations
      BY <1>3, <3>2, <3>3 DEF Kept
    <3>5. \E made \in own[p].preparations : made[1] = t
      BY <2>3, <3>4
    <3>6. \E old \in own[p].preparations : old[1] = t /\ now - old[2] > MaxWindow
      BY <3>3, <3>5, FirstFacts
    <3> QED BY <2>3, <3>4, <3>6
  <2> QED BY <2>1, <2>2, <2>3
<1>11. GraphIsTheLiving'
  <2>1. Alive' = Alive
    BY <1>3 DEF Alive
  <2> QED BY <2>1, SameGraph DEF Inv, Calling
<1>12. EvidenceIsOwn'
  <2>1. \A a \in raised' : a.kind \in {"unprepared", "confirmed", "late"}
    BY DEF Calling, Judged, Kind
  <2> QED BY <2>1 DEF EvidenceIsOwn
<1>13. EitherOrderIsReported'
  BY <1>3 DEF Inv, EitherOrderIsReported, Alive
<1> QED BY <1>5, <1>6, <1>7, <1>8, <1>9, <1>10, <1>11, <1>12, <1>13 DEF Inv

LEMMA TickPreserves ==
    ASSUME Inv, Tick
    PROVE  Inv'
<1>1. /\ now \in Nat /\ now' = now + 1 /\ raised' = {} /\ engine' = engine /\ own' = own
      /\ \A p \in Pid : \A prep \in own[p].preparations : prep[2] \in Nat
  BY DEF Tick, Inv, TypeOK
<1>2. TypeOK' /\ (now # Never)'
  BY <1>1 DEF Inv, TypeOK, Never
<1>3. DeadIsEmpty' /\ Contacts' /\ Writes' /\ Backed'
  BY <1>1 DEF Inv, DeadIsEmpty, Contacts, Writes, Backed
<1>4. Preparations'
  BY <1>1 DEF Inv, Preparations
<1>5. Remembered'
  BY <1>1, CorrelationAssumption DEF Inv, Remembered
<1>6. GraphIsTheLiving' /\ EvidenceIsOwn' /\ EitherOrderIsReported'
  BY <1>1 DEF Inv, GraphIsTheLiving, EvidenceIsOwn, EitherOrderIsReported, Alive
<1> QED BY <1>2, <1>3, <1>4, <1>5, <1>6 DEF Inv

-----------------------------------------------------------------------------
(* The theorems.                                                           *)

LEMMA InitHolds == Init => Inv
<1> SUFFICES ASSUME Init PROVE Inv
  OBVIOUS
<1>1. /\ engine \in EngineType /\ engine.processes = {} /\ engine.contacted = {}
      /\ engine.written = {}
      /\ \A p \in Pid : engine.pidToKey[p] = Never
      /\ \A p, t \in Pid : engine.injection[<<p, t>>] = Never
  BY DEF Init, NewEngine, EngineType, Never
<1>2. now = 1 /\ raised = {} /\ own \in [Pid -> History] /\ \A p \in Pid : own[p] = Dead
  BY EmptyHistories DEF Init
<1>3. Alive = {}
  BY <1>2 DEF Alive, Dead
<1>4. TypeOK /\ now # Never
  BY <1>1, <1>2 DEF TypeOK, History, Never
<1>5. DeadIsEmpty /\ Contacts /\ Writes /\ Preparations /\ Backed /\ Remembered
  BY <1>1, <1>2 DEF DeadIsEmpty, Contacts, Writes, Preparations, Backed, Remembered, Dead
<1>6. GraphIsTheLiving /\ EvidenceIsOwn /\ EitherOrderIsReported
  BY <1>1, <1>2, <1>3 DEF GraphIsTheLiving, EvidenceIsOwn, EitherOrderIsReported
<1> QED BY <1>4, <1>5, <1>6 DEF Inv

LEMMA NextPreserves == Inv /\ [Next]_vars => Inv'
<1> SUFFICES ASSUME Inv, [Next]_vars PROVE Inv'
  OBVIOUS
<1>1. TypeOK
  BY DEF Inv
<1>2. ASSUME NEW p \in Pid, Created(p) PROVE Inv'
  BY <1>2, CreatePreserves
<1>3. ASSUME NEW p \in Pid, Exited(p) PROVE Inv'
  BY <1>3, ExitPreserves
<1>4. ASSUME NEW p \in Pid, Wrote(p) PROVE Inv'
  BY <1>4, WritePreserves
<1>5. ASSUME NEW p \in Pid, Connected(p) PROVE Inv'
  BY <1>5, ConnectPreserves
<1>6. ASSUME NEW p \in Pid, Called(p) \/ StartedThread(p) PROVE Inv'
  <2>1. /\ p \in Alive /\ now' = now
        /\ \/ \E t \in {p, NoPid} : NoCalling(p, t)
           \/ \E t \in Pid \ {p, NoPid}, call \in {"prepare", "execute", "other"} :
                 Calling(p, t, call)
    BY <1>1, <1>6, CallEffect
  <2> QED BY <2>1, NoCallPreserves, CallPreserves
<1>7. ASSUME NEW p \in Pid, Installed(p) PROVE Inv'
  BY <1>7, InstallPreserves
<1>8. ASSUME Tick PROVE Inv'
  BY <1>8, TickPreserves
<1>9. ASSUME UNCHANGED vars PROVE Inv'
  BY <1>9 DEF vars, Inv, TypeOK, DeadIsEmpty, Contacts, Writes, Preparations, Backed,
              Remembered, GraphIsTheLiving, EvidenceIsOwn, EitherOrderIsReported, Alive
<1> QED BY <1>2, <1>3, <1>4, <1>5, <1>6, <1>7, <1>8, <1>9 DEF Next

\* The inductive invariant of the engine beside a truthful stream of events.
THEOREM Inductive == Spec => []Inv
BY InitHolds, NextPreserves, PTL DEF Spec

\* Type correctness of the engine's maps and of the histories.
THEOREM TypeCorrect == Spec => []TypeOK
<1>1. Inv => TypeOK
  BY DEF Inv
<1> QED BY <1>1, Inductive, PTL

\* The process graph holds exactly the living processes, for any IDs and any reuse
\* of them (correlation.go:126, 134-137).
THEOREM GraphHoldsTheLiving == Spec => []GraphIsTheLiving
<1>1. Inv => GraphIsTheLiving
  BY DEF Inv
<1> QED BY <1>1, Inductive, PTL

\* Joined alerts lean on what the process that has the ID did itself
\* (correlation.go:138-149).
THEOREM EvidenceBelongs == Spec => []EvidenceIsOwn
<1>1. Inv => EvidenceIsOwn
  BY DEF Inv
<1> QED BY <1>1, Inductive, PTL

\* Persistence and contact of one process are joined in either order
\* (correlation.go:528-586).
THEOREM OrderIsImmaterial == Spec => []EitherOrderIsReported
<1>1. Inv => EitherOrderIsReported
  BY DEF Inv
<1> QED BY <1>1, Inductive, PTL

\* The judgement that ChainHasPreparation asks of one alert.
Founded(a) ==
    LET ages == {now - prep[2] : prep \in {q \in own[a.pid].preparations : q[1] = a.target}}
    IN  /\ a.kind = "confirmed" => \E age \in ages : age <= PrimaryWindow
        /\ a.kind = "late" => \E age \in ages : PrimaryWindow < age /\ age <= MaxWindow
        /\ a.kind = "unprepared" => ages = {} \/ \E age \in ages : age > MaxWindow

LEMMA CallFounded ==
    ASSUME Inv, NEW p \in Pid, NEW t \in Pid \ {p, NoPid},
           NEW call \in {"prepare", "execute", "other"}, Calling(p, t, call),
           NEW a \in raised'
    PROVE  Founded(a)
<1> DEFINE made == {q \in own[p].preparations : q[1] = t}
           ages == {now - prep[2] : prep \in made}
<1>1. a = [pid |-> p, kind |-> Kind(p, t), target |-> t]
  BY DEF Calling, Judged
<1>2. a.pid = p /\ a.target = t /\ a.kind = Kind(p, t)
  BY <1>1
<1>3. First(p, t) # Never =>
          /\ now - First(p, t) <= MaxWindow
          /\ <<t, First(p, t)>> \in own[p].preparations
  BY FirstFacts
<1>4. First(p, t) # Never => now - First(p, t) \in ages
  <2>1. <<t, First(p, t)>>[1] = t /\ <<t, First(p, t)>>[2] = First(p, t)
    OBVIOUS
  <2> QED BY <1>3, <2>1
<1>5. First(p, t) = Never => ages = {} \/ \E age \in ages : age > MaxWindow
  <2>1. CASE \E prep \in own[p].preparations : prep[1] = t
    <3> SUFFICES ASSUME First(p, t) = Never PROVE \E age \in ages : age > MaxWindow
      OBVIOUS
    <3>1. PICK prep \in own[p].preparations : prep[1] = t /\ now - prep[2] > MaxWindow
      BY <2>1, FirstFacts
    <3>2. now - prep[2] \in ages
      BY <3>1
    <3> QED BY <3>1, <3>2
  <2>2. CASE ~\E prep \in own[p].preparations : prep[1] = t
    <3>1. ages = {}
      BY <2>2
    <3> QED BY <3>1
  <2> QED BY <2>1, <2>2
<1>6. First(p, t) \in Nat /\ now \in Nat
  BY FirstFacts
<1>7. /\ Kind(p, t) = "confirmed" =>
             First(p, t) # Never /\ now - First(p, t) <= PrimaryWindow
      /\ Kind(p, t) = "late" =>
             First(p, t) # Never /\ PrimaryWindow < now - First(p, t)
      /\ Kind(p, t) = "unprepared" => First(p, t) = Never
  BY <1>6, CorrelationAssumption DEF Kind
<1>8. /\ a.kind = "confirmed" => \E age \in ages : age <= PrimaryWindow
      /\ a.kind = "late" => \E age \in ages : PrimaryWindow < age /\ age <= MaxWindow
      /\ a.kind = "unprepared" => ages = {} \/ \E age \in ages : age > MaxWindow
  <2> HIDE DEF ages
  <2> QED BY <1>2, <1>3, <1>4, <1>5, <1>7
<1> QED BY <1>2, <1>8 DEF Founded

LEMMA StepFounded == Inv /\ [Next]_vars => [\A a \in raised' : Founded(a)]_vars
<1> SUFFICES ASSUME Inv, Next, NEW a \in raised' PROVE Founded(a)
  BY DEF vars
<1>1. TypeOK
  BY DEF Inv
<1>2. ASSUME a.kind \notin {"confirmed", "late", "unprepared"} PROVE Founded(a)
  BY <1>2 DEF Founded
<1>3. ASSUME NEW p \in Pid, Created(p) PROVE Founded(a)
  <2>1. a.kind = "escalation"
    BY <1>1, <1>3, CreateEffect
  <2> QED BY <1>2, <2>1
<1>4. ASSUME NEW p \in Pid, Exited(p) PROVE Founded(a)
  BY <1>1, <1>4, ExitEffect
<1>5. ASSUME NEW p \in Pid, Wrote(p) PROVE Founded(a)
  <2>1. PICK place \in Place :
            raised' = IF place # "other" /\ p \in engine.contacted
                      THEN {[pid |-> p, kind |-> "persistence"]} ELSE {}
    BY <1>1, <1>5, WriteEffect
  <2>2. a = [pid |-> p, kind |-> "persistence"]
    BY <2>1
  <2> QED BY <1>2, <2>2
<1>6. ASSUME NEW p \in Pid, Connected(p) PROVE Founded(a)
  <2>1. PICK dest \in BOOLEAN :
            raised' = IF dest /\ p \in engine.written
                      THEN {[pid |-> p, kind |-> "aftermath"]} ELSE {}
    BY <1>1, <1>6, ConnectEffect
  <2>2. a = [pid |-> p, kind |-> "aftermath"]
    BY <2>1
  <2> QED BY <1>2, <2>2
<1>7. ASSUME NEW p \in Pid, Called(p) \/ StartedThread(p) PROVE Founded(a)
  <2>1. \/ \E t \in {p, NoPid} : NoCalling(p, t)
        \/ \E t \in Pid \ {p, NoPid}, call \in {"prepare", "execute", "other"} :
              Calling(p, t, call)
    BY <1>1, <1>7, CallEffect
  <2>2. ASSUME NEW t \in {p, NoPid}, NoCalling(p, t) PROVE Founded(a)
    BY <2>2 DEF NoCalling
  <2> QED BY <2>1, <2>2, CallFounded
<1>8. ASSUME NEW p \in Pid, Installed(p) PROVE Founded(a)
  <2>1. a.kind \in {"subscription", "method", "task", "service"}
    BY <1>1, <1>8, InstallEffect
  <2> QED BY <1>2, <2>1
<1>9. ASSUME Tick PROVE Founded(a)
  BY <1>9 DEF Tick
<1> QED BY <1>3, <1>4, <1>5, <1>6, <1>7, <1>8, <1>9 DEF Next

\* An injection chain has the preparation, in the window, that its alert claims, and
\* an unprepared one has none that is young enough (correlation.go:350-354, 373).
THEOREM ChainsFounded == Spec => ChainHasPreparation
<1>1. Inv /\ [Next]_vars => [\A a \in raised' : Founded(a)]_vars
  BY StepFounded
<1> QED BY <1>1, Inductive, PTL DEF Spec, ChainHasPreparation, Founded
=============================================================================
