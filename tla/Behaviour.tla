------------------------------ MODULE Behaviour ------------------------------
(***************************************************************************)
(* The correlation engine fed with a truthful stream: every process start  *)
(* and end is reported, in the order of the clock, and so is what the      *)
(* living processes do.  Process IDs are reused.  "own" is the history of  *)
(* the process that has an ID now, against which the alerts are judged.    *)
(***************************************************************************)
EXTENDS Correlation

CONSTANTS
    MaxTime,   \* bound on the clock
    Kinds      \* the types of the events in the stream

ASSUME BehaviourAssumption == MaxTime \in Nat /\ Kinds \subseteq
    {"create", "exit", "write", "connect", "call", "thread", "install"}

VARIABLES
    engine,   \* the CorrelationEngine
    now,      \* the clock
    raised,   \* the alerts of the last event
    own       \* per ID: what the living process did, or Dead

vars == <<engine, now, raised, own>>

Dead  == [alive |-> FALSE, contacted |-> FALSE, lasting |-> FALSE, alerted |-> FALSE,
          preparations |-> {}]
Fresh == [Dead EXCEPT !.alive = TRUE]

Init ==
    /\ engine = NewEngine
    /\ now = 1
    /\ raised = {}
    /\ own = [p \in Pid |-> Dead]

Report(ev) ==
    /\ ev.type \in Kinds
    /\ engine' = ProcessEvent(engine, ev)
    /\ raised' = Alerts(engine, ev)
    /\ UNCHANGED now

Alive == {p \in Pid : own[p].alive}

Created(p) ==
    \E parent \in Alive \cup {NoPid}, level \in {"low", "high"} :
        /\ p \notin Alive
        /\ Report([type |-> "create", pid |-> p, time |-> now, ppid |-> parent,
                   integrity |-> level, user |-> "", traits |-> {}])
        /\ own' = [own EXCEPT ![p] = Fresh]

Exited(p) ==
    /\ p \in Alive
    /\ Report([type |-> "exit", pid |-> p, time |-> now])
    /\ own' = [own EXCEPT ![p] = Dead]

\* An alert that joins a connection and a persistence write.
Joined == {a \in raised' : a.kind \in {"persistence", "aftermath"}} # {}

Wrote(p) ==
    \E place \in Place :
        /\ p \in Alive
        /\ Report([type |-> "write", pid |-> p, time |-> now, place |-> place])
        /\ own' = [own EXCEPT ![p].lasting = @ \/ place = "lasting",
                              ![p].alerted = @ \/ Joined]

Connected(p) ==
    \E dest \in BOOLEAN :
        /\ p \in Alive
        /\ Report([type |-> "connect", pid |-> p, time |-> now, dest |-> dest])
        /\ own' = [own EXCEPT ![p].contacted = @ \/ dest,
                              ![p].alerted = @ \/ Joined]

\* A call on a process, living or not: what the engine hears is the argument.
Called(p) ==
    \E target \in Pid \cup {NoPid}, call \in {"prepare", "execute", "other"} :
        /\ p \in Alive
        /\ Report([type |-> "call", pid |-> p, time |-> now, target |-> target, call |-> call])
        /\ own' = [own EXCEPT ![p].preparations =
                      CASE call = "prepare" /\ target \notin {p, NoPid} -> @ \cup {<<target, now>>}
                        [] call = "execute" -> {prep \in @ : prep[1] # target}
                        [] OTHER -> @]

StartedThread(p) ==
    \E target \in Pid :
        /\ p \in Alive
        /\ Report([type |-> "thread", pid |-> p, time |-> now, target |-> target,
                   call |-> "thread"])
        /\ own' = [own EXCEPT ![p].preparations = {prep \in @ : prep[1] # target}]

Installed(p) ==
    \E what \in {"subscription", "method", "task", "service"} :
        /\ p \in Alive
        /\ Report([type |-> "install", pid |-> p, time |-> now, install |-> what])
        /\ UNCHANGED own

Tick ==
    /\ now < MaxTime
    /\ now' = now + 1
    /\ raised' = {}
    /\ UNCHANGED <<engine, own>>

Next ==
    \/ \E p \in Pid : \/ Created(p) \/ Exited(p) \/ Wrote(p) \/ Connected(p)
                      \/ Called(p) \/ StartedThread(p) \/ Installed(p)
    \/ Tick

Spec == Init /\ [][Next]_vars

-----------------------------------------------------------------------------
TypeOK ==
    /\ engine \in EngineType
    /\ now \in Nat
    /\ own \in [Pid -> [alive : BOOLEAN, contacted : BOOLEAN, lasting : BOOLEAN,
                        alerted : BOOLEAN, preparations : SUBSET (Pid \X Nat)]]

\* The process graph holds one node for every living process and none for an
\* ended one, although an ID is used again: the two maps of the graph agree
\* (correlation.go:126, 134-137).
GraphIsTheLiving ==
    /\ {p \in Pid : engine.pidToKey[p] # Never} = Alive
    /\ \A p \in Alive : \E n \in engine.processes : n.pid = p /\ n.spawn = engine.pidToKey[p]
    /\ \A n \in engine.processes : n.pid \in Alive /\ n.spawn = engine.pidToKey[n.pid]

\* What a process alert leans on was done by the process that has the ID, not by
\* one that had it before (correlation.go:138-149).  The event is part of "own"
\* already.
EvidenceIsOwn ==
    \A a \in raised :
        /\ a.kind \in {"persistence", "aftermath"} => own[a.pid].contacted
        /\ a.kind = "aftermath" => own[a.pid].lasting
        /\ (a.kind \in {"subscription", "task", "service"} /\ a.severity = "critical") =>
               own[a.pid].contacted

\* A "Confirmed Chain" names a preparation by the same process on that target, in
\* the primary window, that no earlier execution used up (correlation.go:350-354,
\* 373); a "late" one, a preparation outside of it and not older than the maximum.
\* Preparations are overlooked only if the first of them is older than the maximum.
ChainHasPreparation ==
    [][\A a \in raised' :
          LET ages == {now - prep[2] : prep \in {q \in own[a.pid].preparations : q[1] = a.target}}
          IN  /\ a.kind = "confirmed" => \E age \in ages : age <= PrimaryWindow
              /\ a.kind = "late" => \E age \in ages : PrimaryWindow < age /\ age <= MaxWindow
              /\ a.kind = "unprepared" => ages = {} \/ \E age \in ages : age > MaxWindow
      ]_vars

\* A process that keeps a lasting persistence write and a connection has been
\* reported, whichever of the two came first (correlation.go:528-586).
EitherOrderIsReported ==
    \A p \in Alive : own[p].lasting /\ own[p].contacted => own[p].alerted
=============================================================================
