------------------------------ MODULE Processes ------------------------------
(***************************************************************************)
(* The processes of the host, as far as the monitors can observe them;     *)
(* nothing here is code of the repository except the choice of namespaces  *)
(* in isolation_linux.go.  A process is named by its number of birth, an   *)
(* ID by its PID.  A process that ends is reaped at once.                  *)
(***************************************************************************)
EXTENDS Naturals, FiniteSets

CONSTANTS
    Pid,         \* process IDs
    Sample,      \* the ID of the analysed sample
    Outside,     \* the parent of all that the sample did not start
    Namespaces,  \* the sample got namespaces of its own (it was started by root)
    Openers,     \* the IDs whose processes open files
    Connectors,  \* the IDs whose processes connect
    MaxBirths    \* bound on the processes ever started

ASSUME ProcessesAssumption ==
    /\ Sample \in Pid /\ Outside \notin Pid
    /\ Namespaces \in BOOLEAN /\ MaxBirths \in Nat \ {0}
    /\ Openers \subseteq Pid /\ Connectors \subseteq Pid

VARIABLES
    proc,     \* what has each ID
    births,   \* the processes started so far
    used      \* the IDs given out so far

worldVars == <<proc, births, used>>

\* "tree": the sample or a descendant of it; "file": holds a file open that is a
\* persistence location; "conn": has an established connection.
Process == [birth : 0..MaxBirths, ppid : Pid \cup {Outside}, tree : BOOLEAN,
            file : BOOLEAN, conn : BOOLEAN]
Free    == [birth |-> 0, ppid |-> Outside, tree |-> FALSE, file |-> FALSE, conn |-> FALSE]
Living  == {p \in Pid : proc[p].birth # 0}

WorldInit ==
    /\ proc = [p \in Pid |-> IF p = Sample THEN [Free EXCEPT !.birth = 1, !.tree = TRUE] ELSE Free]
    /\ births = 1
    /\ used = {Sample}

\* So far, no ID of an ended process was given to another one.
NoneReused == births = Cardinality(used)

WorldTypeOK ==
    /\ proc \in [Pid -> Process]
    /\ births \in 1..MaxBirths
    /\ used \subseteq Pid

\* A process started by "creator" under the name of "parent".
Spawn(creator, parent, p) ==
    /\ births < MaxBirths
    /\ p \notin Living
    /\ births' = births + 1
    /\ used' = used \cup {p}
    /\ proc' = [proc EXCEPT ![p] =
                   [birth |-> births + 1, ppid |-> parent, file |-> FALSE, conn |-> FALSE,
                    tree |-> creator \in Pid /\ proc[creator].tree]]

Fork(parent, p) == Spawn(parent, parent, p)

\* The first process of a PID namespace adopts its orphans, and takes them with it
\* when it ends; without one, they go to the host's init.
Exit(p) ==
    /\ p \in Living
    /\ LET nsInit == Namespaces /\ proc[p].birth = 1
           adopter(q) == IF Namespaces /\ proc[q].tree THEN Sample ELSE Outside
       IN  proc' = [q \in Pid |->
                       IF q = p \/ (nsInit /\ proc[q].tree) THEN Free
                       ELSE IF q \in Living /\ proc[q].ppid = p
                            THEN [proc[q] EXCEPT !.ppid = adopter(q)]
                            ELSE proc[q]]
    /\ UNCHANGED <<births, used>>

OpenFile(p) ==
    /\ p \in Openers \cap Living
    /\ proc' = [proc EXCEPT ![p].file = TRUE]
    /\ UNCHANGED <<births, used>>

Connect(p) ==
    /\ p \in Connectors \cap Living
    /\ proc' = [proc EXCEPT ![p].conn = TRUE]
    /\ UNCHANGED <<births, used>>

World ==
    \/ \E p \in Pid : \E parent \in Living \cup {Outside} : Fork(parent, p)
    \/ \E p \in Pid : Exit(p) \/ OpenFile(p) \/ Connect(p)

\* The established connections /proc/<p>/net/tcp lists: those of the network
\* namespace p is in, named by the process that holds each.
NetTable(p) ==
    {proc[q].birth : q \in {r \in Living : proc[r].conn /\ (Namespaces => proc[r].tree = proc[p].tree)}}
=============================================================================
