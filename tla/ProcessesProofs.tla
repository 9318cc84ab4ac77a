--------------------------- MODULE ProcessesProofs ---------------------------
(***************************************************************************)
(* What holds of the processes of the host in every behaviour, for any     *)
(* number of IDs and births: the lemmas the proofs about the Linux         *)
(* monitors rest on.                                                       *)
(***************************************************************************)
EXTENDS Processes, FiniteSetTheorems, TLAPS

\* IDs in use were given out, and no more of them than processes started.
Numbered ==
    /\ IsFiniteSet(used) /\ Cardinality(used) <= births
    /\ Living \subseteq used
    /\ \A p \in Pid : proc[p].birth <= births
    /\ \A p, q \in Living : proc[p].birth = proc[q].birth => p = q

\* A parent is alive and in the tree with its children; the sample is in the
\* tree, and with a namespace nothing of the tree outlives it.
Related ==
    /\ \A p \in Living : proc[p].ppid \in Pid =>
           proc[p].ppid \in Living /\ proc[p].tree = proc[proc[p].ppid].tree
    /\ \A p \in Pid : proc[p].birth = 1 => p = Sample /\ proc[p].tree
    /\ Namespaces => \A p \in Living : proc[p].tree => proc[Sample].birth = 1

\* Only what may connect has a connection.
Wired == \A p \in Pid : proc[p].conn => p \in Connectors

WorldInv == WorldTypeOK /\ Numbered /\ Related /\ Wired

\* Only the sample runs.
LEMMA WorldInitially == WorldInit => WorldInv
<1> SUFFICES ASSUME WorldInit  PROVE WorldInv
  OBVIOUS
<1> USE ProcessesAssumption
<1>0. Free \in Process /\ Free.birth = 0 /\ Free.ppid = Outside /\ ~Free.conn
  BY DEF Free, Process
<1> DEFINE first == [Free EXCEPT !.birth = 1, !.tree = TRUE]
<1>f. first \in Process /\ first.birth = 1 /\ first.ppid = Outside /\ first.tree /\ ~first.conn
  <2>1. 1 \in 0..MaxBirths
    OBVIOUS
  <2>2. first.birth = 1 /\ first.ppid = Free.ppid /\ first.tree = TRUE /\ first.conn = Free.conn
    BY <1>0 DEF Process
  <2>3. first \in Process
    BY <1>0, <2>1 DEF Process
  <2> QED BY <1>0, <2>2, <2>3
<1> HIDE DEF first
<1>1. \A p \in Pid : proc[p] = IF p = Sample THEN first ELSE Free
  BY DEF WorldInit, first
<1>2. Living = {Sample}
  BY <1>0, <1>f, <1>1 DEF Living
<1>3. WorldTypeOK
  <2>1. \A p \in Pid : proc[p] \in Process
    BY <1>0, <1>f, <1>1
  <2>2. proc = [p \in Pid |-> proc[p]]
    BY DEF WorldInit
  <2> QED BY <2>1, <2>2 DEF WorldInit, WorldTypeOK
<1>4. IsFiniteSet(used) /\ Cardinality(used) = 1
  BY FS_Singleton DEF WorldInit
<1>5. Numbered
  BY <1>0, <1>f, <1>1, <1>2, <1>4 DEF WorldInit, Numbered
<1>6. Related /\ Wired
  BY <1>0, <1>f, <1>1, <1>2 DEF Related, Wired
<1> QED BY <1>3, <1>5, <1>6 DEF WorldInv

\* The one process a step starts has a birth of its own.
LEMMA SpawnedAnew ==
  ASSUME WorldInv, NEW creator, NEW parent \in Living \cup {Outside}, NEW p \in Pid,
         Spawn(creator, parent, p)
  PROVE  /\ proc'[p] = [birth |-> births + 1, ppid |-> parent, file |-> FALSE, conn |-> FALSE,
                        tree |-> creator \in Pid /\ proc[creator].tree]
         /\ \A q \in Pid : q # p => proc'[q] = proc[q]
         /\ p \notin Living /\ Living' = Living \cup {p}
         /\ births' = births + 1 /\ used' = used \cup {p}
<1>1. proc \in [Pid -> Process] /\ births \in Nat
  BY ProcessesAssumption DEF WorldInv, WorldTypeOK
<1>2. proc'[p].birth = births + 1 /\ \A q \in Pid : q # p => proc'[q] = proc[q]
  BY <1>1 DEF Spawn
<1>3. Living' = Living \cup {p}
  BY <1>1, <1>2 DEF Living
<1> QED BY <1>1, <1>2, <1>3 DEF Spawn

\* The count of IDs keeps up with the births only if the new one is fresh.
LEMMA UsedCounts ==
  ASSUME WorldInv, NEW p \in Pid, births' = births + 1, used' = used \cup {p}
  PROVE  /\ IsFiniteSet(used') /\ Cardinality(used') <= births'
         /\ NoneReused' => NoneReused /\ p \notin used
<1>1. IsFiniteSet(used) /\ Cardinality(used) <= births /\ births \in Nat /\ Cardinality(used) \in Nat
  BY FS_CardinalityType, ProcessesAssumption DEF WorldInv, Numbered, WorldTypeOK
<1>2. IsFiniteSet(used') /\ Cardinality(used') = IF p \in used THEN Cardinality(used)
                                                            ELSE Cardinality(used) + 1
  BY <1>1, FS_AddElement
<1> QED BY <1>1, <1>2 DEF NoneReused

\* Whatever the host does to its processes.
LEMMA WorldStep == ASSUME WorldInv, World  PROVE WorldInv'
<1> USE ProcessesAssumption
<1>t. /\ proc \in [Pid -> Process] /\ births \in Nat /\ births \in 1..MaxBirths
      /\ Numbered /\ Related /\ Wired /\ used \subseteq Pid
  BY DEF WorldInv, WorldTypeOK
<1>1. ASSUME NEW p \in Pid, NEW parent \in Living \cup {Outside}, Fork(parent, p)  PROVE WorldInv'
  <2>1. /\ proc'[p] = [birth |-> births + 1, ppid |-> parent, file |-> FALSE, conn |-> FALSE,
                       tree |-> parent \in Pid /\ proc[parent].tree]
        /\ \A q \in Pid : q # p => proc'[q] = proc[q]
        /\ p \notin Living /\ Living' = Living \cup {p}
        /\ births' = births + 1 /\ used' = used \cup {p}
    BY <1>1, SpawnedAnew DEF Fork
  <2>2. births < MaxBirths /\ parent \in Pid \cup {Outside} /\ (parent \in Pid => parent \in Living)
    BY <1>1 DEF Fork, Spawn, Living
  <2>3. WorldTypeOK'
    <3>1. proc'[p] \in Process
      BY <1>t, <2>1, <2>2 DEF Process
    <3>2. DOMAIN proc' = Pid /\ proc' = [q \in Pid |-> proc'[q]]
      BY <1>1, <1>t DEF Fork, Spawn
    <3>3. proc' \in [Pid -> Process]
      BY <1>t, <2>1, <3>1, <3>2
    <3> QED BY <1>t, <2>1, <2>2, <3>3 DEF WorldTypeOK
  <2>4. Numbered'
    <3>1. IsFiniteSet(used') /\ Cardinality(used') <= births'
      BY <2>1, UsedCounts
    <3>2. Living' \subseteq used'
      BY <1>t, <2>1 DEF Numbered
    <3>3. \A q \in Pid : proc'[q].birth <= births'
      BY <1>t, <2>1 DEF Numbered, Process
    <3>4. ASSUME NEW q \in Living', NEW r \in Living', proc'[q].birth = proc'[r].birth
          PROVE  q = r
      <4>1. Living \subseteq Pid
        BY DEF Living
      <4> QED BY <1>t, <2>1, <3>4, <4>1 DEF Numbered, Process
    <3> QED BY <3>1, <3>2, <3>3, <3>4 DEF Numbered
  <2>5. Related'
    <3>1. \A q \in Pid : proc'[q].birth = 1 => q = Sample /\ proc'[q].tree
      BY <1>t, <2>1 DEF Related
    <3>2. ASSUME NEW q \in Living', proc'[q].ppid \in Pid
          PROVE  proc'[q].ppid \in Living' /\ proc'[q].tree = proc'[proc'[q].ppid].tree
      <4>1. CASE q = p
        <5>1. /\ proc'[p].ppid = parent
              /\ proc'[p].tree = (parent \in Pid /\ proc[parent].tree)
          BY <2>1
        <5>2. parent \in Pid /\ parent \in Living /\ parent # p
          BY <2>1, <2>2, <3>2, <4>1, <5>1
        <5>3. proc'[parent] = proc[parent]
          BY <2>1, <5>2
        <5>4. proc[parent].tree \in BOOLEAN
          BY <1>t, <5>2 DEF Process
        <5>5. (parent \in Pid /\ proc[parent].tree) = proc[parent].tree
          BY <5>2, <5>4
        <5>6. proc'[p].tree = proc'[parent].tree
          BY <5>1, <5>3, <5>5
        <5> QED BY <2>1, <4>1, <5>1, <5>2, <5>6
      <4>2. CASE q # p
        <5>1. q \in Living /\ proc'[q] = proc[q]
          BY <2>1, <4>2 DEF Living
        <5>2. proc[q].ppid \in Living /\ proc[q].tree = proc[proc[q].ppid].tree
          BY <1>t, <3>2, <5>1 DEF Related
        <5>3. proc'[proc[q].ppid] = proc[proc[q].ppid]
          BY <2>1, <5>2 DEF Living
        <5> QED BY <2>1, <5>1, <5>2, <5>3
      <4> QED BY <4>1, <4>2
    <3>3. ASSUME Namespaces, NEW q \in Living', proc'[q].tree  PROVE proc'[Sample].birth = 1
      <4>1. proc[Sample].birth = 1
        <5>1. CASE q = p
          <6>1. parent \in Living /\ proc[parent].tree
            <7>1. proc'[p].tree = (parent \in Pid /\ proc[parent].tree)
              BY <2>1
            <7> QED BY <2>2, <3>3, <5>1, <7>1
          <6> QED BY <1>t, <3>3, <6>1 DEF Related
        <5>2. CASE q # p
          <6>1. q \in Living /\ proc'[q] = proc[q]
            BY <2>1, <5>2 DEF Living
          <6> QED BY <1>t, <3>3, <6>1 DEF Related
        <5> QED BY <5>1, <5>2
      <4> QED BY <1>t, <2>1, <4>1 DEF Living
    <3> QED BY <3>1, <3>2, <3>3 DEF Related
  <2>6. Wired'
    BY <1>t, <2>1 DEF Wired
  <2> QED BY <2>3, <2>4, <2>5, <2>6 DEF WorldInv
<1>2. ASSUME NEW p \in Pid, Exit(p)  PROVE WorldInv'
  <2> DEFINE gone(q) == q = p \/ (Namespaces /\ proc[p].birth = 1 /\ proc[q].tree)
             orphan(q) == ~gone(q) /\ q \in Living /\ proc[q].ppid = p
             adopter(q) == IF Namespaces /\ proc[q].tree THEN Sample ELSE Outside
  <2>1. /\ \A q \in Pid : proc'[q] = IF gone(q) THEN Free
                                    ELSE IF orphan(q) THEN [proc[q] EXCEPT !.ppid = adopter(q)]
                                    ELSE proc[q]
        /\ proc' = [q \in Pid |-> proc'[q]] /\ UNCHANGED <<births, used>> /\ p \in Living
    BY <1>2 DEF Exit
  <2>2. \A q \in Pid : proc'[q] \in Process
    <3>1. Free \in Process
      BY DEF Process, Free
    <3>2. ASSUME NEW q \in Pid  PROVE [proc[q] EXCEPT !.ppid = adopter(q)] \in Process
      <4>1. adopter(q) \in Pid \cup {Outside} /\ proc[q] \in Process
        BY <1>t
      <4> HIDE DEF adopter
      <4> QED BY <4>1 DEF Process
    <3> HIDE DEF gone, orphan, adopter
    <3> QED BY <1>t, <2>1, <3>1, <3>2
  <2>3. WorldTypeOK'
    BY <1>t, <2>1, <2>2 DEF WorldTypeOK
  <2>4. /\ \A q \in Pid : gone(q) => proc'[q].birth = 0 /\ ~proc'[q].conn
        /\ \A q \in Pid : ~gone(q) => /\ proc'[q].birth = proc[q].birth
                                      /\ proc'[q].tree = proc[q].tree
                                      /\ proc'[q].conn = proc[q].conn
                                      /\ proc'[q].ppid = IF orphan(q) THEN adopter(q) ELSE proc[q].ppid
    BY <1>t, <2>1 DEF Free, Process
  <2>5. Living' = {q \in Living : ~gone(q)}
    BY <2>4 DEF Living
  <2>6. Numbered'
    BY <1>t, <2>1, <2>4, <2>5 DEF Numbered, Living
  <2>7. Related'
    <3>1. \A q \in Pid : proc'[q].birth = 1 => q = Sample /\ proc'[q].tree
      BY <1>t, <2>4 DEF Related
    <3>2. ASSUME Namespaces, NEW q \in Living', proc'[q].tree  PROVE proc'[Sample].birth = 1
      <4>1. q \in Living /\ ~gone(q) /\ proc[q].tree
        BY <2>4, <2>5, <3>2 DEF Living
      <4>2. proc[Sample].birth = 1 /\ proc[Sample].tree
        BY <1>t, <3>2, <4>1 DEF Related
      <4>3. ~gone(Sample)
        BY <3>2, <4>1, <4>2
      <4> QED BY <2>4, <4>2, <4>3
    <3>3. ASSUME NEW q \in Living', proc'[q].ppid \in Pid
          PROVE  proc'[q].ppid \in Living' /\ proc'[q].tree = proc'[proc'[q].ppid].tree
      <4>1. q \in Living /\ q \in Pid /\ ~gone(q)
        BY <2>5 DEF Living
      <4>2. CASE orphan(q)
        <5>1. Namespaces /\ proc[q].tree /\ proc'[q].ppid = Sample
          BY <2>4, <3>3, <4>1, <4>2
        <5>2. proc[Sample].birth = 1 /\ proc[Sample].tree
          BY <1>t, <4>1, <5>1 DEF Related
        <5>3. ~gone(Sample)
          BY <4>1, <5>1, <5>2
        <5>4. Sample \in Living /\ proc'[Sample].tree /\ proc'[q].tree
          BY <2>4, <4>1, <5>1, <5>2, <5>3 DEF Living
        <5> QED BY <2>5, <5>1, <5>3, <5>4
      <4>3. CASE ~orphan(q)
        <5>1. proc'[q].ppid = proc[q].ppid /\ proc[q].ppid # p
          BY <2>4, <4>1, <4>3
        <5>2. proc[q].ppid \in Living /\ proc[q].tree = proc[proc[q].ppid].tree
          BY <1>t, <3>3, <4>1, <5>1 DEF Related
        <5>3. ~gone(proc[q].ppid)
          BY <4>1, <5>1, <5>2
        <5> QED BY <2>4, <2>5, <3>3, <4>1, <5>1, <5>2, <5>3
      <4> QED BY <4>2, <4>3
    <3> QED BY <3>1, <3>2, <3>3 DEF Related
  <2>8. Wired'
    BY <1>t, <2>4 DEF Wired
  <2> QED BY <2>3, <2>6, <2>7, <2>8 DEF WorldInv
<1>3. ASSUME NEW p \in Pid, OpenFile(p) \/ Connect(p)  PROVE WorldInv'
  <2>1. /\ \A q \in Pid : /\ proc'[q].birth = proc[q].birth /\ proc'[q].ppid = proc[q].ppid
                          /\ proc'[q].tree = proc[q].tree
                          /\ proc'[q].conn => proc[q].conn \/ q \in Connectors
        /\ proc' \in [Pid -> Process] /\ UNCHANGED <<births, used>>
    <3>1. proc[p] \in Process /\ \A q \in Pid : q # p => proc'[q] = proc[q]
      BY <1>3, <1>t DEF OpenFile, Connect
    <3>2. /\ [proc[p] EXCEPT !.file = TRUE] \in Process /\ [proc[p] EXCEPT !.conn = TRUE] \in Process
      BY <3>1 DEF Process
    <3>3. \/ proc' = [proc EXCEPT ![p] = [proc[p] EXCEPT !.file = TRUE]]
          \/ p \in Connectors /\ proc' = [proc EXCEPT ![p] = [proc[p] EXCEPT !.conn = TRUE]]
      BY <1>3 DEF OpenFile, Connect
    <3>4. /\ proc'[p].birth = proc[p].birth /\ proc'[p].ppid = proc[p].ppid
          /\ proc'[p].tree = proc[p].tree
          /\ proc'[p].conn => proc[p].conn \/ p \in Connectors
      BY <1>t, <3>1, <3>3 DEF Process
    <3>5. proc' \in [Pid -> Process] /\ UNCHANGED <<births, used>>
      BY <1>3, <1>t, <3>2, <3>3 DEF OpenFile, Connect
    <3> QED BY <3>1, <3>4, <3>5
  <2>2. Living' = Living
    BY <2>1 DEF Living
  <2>3. Numbered'
    BY <1>t, <2>1, <2>2 DEF Numbered, Living
  <2>4. Related'
    BY <1>t, <2>1, <2>2 DEF Related, Living
  <2> QED BY <1>t, <2>1, <2>3, <2>4 DEF WorldInv, WorldTypeOK, Wired
<1> QED BY <1>1, <1>2, <1>3 DEF World

\* What a step of the host leaves as it was: the process at an ID that was and
\* is in use, and, as long as no ID comes back, the freedom of the new one.
LEMMA WorldKeeps ==
  ASSUME WorldInv, World
  PROVE  /\ \A p \in Living' : p \in Living => proc'[p].birth = proc[p].birth
                                              /\ proc'[p].tree = proc[p].tree
         /\ used \subseteq used' /\ (NoneReused' => NoneReused)
         /\ NoneReused' => \A p \in Living' : p \in Living \/ p \notin used
<1>t. proc \in [Pid -> Process]
  BY DEF WorldInv, WorldTypeOK
<1>1. ASSUME NEW p \in Pid, NEW parent \in Living \cup {Outside}, Fork(parent, p)
      PROVE  /\ \A q \in Living' : q \in Living => proc'[q] = proc[q]
             /\ used \subseteq used' /\ (NoneReused' => NoneReused)
             /\ NoneReused' => \A q \in Living' : q \in Living \/ q \notin used
  <2>1. /\ proc'[p] = [birth |-> births + 1, ppid |-> parent, file |-> FALSE, conn |-> FALSE,
                       tree |-> parent \in Pid /\ proc[parent].tree]
        /\ \A q \in Pid : q # p => proc'[q] = proc[q]
        /\ p \notin Living /\ Living' = Living \cup {p}
        /\ births' = births + 1 /\ used' = used \cup {p}
    BY <1>1, SpawnedAnew DEF Fork
  <2>2. NoneReused' => NoneReused /\ p \notin used
    BY <2>1, UsedCounts
  <2> QED BY <2>1, <2>2 DEF Living
<1>2. ASSUME NEW p \in Pid, Exit(p) \/ OpenFile(p) \/ Connect(p)
      PROVE  /\ UNCHANGED <<births, used>>
             /\ \A q \in Living' : /\ q \in Living /\ proc'[q].birth = proc[q].birth
                                   /\ proc'[q].tree = proc[q].tree
  BY <1>2, <1>t DEF Exit, OpenFile, Connect, Living, Process, Free
<1> QED BY <1>1, <1>2 DEF World, NoneReused
=============================================================================
