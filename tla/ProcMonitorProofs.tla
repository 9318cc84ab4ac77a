-------------------------- MODULE ProcMonitorProofs --------------------------
(***************************************************************************)
(* Theorems about module ProcMonitor, for any number of IDs and births.    *)
(*                                                                         *)
(* Of the poller's sets the invariant says that they never part (Sets); of *)
(* the sets and the host, that as long as no ID comes back whatever is     *)
(* alive at a tracked ID belongs to the sample's tree (Kin).               *)
(***************************************************************************)
EXTENDS ProcMonitor, ProcessesProofs

Sets ==
    /\ monitored \subseteq Pid /\ known \subseteq monitored /\ snapshot \subseteq monitored
    /\ pc \in {"start", "root", "stat"} => monitored = {Sample}
    /\ pc \in {"start", "root"} => snapshot = {}
    /\ pc \notin {"start", "root"} => monitored \subseteq announced
    /\ pc \in {"files", "conns"} => cur \in monitored

\* The poller looks at the sets alone; the host has no part in them.
LEMMA SetsStep == Sets /\ [Next]_vars => Sets'
<1> SUFFICES ASSUME Sets, [Next]_vars  PROVE Sets'
  OBVIOUS
<1> USE ProcessesAssumption DEF Sets
<1>1. CASE UNCHANGED monVars
  BY <1>1 DEF monVars
<1>2. CASE StartProcFallback \/ Stop
  BY <1>2 DEF StartProcFallback, StartEBPFFailsEarly, StartEBPFFailsLate, Stop
<1>3. CASE EmitRoot \/ ReadRoot
  BY <1>3 DEF EmitRoot, EmitProcCreate, ReadRoot
<1>4. CASE LoopEnds \/ BeginTurn \/ ScansDone \/ EndTurn
  BY <1>4 DEF LoopEnds, BeginTurn, ScansDone, EndTurn
<1>5. CASE ReadFiles \/ ScanProcNetTCP
  BY <1>5 DEF ReadFiles, ScanProcNetTCP
<1>6. ASSUME NEW p \in Pid, ScanOne(p)  PROVE Sets'
  BY <1>6 DEF ScanOne, EmitProcCreate
<1>7. ASSUME NEW p \in Pid, CheckExit(p) \/ CheckLiving(p)  PROVE Sets'
  BY <1>7 DEF CheckExit, CheckLiving
<1> QED
  BY <1>1, <1>2, <1>3, <1>4, <1>5, <1>6, <1>7 DEF Next, ProcPollLoop, vars

LEMMA SetsAlways == Spec => []Sets
<1>1. Init => Sets
  BY ProcessesAssumption DEF Init, Sets
<1> QED BY <1>1, SetsStep, PTL DEF Spec

\* Only IDs whose creation was announced are tracked once the loop runs, and an
\* ID is passed over as known only while it is tracked (monitor_linux.go:340-367).
THEOREM NobodyIsOverlooked == Spec => []PassedOverIsTracked
<1>1. Sets => PassedOverIsTracked
  BY DEF Sets, PassedOverIsTracked
<1> QED BY <1>1, SetsAlways, PTL

\* An exit event is sent only for an ID whose creation was announced, and once,
\* however the process ended between two looks at it (monitor_linux.go:363-367).
THEOREM ExitsAreAnnounced == Spec => ExitOfAnnounced
<1>1. Sets => \A p \in Pid : ExitSent(p) => p \in announced
  BY DEF Sets, ExitSent
<1> QED BY <1>1, SetsAlways, PTL DEF ExitOfAnnounced

-----------------------------------------------------------------------------
(* Strangers.                                                              *)

Kin == NoneReused => \A p \in monitored : p \in used /\ (p \in Living => proc[p].tree)

KinInv == WorldInv /\ Sets /\ Kin /\ StrangersUnheard

\* A process is an outsider only under its own ID.
LEMMA InsideNotOutside ==
  ASSUME WorldInv, NEW p \in Living, proc[p].tree  PROVE ~Outsider(proc[p].birth)
  BY DEF WorldInv, Numbered, Outsider

LEMMA KinStep ==
  ASSUME Namespaces \/ Connectors = {}, KinInv, [Next]_vars  PROVE KinInv'
<1> USE ProcessesAssumption
<1>s. Sets'
  BY SetsStep DEF KinInv
<1>1. CASE World /\ UNCHANGED monVars
  <2>1. WorldInv'
    BY <1>1, WorldStep DEF KinInv
  <2>2. Kin'
    <3> SUFFICES ASSUME NoneReused', NEW p \in monitored
                 PROVE  p \in used' /\ (p \in Living' => proc'[p].tree)
      BY <1>1 DEF Kin, monVars
    <3>1. p \in used /\ (p \in Living => proc[p].tree)
      BY <1>1, WorldKeeps DEF KinInv, Kin
    <3> QED BY <1>1, <3>1, WorldKeeps DEF KinInv
  <2>3. StrangersUnheard'
    BY <1>1, WorldKeeps DEF KinInv, StrangersUnheard, monVars
  <2> QED BY <1>s, <2>1, <2>2, <2>3 DEF KinInv
<1>2. CASE UNCHANGED worldVars /\ monitored' \subseteq monitored /\ UNCHANGED strangers
  <2>1. WorldInv'
    BY <1>2 DEF KinInv, worldVars, WorldInv, WorldTypeOK, Numbered, Related, Wired, Living
  <2>2. Kin' /\ StrangersUnheard'
    BY <1>2 DEF KinInv, Kin, StrangersUnheard, worldVars, NoneReused, Living
  <2> QED BY <1>s, <2>1, <2>2 DEF KinInv
<1>3. ASSUME NEW p \in Pid, ScanOne(p)  PROVE KinInv'
  <2>1. UNCHANGED <<worldVars, strangers>>
    BY <1>3 DEF ScanOne
  <2>2. CASE p \in Living /\ proc[p].ppid \in monitored /\ monitored' = monitored \cup {p}
    <3>1. NoneReused => p \in used /\ proc[p].tree
      BY <2>2 DEF KinInv, Kin, Sets, WorldInv, Numbered, Related
    <3>2. WorldInv'
      BY <2>1 DEF KinInv, worldVars, WorldInv, WorldTypeOK, Numbered, Related, Wired, Living
    <3>3. Kin' /\ StrangersUnheard'
      BY <2>1, <2>2, <3>1 DEF KinInv, Kin, StrangersUnheard, worldVars, NoneReused, Living
    <3> QED BY <1>s, <3>2, <3>3 DEF KinInv
  <2> QED BY <1>2, <1>3, <2>1, <2>2 DEF ScanOne
<1>4. CASE ReadFiles \/ ScanProcNetTCP
  <2>1. UNCHANGED <<worldVars, monitored>> /\ cur \in monitored /\ cur \in Pid
    BY <1>4 DEF ReadFiles, ScanProcNetTCP, KinInv, Sets
  <2>2. ASSUME NoneReused, ReadFiles  PROVE ~strangers'
    <3>1. ~Outsider(proc[cur].birth)
      <4>1. CASE cur \in Living
        BY <2>1, <2>2, <4>1, InsideNotOutside DEF KinInv, Kin
      <4>2. CASE cur \notin Living
        BY <2>1, <4>2 DEF Outsider, Living
      <4> QED BY <4>1, <4>2
    <3> QED BY <2>2, <3>1 DEF ReadFiles, KinInv, StrangersUnheard
  <2>3. ASSUME NoneReused, ScanProcNetTCP  PROVE ~strangers'
    <3>1. ASSUME cur \in Living, NEW c \in NetTable(cur)  PROVE ~Outsider(c)
      <4>1. PICK q \in Living : /\ c = proc[q].birth /\ proc[q].conn
                                /\ Namespaces => proc[q].tree = proc[cur].tree
        BY <3>1 DEF NetTable
      <4>2. q \in Connectors
        BY <4>1 DEF KinInv, WorldInv, Wired, Living
      <4>3. proc[cur].tree
        BY <2>1, <2>3, <3>1 DEF KinInv, Kin
      <4>4. proc[q].tree
        BY <4>1, <4>2, <4>3
      <4> QED BY <4>1, <4>4, InsideNotOutside DEF KinInv
    <3> QED BY <2>3, <3>1 DEF ScanProcNetTCP, KinInv, StrangersUnheard
  <2>4. WorldInv'
    BY <2>1 DEF KinInv, worldVars, WorldInv, WorldTypeOK, Numbered, Related, Wired, Living
  <2>5. Kin'
    BY <2>1 DEF KinInv, Kin, worldVars, NoneReused, Living
  <2>6. StrangersUnheard'
    BY <1>4, <2>1, <2>2, <2>3 DEF StrangersUnheard, worldVars, NoneReused
  <2> QED BY <1>s, <2>4, <2>5, <2>6 DEF KinInv
<1> QED
  BY <1>1, <1>2, <1>3, <1>4
  DEF Next, vars, monVars, StartProcFallback, Stop, ProcPollLoop, EmitRoot, ReadRoot, LoopEnds,
      BeginTurn, ScansDone, EndTurn, CheckExit, CheckLiving

\* As long as no ID is used again, no file or connection of a process outside of
\* the sample's tree is reported, whatever starts and ends between two looks at
\* /proc.  Without a namespace of its own, /proc/<pid>/net/tcp lists everybody's
\* connections: then it holds as long as there are none.
THEOREM StrangersStayUnheard ==
  ASSUME Namespaces \/ Connectors = {}  PROVE Spec => []StrangersUnheard
<1>1. Init => KinInv
  <2>1. Init => WorldInv
    BY WorldInitially DEF Init
  <2>2. Init => Sets /\ Kin /\ StrangersUnheard
    <3>1. WorldInit => Sample \in used /\ proc[Sample].tree
      <4>1. WorldInit => proc[Sample] = [Free EXCEPT !.birth = 1, !.tree = TRUE]
        BY ProcessesAssumption DEF WorldInit
      <4>2. [Free EXCEPT !.birth = 1, !.tree = TRUE].tree
        BY DEF Free
      <4> QED BY <4>1, <4>2 DEF WorldInit
    <3> QED BY <3>1, ProcessesAssumption DEF Init, Sets, Kin, StrangersUnheard
  <2> QED BY <2>1, <2>2 DEF KinInv
<1>2. KinInv /\ [Next]_vars => KinInv'
  BY KinStep
<1>3. KinInv => StrangersUnheard
  BY DEF KinInv
<1> QED BY <1>1, <1>2, <1>3, PTL DEF Spec

-----------------------------------------------------------------------------
(* The fallback.                                                           *)

\* If eBPF fails before its programs are loaded, or not at all, the poller it falls
\* back to ends only when somebody stops it: a late failure is all that run
\* proc_late's counterexample can rest on (monitor_linux.go:70).
THEOREM EndsOnlyIfStopped == ASSUME ~LateFailures  PROVE Spec => []PollsUntilStopped
<1> DEFINE Inv == ctx \in {"live", "stopped"} /\ PollsUntilStopped
<1>1. Init => Inv
  BY DEF Init, PollsUntilStopped
<1>2. Inv /\ [Next]_vars => Inv'
  <2> SUFFICES ASSUME Inv, [Next]_vars  PROVE Inv'
    OBVIOUS
  <2>1. CASE UNCHANGED <<ctx, pc>>
    BY <2>1 DEF PollsUntilStopped
  <2>2. CASE UNCHANGED ctx /\ pc' # "ended"
    BY <2>2 DEF PollsUntilStopped
  <2>3. CASE LoopEnds
    BY <2>3 DEF LoopEnds, PollsUntilStopped
  <2>4. CASE Stop
    BY <2>4 DEF Stop, PollsUntilStopped
  <2>5. UNCHANGED <<ctx, pc>> \/ (UNCHANGED ctx /\ pc' # "ended") \/ LoopEnds \/ Stop
    BY DEF Next, vars, monVars, StartProcFallback, StartEBPFFailsEarly, StartEBPFFailsLate,
       ProcPollLoop, EmitRoot, ReadRoot, BeginTurn, ScansDone, EndTurn, ReadFiles,
       ScanProcNetTCP, ScanOne, CheckExit, CheckLiving
  <2> QED BY <2>1, <2>2, <2>3, <2>4, <2>5
<1>3. Inv => PollsUntilStopped
  OBVIOUS
<1> QED BY <1>1, <1>2, <1>3, PTL DEF Spec
=============================================================================
