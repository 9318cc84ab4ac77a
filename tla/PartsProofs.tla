----------------------------- MODULE PartsProofs -----------------------------
(***************************************************************************)
(* Theorems about the parts beside the orchestrator: the job queue's mutex *)
(* and condition variable, for any number of goroutines, the store's key,  *)
(* the C API, the Job Objects, and the two modes of the command, which run *)
(* on top of the orchestrator and keep its invariant (OrchestratorProofs). *)
(* Each section has the inductive invariant of its part, the step that     *)
(* keeps it, and the property of the part that it gives.                   *)
(***************************************************************************)
EXTENDS Parts, MCQueue, OrchestratorProofs

-----------------------------------------------------------------------------
(* The queue: JobQueue as MCQueue instantiates it (Slice).                 *)

Goroutine == Pusher \cup Popper

(* sync.Mutex: whoever is between a Lock and its Unlock holds q.mu.        *)
QMutex ==
    \A t \in Goroutine :
        at[t] \in {"locked", "check", "appended", "unlock", "taking"} => mu = t

(* What Pop saw before it takes the first job still holds, because nobody   *)
(* else has had the mutex since.                                            *)
QTaking == \A t \in Goroutine : at[t] = "taking" => jobs # <<>>

(* Only poppers get to where Pop is.                                        *)
QPop == \A t \in Goroutine : at[t] \in {"check", "taking", "asleep"} => t \in Popper

QInv ==
    /\ Slice!TypeOK
    /\ QPop
    /\ QMutex
    /\ QTaking
    /\ PopNeverFails
    /\ NoLostWakeup

LEMMA QInit == Slice!Init => QInv
<1> SUFFICES ASSUME Slice!Init  PROVE QInv
  OBVIOUS
<1>1. Slice!TypeOK
  <2>1. jobs \in Seq(Pusher) /\ popped \in Seq(Pusher)
    BY DEF Slice!Init
  <2>2. at \in [Pusher \cup Popper -> {"start"}]
    BY DEF Slice!Init
  <2> QED
    BY <2>1, <2>2 DEF Slice!Init, Slice!TypeOK
<1>2. QPop /\ QMutex /\ QTaking
  BY DEF Slice!Init, QPop, QMutex, QTaking, Goroutine
<1>3. PopNeverFails
  BY DEF Slice!Init, PopNeverFails, Slice!PopNeverFails
<1>4. NoLostWakeup
  BY DEF Slice!Init, NoLostWakeup, Slice!NoLostWakeup
<1> QED
  BY <1>1, <1>2, <1>3, <1>4 DEF QInv

(* One step per action; each of them says where t is before and after, so   *)
(* that the mutex decides about everybody else.                             *)
LEMMA QStep == QInv /\ [Slice!Next]_(Slice!vars) => QInv'
<1> SUFFICES ASSUME QInv, [Slice!Next]_(Slice!vars)  PROVE QInv'
  OBVIOUS
<1> USE NobodyAssumption, PopperAssumption
<1> USE DEF QInv, QPop, QMutex, QTaking, PopNeverFails, NoLostWakeup, Goroutine,
            Slice!TypeOK, Slice!PopNeverFails, Slice!NoLostWakeup, Slice!Goto
<1>1. ASSUME NEW t \in Goroutine, Slice!Lock(t)  PROVE QInv'
  BY <1>1 DEF Slice!Lock
<1>2. ASSUME NEW t \in Goroutine, Slice!Unlock(t)  PROVE QInv'
  BY <1>2 DEF Slice!Unlock
<1>3. ASSUME NEW t \in Goroutine, Slice!PushAppend(t)  PROVE QInv'
  BY <1>3 DEF Slice!PushAppend
<1>4. ASSUME NEW t \in Goroutine, Slice!PushSignal(t)  PROVE QInv'
  BY <1>4 DEF Slice!PushSignal
<1>5. ASSUME NEW t \in Goroutine, Slice!PopCheck(t)  PROVE QInv'
  BY <1>5 DEF Slice!PopCheck
<1>6. ASSUME NEW t \in Goroutine, Slice!PopWakes(t)  PROVE QInv'
  BY <1>6 DEF Slice!PopWakes
<1>7. ASSUME NEW t \in Goroutine, Slice!PopTake(t)  PROVE QInv'
  <2>1. jobs # <<>> /\ at' = [at EXCEPT ![t] = "unlock"] /\ jobs' = Tail(jobs)
        /\ popped' = Append(popped, Head(jobs)) /\ UNCHANGED <<mu, notify, failed>>
    BY <1>7 DEF Slice!PopTake
  <2>2. \A u \in Goroutine : at'[u] = IF u = t THEN "unlock" ELSE at[u]
    BY <2>1
  <2>3. Slice!TypeOK'
    BY <2>1
  <2>4. QPop' /\ QMutex'
    BY <1>7, <2>1, <2>2 DEF Slice!PopTake
  <2>5. QTaking'
    BY <1>7, <2>1 DEF Slice!PopTake
  <2>6. PopNeverFails'
    BY <2>1
  <2>7. NoLostWakeup'
    BY <1>7, <2>1 DEF Slice!PopTake
  <2> QED
    BY <2>3, <2>4, <2>5, <2>6, <2>7
<1>8. CASE UNCHANGED Slice!vars
  BY <1>8 DEF Slice!vars
<1> QED
  BY <1>1, <1>2, <1>3, <1>4, <1>5, <1>6, <1>7, <1>8 DEF Slice!Next, Slice!Step

(* QInv holds throughout.                                                   *)
LEMMA QAlways == Slice!Spec => []QInv
  BY QInit, QStep, PTL DEF Slice!Spec


\* Pop of queue.go never returns its error, whatever the interleaving: the
\* re-check after every wake-up is under the mutex that the take needs.
THEOREM PopReturnsAJob == Slice!Spec => []PopNeverFails
  BY QAlways, PTL DEF QInv

\* The safety half of "every job pushed is popped": a job in the slice always
\* has a goroutine that is bound to come for it (Push signals after it appends,
\* Wait joins the list before it unlocks).
THEOREM WakeupsAreKept == Slice!Spec => []NoLostWakeup
  BY QAlways, PTL DEF QInv

\* The slice under its mutex implements the Fifo that Orchestrator uses: the
\* append is a Put, the cut of the slice a Take, and every other step a stutter.
THEOREM QueueIsFifo == Slice!Spec => QueueSpec
<1>1. Slice!Init => Slice!Queue!Init
  BY DEF Slice!Init, Slice!Queue!Init
<1>2. QInv /\ [Slice!Next]_(Slice!vars) => [Slice!Queue!Next]_<<jobs, popped>>
  <2> SUFFICES ASSUME QInv, Slice!Next  PROVE [Slice!Queue!Next]_<<jobs, popped>>
    BY DEF Slice!vars
  <2>1. ASSUME NEW t \in Goroutine, Slice!PushAppend(t)  PROVE Slice!Queue!Next
    BY <2>1 DEF Slice!PushAppend, Slice!Queue!Next, Slice!Queue!Put
  <2>2. ASSUME NEW t \in Goroutine, Slice!PopTake(t)  PROVE Slice!Queue!Next
    BY <2>2 DEF QInv, QTaking, Slice!PopTake, Slice!Queue!Next, Slice!Queue!Take
  <2>3. ASSUME NEW t \in Goroutine,
               Slice!Lock(t) \/ Slice!Unlock(t) \/ Slice!PushSignal(t)
               \/ Slice!PopCheck(t) \/ Slice!PopWakes(t)
        PROVE  UNCHANGED <<jobs, popped>>
    BY <2>3 DEF Slice!Lock, Slice!Unlock, Slice!PushSignal, Slice!PopCheck, Slice!PopWakes
  <2> QED
    BY <2>1, <2>2, <2>3 DEF Slice!Next, Slice!Step, Goroutine
<1> QED
  BY QAlways, <1>1, <1>2, PTL DEF Slice!Spec, QueueSpec, Slice!QueueSpec, Slice!Queue!Spec

-----------------------------------------------------------------------------
(* Storage.  An open store holds the key of the keys table, and so does     *)
(* every row that a store of this version saved; one that an older version *)
(* saved has no HMAC.                                                       *)

DbType ==
    /\ keyRow \in Nat /\ nextKey \in Nat /\ keyRow < nextKey
    /\ open \in [Store -> {"closed", "jobs", "events", "hmac_key", "alter", "select",
                           "insert", "open", "over", "failed"}]
    /\ hmacKey \in [Store -> Nat]

DbKeys == \A s \in Store : open[s] = "open" => hmacKey[s] = keyRow /\ keyRow # Db!NoKey

DbRows == \A r \in rows : IF r.by = Db!Old THEN r.mac = Db!NoKey
                                           ELSE r.mac = keyRow /\ keyRow # Db!NoKey

DbInv == DbType /\ DbKeys /\ DbRows

\* Before the first opener there is no key and no row of this version.
LEMMA DbInit == Db!Init => DbInv
  BY DEF Db!Init, Db!NoKey, DbInv, DbType, DbKeys, DbRows

\* The key row is written once: by the first opener that finds none.
LEMMA DbStep == DbInv /\ [Db!Next]_(Db!vars) => DbInv'
<1> SUFFICES ASSUME DbInv, [Db!Next]_(Db!vars)  PROVE DbInv'
  OBVIOUS
<1> USE DEF DbInv, DbType, DbKeys, DbRows, Db!NoKey, Db!Goto, Db!Fail, Db!dbVars
<1>1. ASSUME NEW s \in Store, Db!NewStore(s)  PROVE DbInv'
  BY <1>1 DEF Db!NewStore
<1>2. ASSUME NEW s \in Store, Db!CreateTable(s)  PROVE DbInv'
  BY <1>2 DEF Db!CreateTable
<1>3. ASSUME NEW s \in Store, Db!AddColumn(s)  PROVE DbInv'
  BY <1>3 DEF Db!AddColumn
<1>4. ASSUME NEW s \in Store, Db!SelectKey(s)  PROVE DbInv'
  BY <1>4 DEF Db!SelectKey
<1>5. ASSUME NEW s \in Store, Db!InsertKey(s)  PROVE DbInv'
  BY <1>5 DEF Db!InsertKey
<1>6. ASSUME NEW s \in Store, Db!SaveEvent(s)  PROVE DbInv'
  BY <1>6, StoreAssumption DEF Db!SaveEvent
<1>7. ASSUME NEW s \in Store, Db!Close(s)  PROVE DbInv'
  BY <1>7 DEF Db!Close
<1>8. CASE UNCHANGED Db!vars
  BY <1>8 DEF Db!vars
<1> QED
  BY <1>1, <1>2, <1>3, <1>4, <1>5, <1>6, <1>7, <1>8 DEF Db!Next

\* Every store that is open verifies every row any store saved, whichever of
\* them opened first, interleaved or after a version without HMACs (sqlite.go).
THEOREM SavedRowsVerify == Db!Spec => []SavedVerifies
<1>1. DbInv => SavedVerifies
  BY DEF DbInv, DbKeys, DbRows, SavedVerifies, Db!SavedVerifies, Db!VerifyEventIntegrity
<1> QED BY DbInit, DbStep, <1>1, PTL DEF Db!Spec

-----------------------------------------------------------------------------
(* Library.  Whoever is inside a call holds orchMutex; LemasClose has      *)
(* cancelled the life it is closing; the current life has its store; and a *)
(* worker takes its late job from the pop it was already in.               *)

LibType ==
    /\ mutex \in Thread \cup {NoThread}
    /\ call \in [Thread -> {"idle", "init", "submit", "push", "cancel", "close"}]
    /\ born \in 0..MaxLives /\ orch \in {0, born}
    /\ cancelled \in [Lib!Life -> BOOLEAN] /\ lifeStore \in [Lib!Life -> BOOLEAN]
    /\ worker \in [Lib!Life -> {"none", "loop", "pop", "run", "exited"}]
    /\ late \in [Lib!Life -> Nat]

LibMutex == \A t \in Thread : call[t] # "idle" => mutex = t

LibCalls ==
    \A t \in Thread : /\ call[t] \in {"push", "close"} => orch # 0
                      /\ call[t] = "close" => cancelled[born]

LibLives ==
    /\ orch # 0 => lifeStore[orch]
    /\ \A l \in Lib!Life : late[l] > 0 => late[l] = 1 /\ cancelled[l]
                                          /\ worker[l] \in {"run", "loop", "exited"}

LibInv == LibType /\ LibMutex /\ LibCalls /\ LibLives /\ CloseIsFinal

\* No life was born and nobody is inside.
LEMMA LibInit == Lib!Init => LibInv
<1> SUFFICES ASSUME Lib!Init  PROVE LibInv
  OBVIOUS
<1> USE ThreadAssumption DEF Lib!Init
<1>1. LibType
  BY DEF LibType
<1>2. LibMutex /\ LibCalls /\ LibLives
  BY DEF LibMutex, LibCalls, LibLives
<1>3. CloseIsFinal
  BY DEF CloseIsFinal, Lib!CloseIsFinal, Lib!Life
<1> QED BY <1>1, <1>2, <1>3 DEF LibInv

\* Every call, whole or in its two halves, and every step of every worker.
LEMMA LibStep == LibInv /\ [Lib!Next]_(Lib!vars) => LibInv'
<1> SUFFICES ASSUME LibInv, [Lib!Next]_(Lib!vars)  PROVE LibInv'
  OBVIOUS
<1> USE ThreadAssumption
    DEF LibInv, LibType, LibMutex, LibCalls, LibLives, CloseIsFinal, Lib!CloseIsFinal,
        Lib!Goto, Lib!Leave, Lib!lifeVars
<1>1. ASSUME NEW t \in Thread, Lib!Enter(t)  PROVE LibInv'
  BY <1>1 DEF Lib!Enter
<1>2. ASSUME NEW t \in Thread, Lib!LemasInit(t)  PROVE LibInv'
  <2>1. LibType'
    <3>1. CASE /\ born < MaxLives /\ born' = born + 1 /\ orch' = born + 1
               /\ lifeStore' = [lifeStore EXCEPT ![born + 1] = TRUE]
               /\ worker' = [worker EXCEPT ![born + 1] = "loop"]
      BY <1>2, <3>1 DEF Lib!LemasInit, Lib!Life
    <3>2. CASE UNCHANGED <<born, orch, lifeStore, worker>>
      BY <1>2, <3>2 DEF Lib!LemasInit
    <3> QED BY <1>2, <3>1, <3>2 DEF Lib!LemasInit
  <2>2. LibMutex'
    BY <1>2 DEF Lib!LemasInit
  <2>3. LibCalls'
    BY <1>2 DEF Lib!LemasInit, Lib!Life
  <2>4. LibLives'
    BY <1>2 DEF Lib!LemasInit, Lib!Life
  <2>5. CloseIsFinal'
    BY <1>2 DEF Lib!LemasInit, Lib!Life
  <2> QED BY <2>1, <2>2, <2>3, <2>4, <2>5
<1>3. ASSUME NEW t \in Thread, Lib!LemasSubmit(t)  PROVE LibInv'
  <2>1. LibType'
    BY <1>3 DEF Lib!LemasSubmit, Lib!Life
  <2>2. LibMutex'
    BY <1>3 DEF Lib!LemasSubmit
  <2>3. LibCalls'
    BY <1>3 DEF Lib!LemasSubmit, Lib!Life
  <2>4. LibLives'
    BY <1>3 DEF Lib!LemasSubmit, Lib!Life
  <2>5. ~refused'
    <3>1. orch # 0 => lifeStore[orch]
      OBVIOUS
    <3> QED BY <1>3, <3>1, Zenon DEF Lib!LemasSubmit
  <2>6. CloseIsFinal'
    BY <1>3, <2>5 DEF Lib!LemasSubmit
  <2> QED BY <2>1, <2>2, <2>3, <2>4, <2>6
<1>4. ASSUME NEW t \in Thread, Lib!Push(t)  PROVE LibInv'
  BY <1>4 DEF Lib!Push
<1>5. ASSUME NEW t \in Thread, Lib!LemasClose(t)  PROVE LibInv'
  BY <1>5 DEF Lib!LemasClose, Lib!Life
<1>6. ASSUME NEW t \in Thread, Lib!CloseStore(t)  PROVE LibInv'
  BY <1>6 DEF Lib!CloseStore, Lib!Life
<1>7. ASSUME NEW l \in Lib!Life, Lib!CheckContext(l)  PROVE LibInv'
  BY <1>7 DEF Lib!CheckContext
<1>8. ASSUME NEW l \in Lib!Life, Lib!Pop(l)  PROVE LibInv'
  BY <1>8 DEF Lib!Pop
<1>9. ASSUME NEW l \in Lib!Life, Lib!ExecuteJob(l)  PROVE LibInv'
  BY <1>9 DEF Lib!ExecuteJob
<1>10. CASE UNCHANGED Lib!vars
  BY <1>10 DEF Lib!vars
<1> QED
  BY <1>1, <1>2, <1>3, <1>4, <1>5, <1>6, <1>7, <1>8, <1>9, <1>10 DEF Lib!Next

\* LemasClose ends the life it closes: no submission reaches it any more, its
\* store stays closed, and its worker takes at most one more job (cmd/lemas-c).
THEOREM ClosedIsOver == Lib!Spec => []CloseIsFinal
<1>1. LibInv => CloseIsFinal
  BY DEF LibInv
<1> QED BY LibInit, LibStep, <1>1, PTL DEF Lib!Spec

-----------------------------------------------------------------------------
(* Isolation.  Which resources a run has follows from its stage: ByStage. *)

Stages == {"idle", "job", "limited", "piped", "suspended", "assigned", "running", "unwaited",
           "abandoned", "waited", "error", "crashed"}
Kinds == {"job", "process", "thread"}

IsoType ==
    /\ stage \in [Run -> Stages]
    /\ handles \in [Handle -> (Kinds \X Run) \cup {Closed}]
    /\ pipes \in [Run -> SUBSET Iso!Ends]
    /\ killOnClose \in [Run -> BOOLEAN] /\ inJob \in [Run -> BOOLEAN]
    /\ sample \in [Run -> {"none", "suspended", "running", "dead"}]
    /\ children \in [Run -> SUBSET {"inside"}]

\* The sample may execute.
Resumed == {"running", "unwaited", "abandoned"}

HoldsJob(r) == \E h \in Handle : handles[h] = <<"job", r>>
HoldsNone(r) == \A h \in Handle : \A k \in Kinds : handles[h] # <<k, r>>

ByStage(r) ==
    /\ stage[r] \in {"job", "limited", "piped", "suspended", "assigned"} \cup Resumed
            => HoldsJob(r)
    /\ stage[r] \in {"limited", "piped", "suspended", "assigned"} \cup Resumed
            => killOnClose[r]
    /\ stage[r] \in {"assigned"} \cup Resumed => inJob[r]
    /\ stage[r] \in {"idle", "job", "limited", "piped", "error"} => sample[r] \in {"none", "dead"}
    /\ sample[r] = "running" \/ children[r] # {} => stage[r] \in Resumed
    /\ stage[r] = "waited" => sample[r] = "dead"
    /\ stage[r] \in {"idle", "error"} => pipes[r] = {} /\ HoldsNone(r)

IsoInv == IsoType /\ \A r \in Run : ByStage(r)

\* No handle is open.
LEMMA IsoInit == Iso!Init => IsoInv
<1> SUFFICES ASSUME Iso!Init  PROVE IsoInv
  OBVIOUS
<1>1. stage \in [Run -> Stages] /\ handles \in [Handle -> (Kinds \X Run) \cup {Closed}]
  BY DEF Iso!Init, Stages
<1>2. /\ pipes \in [Run -> SUBSET Iso!Ends]
      /\ killOnClose \in [Run -> BOOLEAN] /\ inJob \in [Run -> BOOLEAN]
      /\ sample \in [Run -> {"none", "suspended", "running", "dead"}]
      /\ children \in [Run -> SUBSET {"inside"}]
  BY DEF Iso!Init
<1>3. ASSUME NEW r \in Run  PROVE ByStage(r)
  <2>1. stage[r] = "idle" /\ sample[r] = "none" /\ children[r] = {} /\ pipes[r] = {}
    BY DEF Iso!Init
  <2>2. HoldsNone(r)
    BY ClosedAssumption DEF Iso!Init, HoldsNone, Kinds
  <2> QED BY <2>1, <2>2 DEF ByStage, Resumed
<1> QED BY <1>1, <1>2, <1>3 DEF IsoInv, IsoType

\* A run that a step passes by, or of which it only ends a process.
LEMMA Aside ==
  ASSUME IsoInv, NEW q \in Run,
         stage'[q] = stage[q], pipes'[q] = pipes[q],
         killOnClose'[q] = killOnClose[q], inJob'[q] = inJob[q],
         sample'[q] \in {sample[q], "dead"}, children'[q] \subseteq children[q],
         \A h \in Handle : \A k \in Kinds : handles'[h] = <<k, q>> <=> handles[h] = <<k, q>>
  PROVE  ByStage(q)'
<1>1. HoldsJob(q) => HoldsJob(q)'
  BY DEF HoldsJob, Kinds
<1>2. HoldsNone(q) => HoldsNone(q)'
  BY DEF HoldsNone
<1>3. ByStage(q)
  BY DEF IsoInv
<1> QED BY <1>1, <1>2, <1>3 DEF ByStage

\* Closing leaves the handles of the other runs and kinds alone.
LEMMA ClosingHandles ==
  ASSUME IsoInv, NEW r \in Run, NEW kinds \in SUBSET Kinds, handles' = Iso!Closing(r, kinds)
  PROVE  /\ handles' \in [Handle -> (Kinds \X Run) \cup {Closed}]
         /\ \A h \in Handle : \A k \in Kinds : \A q \in Run :
                handles'[h] = <<k, q>> <=> handles[h] = <<k, q>> /\ ~(q = r /\ k \in kinds)
<1>1. handles \in [Handle -> (Kinds \X Run) \cup {Closed}]
  BY DEF IsoInv, IsoType
<1>2. \A h \in Handle : handles'[h] = IF handles[h] \in {<<k, r>> : k \in kinds} THEN Closed
                                                                               ELSE handles[h]
  BY DEF Iso!Closing
<1>3. \A k \in Kinds : \A q \in Run : Closed # <<k, q>>
  BY ClosedAssumption DEF Kinds
<1>4. \A k \in Kinds : \A q \in Run : <<k, q>> \in {<<x, r>> : x \in kinds} <=> q = r /\ k \in kinds
  OBVIOUS
<1>5. handles' \in [Handle -> (Kinds \X Run) \cup {Closed}]
  BY <1>1 DEF Iso!Closing
<1>6. ASSUME NEW h \in Handle, NEW k \in Kinds, NEW q \in Run
      PROVE  handles'[h] = <<k, q>> <=> handles[h] = <<k, q>> /\ ~(q = r /\ k \in kinds)
  BY <1>2, <1>3, <1>4
<1> QED BY <1>5, <1>6

\* A free value is nobody's: opening it takes no handle from anyone.
LEMMA OpeningHandle ==
  ASSUME IsoInv, NEW r \in Run, NEW k \in Kinds, NEW h \in Iso!Free,
         handles' = [handles EXCEPT ![h] = <<k, r>>]
  PROVE  /\ handles' \in [Handle -> (Kinds \X Run) \cup {Closed}]
         /\ handles'[h] = <<k, r>>
         /\ \A g \in Handle : handles[g] # Closed => handles'[g] = handles[g]
         /\ \A g \in Handle : \A x \in Kinds : \A q \in Run :
                q # r => (handles'[g] = <<x, q>> <=> handles[g] = <<x, q>>)
<1>1. handles \in [Handle -> (Kinds \X Run) \cup {Closed}]
  BY DEF IsoInv, IsoType
<1>2. \A x \in Kinds : \A q \in Run : Closed # <<x, q>>
  BY ClosedAssumption DEF Kinds
<1>3. h \in Handle /\ handles[h] = Closed
  BY DEF Iso!Free
<1>4. \A g \in Handle : handles'[g] = IF g = h THEN <<k, r>> ELSE handles[g]
  BY <1>1
<1>5. handles' \in [Handle -> (Kinds \X Run) \cup {Closed}]
  BY <1>1, <1>3
<1> QED BY <1>2, <1>3, <1>4, <1>5

\* TerminateJobObject ends what it finds, in one job or in none.
LEMMA Terminating ==
  ASSUME IsoInv, NEW h, NEW by, Iso!TerminateJobObject(h, by)
  PROVE  /\ sample' \in [Run -> {"none", "suspended", "running", "dead"}]
         /\ children' \in [Run -> SUBSET {"inside"}]
         /\ \A q \in Run : sample'[q] \in {sample[q], "dead"} /\ children'[q] \subseteq children[q]
  BY DEF Iso!TerminateJobObject, Iso!Terminate, IsoInv, IsoType

\* Every call of CreateProcess, in success and in failure, what runs beside the
\* worker, and the crash.
LEMMA IsoStep == IsoInv /\ [Iso!Next]_(Iso!vars) => IsoInv'
<1> SUFFICES ASSUME IsoInv, [Iso!Next]_(Iso!vars)  PROVE IsoInv'
  OBVIOUS
<1>t. IsoType /\ \A q \in Run : ByStage(q)
  BY DEF IsoInv
<1> USE DEF Iso!Goto, Iso!processVars, Resumed
<1>1. ASSUME NEW r \in Run, Iso!Begin(r)  PROVE IsoInv'
  <2>1. CASE \E h \in Iso!Free : /\ handles' = [handles EXCEPT ![h] = <<"job", r>>]
                                 /\ stage' = [stage EXCEPT ![r] = "job"]
    <3>1. PICK h \in Iso!Free : handles' = [handles EXCEPT ![h] = <<"job", r>>]
      BY <2>1
    <3>2. "job" \in Kinds /\ h \in Handle
      BY DEF Kinds, Iso!Free
    <3>o. \A g \in Handle : \A k \in Kinds : \A q \in Run :
                q # r => (handles'[g] = <<k, q>> <=> handles[g] = <<k, q>>)
      BY <3>1, <3>2, OpeningHandle
    <3>3. IsoType'
      BY <1>1, <1>t, <2>1, <3>1, <3>2, OpeningHandle DEF IsoType, Iso!Begin, Stages
    <3>4. HoldsJob(r)'
      BY <3>1, <3>2, OpeningHandle DEF HoldsJob
    <3>5. ByStage(r)'
      BY <1>1, <1>t, <2>1, <3>4 DEF ByStage, Iso!Begin, IsoType
    <3>6. ASSUME NEW q \in Run, q # r  PROVE ByStage(q)'
      <4>1. \A h1 \in Handle : \A k \in Kinds : handles'[h1] = <<k, q>> <=> handles[h1] = <<k, q>>
        BY <3>o, <3>6
      <4> QED BY <1>1, <1>t, <2>1, <3>6, <4>1, Aside DEF Iso!Begin, IsoType
    <3> QED BY <3>3, <3>5, <3>6 DEF IsoInv
  <2>2. CASE stage' = [stage EXCEPT ![r] = "error"] /\ UNCHANGED <<handles, jobHandle>>
    <3>1. IsoType'
      BY <1>1, <1>t, <2>2 DEF IsoType, Iso!Begin, Stages
    <3>2. ByStage(r)'
      BY <1>1, <1>t, <2>2 DEF ByStage, Iso!Begin, IsoType, HoldsNone
    <3>3. ASSUME NEW q \in Run, q # r  PROVE ByStage(q)'
      BY <1>1, <1>t, <2>2, <3>3, Aside DEF Iso!Begin, IsoType
    <3> QED BY <3>1, <3>2, <3>3 DEF IsoInv
  <2> QED BY <1>1, <2>1, <2>2 DEF Iso!Begin
<1>2. ASSUME NEW r \in Run, stage[r] \in {"job", "limited", "piped", "suspended", "assigned"},
             Iso!GiveUp(r), sample' \in {sample, [sample EXCEPT ![r] = "dead"]},
             stage[r] \in {"suspended", "assigned"} => sample'[r] = "dead",
             UNCHANGED <<killOnClose, inJob, children>>
      PROVE  IsoInv'
  <2>c. /\ handles' \in [Handle -> (Kinds \X Run) \cup {Closed}]
        /\ \A h \in Handle : \A k \in Kinds : \A q \in Run :
                handles'[h] = <<k, q>> <=> handles[h] = <<k, q>> /\ ~(q = r /\ k \in Kinds)
    BY <1>2, ClosingHandles DEF Iso!GiveUp, Kinds
  <2>1. IsoType'
    BY <1>2, <1>t, <2>c DEF IsoType, Iso!GiveUp, Stages
  <2>2. HoldsNone(r)'
    BY <2>c DEF HoldsNone
  <2>3. ByStage(r)'
    BY <1>2, <1>t, <2>2 DEF ByStage, Iso!GiveUp, IsoType
  <2>4. ASSUME NEW q \in Run, q # r  PROVE ByStage(q)'
    <3>1. \A h \in Handle : \A k \in Kinds : handles'[h] = <<k, q>> <=> handles[h] = <<k, q>>
      BY <2>c, <2>4
    <3> QED BY <1>2, <1>t, <2>4, <3>1, Aside DEF Iso!GiveUp, IsoType
  <2> QED BY <2>1, <2>3, <2>4 DEF IsoInv
<1>3. ASSUME NEW r \in Run, Iso!ApplyJobLimits(r)  PROVE IsoInv'
  <2>1. CASE /\ killOnClose' = [killOnClose EXCEPT ![r] = TRUE]
             /\ stage' = [stage EXCEPT ![r] = "limited"] /\ UNCHANGED <<handles, pipes>>
    <3>1. IsoType'
      BY <1>3, <1>t, <2>1 DEF IsoType, Iso!ApplyJobLimits, Stages
    <3>2. ByStage(r)'
      BY <1>3, <1>t, <2>1 DEF ByStage, Iso!ApplyJobLimits, IsoType, HoldsJob
    <3>3. ASSUME NEW q \in Run, q # r  PROVE ByStage(q)'
      BY <1>3, <1>t, <2>1, <3>3, Aside DEF Iso!ApplyJobLimits, IsoType
    <3> QED BY <3>1, <3>2, <3>3 DEF IsoInv
  <2> QED BY <1>2, <1>3, <2>1 DEF Iso!ApplyJobLimits
<1>4. ASSUME NEW r \in Run, Iso!NewInheritablePipes(r)  PROVE IsoInv'
  <2>1. CASE /\ pipes' = [pipes EXCEPT ![r] = Iso!Ends]
             /\ stage' = [stage EXCEPT ![r] = "piped"] /\ UNCHANGED handles
    <3>1. IsoType'
      BY <1>4, <1>t, <2>1 DEF IsoType, Iso!NewInheritablePipes, Stages
    <3>2. ByStage(r)'
      BY <1>4, <1>t, <2>1 DEF ByStage, Iso!NewInheritablePipes, IsoType, HoldsJob
    <3>3. ASSUME NEW q \in Run, q # r  PROVE ByStage(q)'
      BY <1>4, <1>t, <2>1, <3>3, Aside DEF Iso!NewInheritablePipes, IsoType
    <3> QED BY <3>1, <3>2, <3>3 DEF IsoInv
  <2> QED BY <1>2, <1>4, <2>1 DEF Iso!NewInheritablePipes
<1>5. ASSUME NEW r \in Run, Iso!CreateSuspended(r)  PROVE IsoInv'
  <2>1. CASE \E h \in Iso!Free, g \in Iso!Free :
                /\ h # g /\ handles' = [handles EXCEPT ![h] = <<"process", r>>, ![g] = <<"thread", r>>]
                /\ sample' = [sample EXCEPT ![r] = "suspended"]
                /\ stage' = [stage EXCEPT ![r] = "suspended"] /\ UNCHANGED pipes
    <3>1. PICK h \in Iso!Free, g \in Iso!Free :
                handles' = [handles EXCEPT ![h] = <<"process", r>>, ![g] = <<"thread", r>>]
      BY <2>1
    <3>2. handles' \in [Handle -> (Kinds \X Run) \cup {Closed}]
      BY <1>t, <3>1 DEF IsoType, Kinds, Iso!Free
    <3>3. \A x \in Handle : \A k \in Kinds : \A q \in Run :
                ~(q = r /\ k # "job") => (handles'[x] = <<k, q>> <=> handles[x] = <<k, q>>)
      <4>1. \A x \in Handle : handles'[x] = IF x = g THEN <<"thread", r>>
                                            ELSE IF x = h THEN <<"process", r>> ELSE handles[x]
        BY <1>t, <3>1 DEF IsoType
      <4>2. handles[h] = Closed /\ handles[g] = Closed
        BY DEF Iso!Free
      <4>3. \A k \in Kinds : \A q \in Run : Closed # <<k, q>>
        BY ClosedAssumption DEF Kinds
      <4> QED BY <4>1, <4>2, <4>3
    <3>4. IsoType'
      BY <1>5, <1>t, <2>1, <3>2 DEF IsoType, Iso!CreateSuspended, Stages
    <3>5. HoldsJob(r) => HoldsJob(r)'
      BY <3>3 DEF HoldsJob, Kinds
    <3>6. ByStage(r)'
      BY <1>5, <1>t, <2>1, <3>5 DEF ByStage, Iso!CreateSuspended, IsoType
    <3>7. ASSUME NEW q \in Run, q # r  PROVE ByStage(q)'
      <4>1. \A x \in Handle : \A k \in Kinds : handles'[x] = <<k, q>> <=> handles[x] = <<k, q>>
        BY <3>3, <3>7
      <4> QED BY <1>5, <1>t, <2>1, <3>7, <4>1, Aside DEF Iso!CreateSuspended, IsoType
    <3> QED BY <3>4, <3>6, <3>7 DEF IsoInv
  <2> QED BY <1>2, <1>5, <2>1 DEF Iso!CreateSuspended
<1>6. ASSUME NEW r \in Run, Iso!AssignProcessToJobObject(r)  PROVE IsoInv'
  <2>1. CASE /\ inJob' = [inJob EXCEPT ![r] = TRUE]
             /\ stage' = [stage EXCEPT ![r] = "assigned"] /\ UNCHANGED <<handles, pipes, sample>>
    <3>1. IsoType'
      BY <1>6, <1>t, <2>1 DEF IsoType, Iso!AssignProcessToJobObject, Stages
    <3>2. ByStage(r)'
      BY <1>6, <1>t, <2>1 DEF ByStage, Iso!AssignProcessToJobObject, IsoType, HoldsJob
    <3>3. ASSUME NEW q \in Run, q # r  PROVE ByStage(q)'
      BY <1>6, <1>t, <2>1, <3>3, Aside DEF Iso!AssignProcessToJobObject, IsoType
    <3> QED BY <3>1, <3>2, <3>3 DEF IsoInv
  <2>2. CASE Iso!GiveUp(r) /\ sample' = [sample EXCEPT ![r] = "dead"] /\ UNCHANGED inJob
    BY <1>2, <1>6, <1>t, <2>2 DEF Iso!AssignProcessToJobObject, IsoType
  <2> QED BY <1>6, <2>1, <2>2 DEF Iso!AssignProcessToJobObject
<1>7. ASSUME NEW r \in Run, Iso!ResumeThread(r)  PROVE IsoInv'
  <2>1. CASE /\ sample' = [sample EXCEPT ![r] = IF @ = "suspended" THEN "running" ELSE @]
             /\ handles' = Iso!Closing(r, {"thread"})
             /\ stage' = [stage EXCEPT ![r] = "running"] /\ UNCHANGED pipes
    <3>1. /\ handles' \in [Handle -> (Kinds \X Run) \cup {Closed}]
          /\ \A h \in Handle : \A k \in Kinds : \A q \in Run :
                handles'[h] = <<k, q>> <=> handles[h] = <<k, q>> /\ ~(q = r /\ k \in {"thread"})
      BY <2>1, ClosingHandles DEF Kinds
    <3>2. IsoType'
      BY <1>7, <1>t, <2>1, <3>1 DEF IsoType, Iso!ResumeThread, Stages
    <3>3. HoldsJob(r) => HoldsJob(r)'
      BY <3>1 DEF HoldsJob, Kinds
    <3>4. ByStage(r)'
      BY <1>7, <1>t, <2>1, <3>3 DEF ByStage, Iso!ResumeThread, IsoType
    <3>5. ASSUME NEW q \in Run, q # r  PROVE ByStage(q)'
      <4>1. \A h \in Handle : \A k \in Kinds : handles'[h] = <<k, q>> <=> handles[h] = <<k, q>>
        BY <3>1, <3>5
      <4> QED BY <1>7, <1>t, <2>1, <3>5, <4>1, Aside DEF Iso!ResumeThread, IsoType
    <3> QED BY <3>2, <3>4, <3>5 DEF IsoInv
  <2>2. CASE Iso!GiveUp(r) /\ sample' = [sample EXCEPT ![r] = "dead"] /\ UNCHANGED watcher
    BY <1>2, <1>7, <1>t, <2>2 DEF Iso!ResumeThread, IsoType
  <2> QED BY <1>7, <2>1, <2>2 DEF Iso!ResumeThread
<1>8. ASSUME NEW r \in Run, Iso!SampleSpawns(r)  PROVE IsoInv'
  <2>1. stage[r] \in Resumed /\ inJob[r]
    BY <1>8, <1>t DEF Iso!SampleSpawns, ByStage
  <2>2. IsoType'
    BY <1>8, <1>t, <2>1 DEF IsoType, Iso!SampleSpawns
  <2>3. ByStage(r)'
    BY <1>8, <1>t, <2>1 DEF ByStage, Iso!SampleSpawns, IsoType, HoldsJob
  <2>4. ASSUME NEW q \in Run, q # r  PROVE ByStage(q)'
    BY <1>8, <1>t, <2>4, Aside DEF Iso!SampleSpawns, IsoType
  <2> QED BY <2>2, <2>3, <2>4 DEF IsoInv
<1>9. ASSUME NEW r \in Run, Iso!SampleExits(r)  PROVE IsoInv'
  <2>1. IsoType'
    BY <1>9, <1>t DEF IsoType, Iso!SampleExits
  <2>2. ASSUME NEW q \in Run  PROVE ByStage(q)'
    BY <1>9, <1>t, <2>2, Aside DEF Iso!SampleExits, IsoType
  <2> QED BY <2>1, <2>2 DEF IsoInv
<1>10. ASSUME NEW r \in Run, Iso!Deadline(r) \/ Iso!Return(r)  PROVE IsoInv'
  <2>1. IsoType'
    BY <1>10, <1>t DEF IsoType, Iso!Deadline, Iso!Return
  <2>2. ASSUME NEW q \in Run  PROVE ByStage(q)'
    BY <1>10, <1>t, <2>2, Aside DEF Iso!Deadline, Iso!Return, IsoType
  <2> QED BY <2>1, <2>2 DEF IsoInv
<1>11. ASSUME NEW r \in Run, Iso!Kill(r)  PROVE IsoInv'
  <2>1. /\ sample' \in [Run -> {"none", "suspended", "running", "dead"}]
        /\ children' \in [Run -> SUBSET {"inside"}]
        /\ \A q \in Run : sample'[q] \in {sample[q], "dead"} /\ children'[q] \subseteq children[q]
    BY <1>11, Terminating DEF Iso!Kill
  <2>2. IsoType'
    BY <1>11, <1>t, <2>1 DEF IsoType, Iso!Kill, Stages
  <2>3. ASSUME NEW q \in Run, stage'[q] = stage[q]  PROVE ByStage(q)'
    BY <1>11, <2>1, <2>3, Aside DEF Iso!Kill
  <2>4. CASE UNCHANGED stage
    BY <2>2, <2>3, <2>4 DEF IsoInv
  <2>5. CASE stage[r] = "running" /\ stage' = [stage EXCEPT ![r] = "unwaited"]
    <3>1. ByStage(r)'
      <4>1. HoldsJob(r) => HoldsJob(r)'
        BY <1>11 DEF HoldsJob, Iso!Kill
      <4> QED BY <1>11, <1>t, <2>1, <2>5, <4>1 DEF ByStage, Iso!Kill, IsoType
    <3>2. \A q \in Run : q # r => ByStage(q)'
      BY <1>t, <2>3, <2>5 DEF IsoType
    <3> QED BY <2>2, <3>1, <3>2 DEF IsoInv
  <2> QED BY <1>11, <2>4, <2>5 DEF Iso!Kill
<1>12. ASSUME NEW r \in Run, Iso!WatcherKills(r)  PROVE IsoInv'
  <2>1. /\ sample' \in [Run -> {"none", "suspended", "running", "dead"}]
        /\ children' \in [Run -> SUBSET {"inside"}]
        /\ \A q \in Run : sample'[q] \in {sample[q], "dead"} /\ children'[q] \subseteq children[q]
    BY <1>12, Terminating DEF Iso!WatcherKills
  <2>2. IsoType'
    BY <1>12, <1>t, <2>1 DEF IsoType, Iso!WatcherKills
  <2>3. ASSUME NEW q \in Run  PROVE ByStage(q)'
    BY <1>12, <2>1, <2>3, Aside DEF Iso!WatcherKills
  <2> QED BY <2>2, <2>3 DEF IsoInv
<1>13. ASSUME NEW r \in Run, Iso!Wait(r)  PROVE IsoInv'
  <2>0. CASE /\ sample[r] = "dead" /\ handles' = Iso!Closing(r, {"process", "job"})
             /\ pipes' = [pipes EXCEPT ![r] = {"outR", "errR"}]
             /\ IF killOnClose[r] THEN Iso!Terminate(r) ELSE UNCHANGED <<sample, children>>
             /\ Iso!Goto(r, "waited")
    <3>1. /\ handles' \in [Handle -> (Kinds \X Run) \cup {Closed}]
          /\ \A h \in Handle : \A k \in Kinds : \A q \in Run :
                handles'[h] = <<k, q>> <=> handles[h] = <<k, q>> /\ ~(q = r /\ k \in {"process", "job"})
      BY <2>0, ClosingHandles DEF Kinds
    <3>2. killOnClose[r] /\ inJob[r] /\ children[r] \subseteq {"inside"}
      BY <1>13, <1>t DEF Iso!Wait, ByStage, IsoType
    <3>3. /\ sample' = [sample EXCEPT ![r] = "dead"]
          /\ children' = [children EXCEPT ![r] = @ \ {"inside"}]
      BY <2>0, <3>2 DEF Iso!Terminate
    <3>4. IsoType'
      BY <1>13, <1>t, <2>0, <3>1, <3>3 DEF IsoType, Iso!Wait, Stages, Iso!Ends
    <3>5. ByStage(r)'
      BY <1>13, <1>t, <2>0, <3>2, <3>3 DEF ByStage, Iso!Wait, IsoType
    <3>6. ASSUME NEW q \in Run, q # r  PROVE ByStage(q)'
      <4>1. \A h \in Handle : \A k \in Kinds : handles'[h] = <<k, q>> <=> handles[h] = <<k, q>>
        BY <3>1, <3>6
      <4> QED BY <1>13, <1>t, <2>0, <3>3, <3>6, <4>1, Aside DEF Iso!Wait, IsoType
    <3> QED BY <3>4, <3>5, <3>6 DEF IsoInv
  <2>1. CASE Iso!Goto(r, "abandoned") /\ UNCHANGED <<handles, pipes, sample, children>>
    <3>1. IsoType'
      BY <1>13, <1>t, <2>1 DEF IsoType, Iso!Wait, Stages
    <3>2. ByStage(r)'
      BY <1>13, <1>t, <2>1 DEF ByStage, Iso!Wait, IsoType, HoldsJob
    <3>3. ASSUME NEW q \in Run, q # r  PROVE ByStage(q)'
      BY <1>13, <1>t, <2>1, <3>3, Aside DEF Iso!Wait, IsoType
    <3> QED BY <3>1, <3>2, <3>3 DEF IsoInv
  <2> QED BY <1>13, <2>0, <2>1 DEF Iso!Wait
<1>14. CASE Iso!Crash
  <2>1. IsoType'
    BY <1>14, <1>t DEF IsoType, Iso!Crash, Stages
  <2>2. ASSUME NEW q \in Run  PROVE ByStage(q)'
    BY <1>14, <1>t, <2>2 DEF ByStage, Iso!Crash, IsoType
  <2> QED BY <2>1, <2>2 DEF IsoInv
<1>15. CASE UNCHANGED Iso!vars
  <2>1. IsoType'
    BY <1>15, <1>t DEF IsoType, Iso!vars
  <2>2. ASSUME NEW q \in Run  PROVE ByStage(q)'
    BY <1>15, <2>2, Aside DEF Iso!vars
  <2> QED BY <2>1, <2>2 DEF IsoInv
<1> QED
  BY <1>1, <1>3, <1>4, <1>5, <1>6, <1>7, <1>8, <1>9, <1>10, <1>11, <1>12, <1>13, <1>14, <1>15
  DEF Iso!Next

\* No two runs were ever given the same handle value for their Job Objects.
NotReused == \A r, q \in Run : jobHandle[r] = jobHandle[q] /\ jobHandle[r] # Closed => r = q

KillType == jobHandle \in [Run -> Handle \cup {Closed}] /\ killer \in [Run -> Run \cup {NoRun}]

KillInv ==
    /\ KillType
    /\ \A r \in Run : stage[r] = "idle" => jobHandle[r] = Closed
    /\ \A h \in Handle, r \in Run : handles[h] = <<"job", r>> => jobHandle[r] = h
    /\ NotReused => Iso!OwnContextKills

\* A step that terminates nothing and makes no Job Object.
LEMMA KillAside ==
  ASSUME KillInv, UNCHANGED <<jobHandle, killer>>,
         \A r \in Run : stage'[r] = "idle" => stage[r] = "idle",
         \A h \in Handle, r \in Run : handles'[h] = <<"job", r>> => handles[h] = <<"job", r>>
  PROVE  KillInv'
<1>1. KillType' /\ (NotReused' => NotReused)
  BY DEF KillInv, KillType, NotReused
<1>2. Iso!OwnContextKills => Iso!OwnContextKills'
  BY DEF Iso!OwnContextKills
<1>3. \A r \in Run : stage'[r] = "idle" => jobHandle'[r] = Closed
  BY DEF KillInv
<1>4. \A h \in Handle, r \in Run : handles'[h] = <<"job", r>> => jobHandle'[r] = h
  BY DEF KillInv
<1> QED BY <1>1, <1>2, <1>3, <1>4 DEF KillInv

\* A call of TerminateJobObject with the value that the run has kept.
LEMMA KillTerminates ==
  ASSUME KillInv, NEW r \in Run, Iso!TerminateJobObject(jobHandle[r], r),
         UNCHANGED <<jobHandle, handles>>,
         \A q \in Run : stage'[q] = "idle" => stage[q] = "idle"
  PROVE  KillInv'
<1>1. CASE UNCHANGED killer
  BY <1>1, KillAside
<1>2. CASE \E q \in Run : /\ jobHandle[r] # Closed /\ handles[jobHandle[r]] = <<"job", q>>
                          /\ killer' = [killer EXCEPT ![q] = IF sample[q] = "running" THEN r ELSE @]
  <2>1. PICK q \in Run : /\ jobHandle[r] # Closed /\ handles[jobHandle[r]] = <<"job", q>>
                         /\ killer' = [killer EXCEPT ![q] = IF sample[q] = "running" THEN r ELSE @]
    BY <1>2
  <2>2. jobHandle[r] \in Handle
    BY <2>1 DEF KillInv, KillType
  <2>3. jobHandle[q] = jobHandle[r]
    BY <2>1, <2>2 DEF KillInv
  <2>4. KillType'
    BY <2>1 DEF KillInv, KillType
  <2>5. ASSUME NotReused'  PROVE Iso!OwnContextKills'
    <3>1. NotReused
      BY <2>5 DEF NotReused
    <3>2. q = r
      BY <2>1, <2>3, <3>1 DEF NotReused
    <3>3. \A p \in Run : killer[p] \in {NoRun, p}
      BY <3>1 DEF KillInv, Iso!OwnContextKills
    <3>4. \A p \in Run : killer'[p] \in {killer[p], p}
      BY <2>1, <3>2 DEF KillInv, KillType
    <3> QED BY <3>3, <3>4 DEF Iso!OwnContextKills
  <2>6. /\ \A p \in Run : stage'[p] = "idle" => jobHandle'[p] = Closed
        /\ \A h \in Handle, p \in Run : handles'[h] = <<"job", p>> => jobHandle'[p] = h
    BY DEF KillInv
  <2> QED BY <2>4, <2>5, <2>6 DEF KillInv
<1> QED BY <1>1, <1>2 DEF Iso!TerminateJobObject, Iso!Terminate

LEMMA KillStep == IsoInv /\ KillInv /\ [Iso!Next]_(Iso!vars) => KillInv'
<1> SUFFICES ASSUME IsoInv, KillInv, [Iso!Next]_(Iso!vars)  PROVE KillInv'
  OBVIOUS
<1> USE DEF Iso!Goto, Iso!processVars
<1>t. stage \in [Run -> Stages] /\ handles \in [Handle -> (Kinds \X Run) \cup {Closed}]
  BY DEF IsoInv, IsoType
<1>c. \A k \in Kinds : \A q \in Run : Closed # <<k, q>>
  BY ClosedAssumption DEF Kinds
<1>1. ASSUME NEW r \in Run, Iso!Begin(r)  PROVE KillInv'
  <2>1. CASE UNCHANGED <<handles, jobHandle>>
    BY <1>1, <1>t, <2>1, KillAside DEF Iso!Begin
  <2>2. CASE \E h \in Iso!Free : /\ handles' = [handles EXCEPT ![h] = <<"job", r>>]
                                 /\ jobHandle' = [jobHandle EXCEPT ![r] = h]
                                 /\ stage' = [stage EXCEPT ![r] = "job"]
    <3>1. PICK h \in Iso!Free : /\ handles' = [handles EXCEPT ![h] = <<"job", r>>]
                                /\ jobHandle' = [jobHandle EXCEPT ![r] = h]
                                /\ stage' = [stage EXCEPT ![r] = "job"]
      BY <2>2
    <3>2. h \in Handle /\ stage[r] = "idle" /\ jobHandle[r] = Closed /\ UNCHANGED killer
      BY <1>1 DEF Iso!Begin, Iso!Free, KillInv
    <3>3. /\ \A q \in Run : jobHandle'[q] = IF q = r THEN h ELSE jobHandle[q]
          /\ \A g \in Handle : handles'[g] = IF g = h THEN <<"job", r>> ELSE handles[g]
          /\ \A q \in Run : stage'[q] = IF q = r THEN "job" ELSE stage[q]
      BY <1>t, <3>1 DEF KillInv, KillType
    <3>4. KillType'
      BY <3>1, <3>2 DEF KillInv, KillType
    <3>5. \A q \in Run : stage'[q] = "idle" => jobHandle'[q] = Closed
      BY <3>3 DEF KillInv
    <3>6. ASSUME NEW g \in Handle, NEW q \in Run, handles'[g] = <<"job", q>>
          PROVE  jobHandle'[q] = g
      <4>1. CASE g = h
        <5>1. q = r
          BY <3>3, <3>6, <4>1
        <5> QED BY <3>3, <4>1, <5>1
      <4>2. CASE g # h
        <5>1. handles[g] = <<"job", q>>
          BY <3>3, <3>6, <4>2
        <5>2. HoldsNone(r)
          BY <3>2 DEF IsoInv, ByStage
        <5>3. q # r
          BY <5>1, <5>2 DEF HoldsNone, Kinds
        <5>4. jobHandle[q] = g
          BY <5>1 DEF KillInv
        <5> QED BY <3>3, <5>3, <5>4
      <4> QED BY <4>1, <4>2
    <3>7. ASSUME NotReused'  PROVE Iso!OwnContextKills'
      <4>1. ASSUME NEW p \in Run, NEW q \in Run, jobHandle[p] = jobHandle[q], jobHandle[p] # Closed
            PROVE  p = q
        <5>1. p # r /\ q # r
          BY <3>2, <4>1
        <5>2. jobHandle'[p] = jobHandle[p] /\ jobHandle'[q] = jobHandle[q]
          BY <3>3, <5>1
        <5> QED BY <3>7, <4>1, <5>2 DEF NotReused
      <4>2. NotReused
        BY <4>1 DEF NotReused
      <4> QED BY <3>2, <4>2 DEF KillInv, Iso!OwnContextKills
    <3> QED BY <3>4, <3>5, <3>6, <3>7 DEF KillInv
  <2> QED BY <1>1, <2>1, <2>2 DEF Iso!Begin
<1>2. ASSUME NEW r \in Run, stage[r] # "idle", NEW s \in Stages \ {"idle"},
             Iso!Goto(r, s), UNCHANGED <<jobHandle, killer>>,
             \/ UNCHANGED handles
             \/ \E kinds \in SUBSET Kinds : handles' = Iso!Closing(r, kinds)
      PROVE  KillInv'
  <2>1. \A q \in Run : stage'[q] = "idle" => stage[q] = "idle"
    BY <1>2, <1>t
  <2>2. \A h \in Handle, q \in Run : handles'[h] = <<"job", q>> => handles[h] = <<"job", q>>
    <3>1. CASE UNCHANGED handles
      BY <3>1
    <3>2. CASE \E kinds \in SUBSET Kinds : handles' = Iso!Closing(r, kinds)
      BY <3>2, ClosingHandles DEF Kinds
    <3> QED BY <1>2, <3>1, <3>2
  <2> QED BY <1>2, <2>1, <2>2, KillAside
<1>3. ASSUME NEW r \in Run, stage[r] # "idle", Iso!GiveUp(r), UNCHANGED <<jobHandle, killer>>
      PROVE  KillInv'
  <2>1. Kinds \in SUBSET Kinds /\ "error" \in Stages \ {"idle"}
    BY DEF Stages
  <2>2. Iso!Goto(r, "error") /\ handles' = Iso!Closing(r, Kinds)
    BY <1>3 DEF Iso!GiveUp, Kinds
  <2> QED BY <1>2, <1>3, <2>1, <2>2
<1>4. ASSUME NEW r \in Run, Iso!ApplyJobLimits(r) \/ Iso!NewInheritablePipes(r)
      PROVE  KillInv'
  <2>1. stage[r] # "idle" /\ UNCHANGED <<jobHandle, killer>>
    BY <1>4 DEF Iso!ApplyJobLimits, Iso!NewInheritablePipes
  <2>2. {"limited", "piped"} \subseteq Stages \ {"idle"}
    BY DEF Stages
  <2> QED BY <1>2, <1>3, <1>4, <2>1, <2>2 DEF Iso!ApplyJobLimits, Iso!NewInheritablePipes
<1>5. ASSUME NEW r \in Run, Iso!CreateSuspended(r)  PROVE KillInv'
  <2>1. stage[r] # "idle" /\ UNCHANGED <<jobHandle, killer>>
    BY <1>5 DEF Iso!CreateSuspended
  <2>2. CASE /\ \E h, g \in Iso!Free :
                    handles' = [handles EXCEPT ![h] = <<"process", r>>, ![g] = <<"thread", r>>]
             /\ Iso!Goto(r, "suspended")
    <3>1. PICK h \in Iso!Free, g \in Iso!Free :
                    handles' = [handles EXCEPT ![h] = <<"process", r>>, ![g] = <<"thread", r>>]
      BY <2>2
    <3>2. \A f \in Handle : handles'[f] = IF f = g THEN <<"thread", r>>
                                          ELSE IF f = h THEN <<"process", r>> ELSE handles[f]
      BY <1>t, <3>1 DEF Iso!Free
    <3>3. \A f \in Handle, q \in Run : handles'[f] = <<"job", q>> => handles[f] = <<"job", q>>
      BY <3>2
    <3>4. \A q \in Run : stage'[q] = "idle" => stage[q] = "idle"
      BY <1>t, <2>2
    <3> QED BY <2>1, <3>3, <3>4, KillAside
  <2> QED BY <1>3, <1>5, <2>1, <2>2 DEF Iso!CreateSuspended
<1>6. ASSUME NEW r \in Run, Iso!AssignProcessToJobObject(r) \/ Iso!ResumeThread(r)  PROVE KillInv'
  <2>1. stage[r] # "idle" /\ UNCHANGED <<jobHandle, killer>>
    BY <1>6 DEF Iso!AssignProcessToJobObject, Iso!ResumeThread
  <2>2. {"assigned", "running"} \subseteq Stages \ {"idle"} /\ {"thread"} \in SUBSET Kinds
    BY DEF Stages, Kinds
  <2> QED BY <1>2, <1>3, <1>6, <2>1, <2>2 DEF Iso!AssignProcessToJobObject, Iso!ResumeThread
<1>7. ASSUME NEW r \in Run, Iso!Wait(r)  PROVE KillInv'
  <2>1. {"process", "job"} \in SUBSET Kinds /\ {"waited", "abandoned"} \subseteq Stages \ {"idle"}
    BY DEF Stages, Kinds
  <2>2. stage[r] # "idle" /\ UNCHANGED <<jobHandle, killer>>
    BY <1>7 DEF Iso!Wait
  <2> QED BY <1>2, <1>7, <2>1, <2>2 DEF Iso!Wait
<1>8. ASSUME NEW r \in Run, Iso!Kill(r) \/ Iso!WatcherKills(r)  PROVE KillInv'
  <2>1. Iso!TerminateJobObject(jobHandle[r], r) /\ UNCHANGED <<jobHandle, handles>>
    BY <1>8 DEF Iso!Kill, Iso!WatcherKills
  <2>2. \A q \in Run : stage'[q] = "idle" => stage[q] = "idle"
    BY <1>8, <1>t DEF Iso!Kill, Iso!WatcherKills
  <2> QED BY <2>1, <2>2, KillTerminates
<1>9. CASE Iso!Crash
  <2>1. /\ \A q \in Run : stage'[q] # "idle"
        /\ \A h \in Handle : handles'[h] = Closed
        /\ UNCHANGED <<jobHandle, killer>>
    BY <1>9 DEF Iso!Crash
  <2> QED BY <1>c, <2>1, KillAside DEF Kinds
<1>10. CASE UNCHANGED <<stage, handles, jobHandle, killer>>
  BY <1>10, KillAside
<1>11. \/ UNCHANGED <<stage, handles, jobHandle, killer>>
       \/ Iso!Crash
       \/ \E r \in Run :
             \/ Iso!Begin(r) \/ Iso!ApplyJobLimits(r) \/ Iso!NewInheritablePipes(r)
             \/ Iso!CreateSuspended(r) \/ Iso!AssignProcessToJobObject(r) \/ Iso!ResumeThread(r)
             \/ Iso!Kill(r) \/ Iso!WatcherKills(r) \/ Iso!Wait(r)
  BY DEF Iso!Next, Iso!vars, Iso!SampleSpawns, Iso!SampleExits, Iso!Deadline, Iso!Return
<1> QED BY <1>1, <1>4, <1>5, <1>6, <1>7, <1>8, <1>9, <1>10, <1>11

LEMMA KillInit == Iso!Init => KillInv
<1> SUFFICES ASSUME Iso!Init  PROVE KillInv
  OBVIOUS
<1>1. KillType /\ (\A r \in Run : jobHandle[r] = Closed) /\ Iso!OwnContextKills
  BY DEF Iso!Init, KillType, Iso!OwnContextKills
<1>2. \A h \in Handle, r \in Run : handles[h] # <<"job", r>>
  BY ClosedAssumption DEF Iso!Init
<1> QED BY <1>1, <1>2 DEF KillInv

\* As long as Windows gives no run the handle value that another run once had, a
\* running sample is terminated only by its own run: the value kept beyond Wait is
\* all that run isolation_watcher's counterexample can rest on
\* (isolation_windows.go:345).
THEOREM OnlyReusedHandlesKill == Iso!Spec => [](NotReused => Iso!OwnContextKills)
<1>1. KillInv => (NotReused => Iso!OwnContextKills)
  BY DEF KillInv
<1> QED BY IsoInit, IsoStep, KillInit, KillStep, <1>1, PTL DEF Iso!Spec

\* A watcher that is gone has left nothing that executes, as the value it kept still
\* was that of its Job Object if anything did.
GoneInv ==
    /\ watcher \in [Run -> {"none", "waiting", "gone"}]
    /\ \A r \in Run : watcher[r] = "gone" => sample[r] # "running" /\ children[r] = {}

\* A step after which no more runs than before, and no watcher is newly gone.
Calm == \A q \in Run : /\ watcher'[q] = "gone" => watcher[q] = "gone"
                       /\ sample'[q] = "running" => sample[q] = "running"
                       /\ children'[q] \subseteq children[q]

LEMMA GoneStep == IsoInv /\ KillInv /\ GoneInv /\ [Iso!Next]_(Iso!vars) => GoneInv'
<1> SUFFICES ASSUME IsoInv, KillInv, GoneInv, [Iso!Next]_(Iso!vars)  PROVE GoneInv'
  OBVIOUS
<1>t. IsoType /\ GoneInv /\ \A r \in Run : ByStage(r)
  BY DEF IsoInv
<1>w. watcher' \in [Run -> {"none", "waiting", "gone"}]
  BY <1>t DEF GoneInv, Iso!Next, Iso!vars, Iso!Begin, Iso!ApplyJobLimits, Iso!NewInheritablePipes,
         Iso!CreateSuspended, Iso!AssignProcessToJobObject, Iso!ResumeThread, Iso!SampleSpawns,
         Iso!SampleExits, Iso!Deadline, Iso!Kill, Iso!WatcherKills, Iso!Wait, Iso!Return, Iso!Crash
<1>0. ASSUME Calm  PROVE GoneInv'
  <2>1. ASSUME NEW q \in Run, watcher'[q] = "gone"  PROVE sample'[q] # "running" /\ children'[q] = {}
    <3>1. /\ watcher'[q] = "gone" => watcher[q] = "gone"
          /\ sample'[q] = "running" => sample[q] = "running"
          /\ children'[q] \subseteq children[q]
      BY <1>0 DEF Calm
    <3>2. sample[q] # "running" /\ children[q] = {}
      BY <1>t, <2>1, <3>1 DEF GoneInv
    <3> QED BY <3>1, <3>2
  <2> QED BY <1>w, <2>1 DEF GoneInv
<1> USE DEF Iso!Goto, Iso!processVars
<1>1. ASSUME UNCHANGED <<watcher, sample, children>>  PROVE GoneInv'
  BY <1>0, <1>1 DEF Calm
<1>2. ASSUME NEW r \in Run, Iso!CreateSuspended(r) \/ Iso!AssignProcessToJobObject(r)  PROVE GoneInv'
  <2>1. UNCHANGED <<watcher, children>>
    BY <1>2 DEF Iso!CreateSuspended, Iso!AssignProcessToJobObject
  <2>2. \A q \in Run : sample'[q] = sample[q] \/ sample'[q] \in {"suspended", "dead"}
    BY <1>2, <1>t DEF Iso!CreateSuspended, Iso!AssignProcessToJobObject, IsoType
  <2> QED BY <1>0, <2>1, <2>2 DEF Calm
<1>3. ASSUME NEW r \in Run, Iso!ResumeThread(r)  PROVE GoneInv'
  <2>1. children' = children /\ \A q \in Run : q # r => sample'[q] = sample[q]
    BY <1>3, <1>t DEF Iso!ResumeThread, IsoType
  <2>2. CASE watcher' = [watcher EXCEPT ![r] = "waiting"]
    <3>1. ASSUME NEW q \in Run, watcher'[q] = "gone"  PROVE q # r /\ watcher[q] = "gone"
      BY <1>t, <2>2, <3>1 DEF GoneInv
    <3> QED BY <1>t, <1>w, <2>1, <3>1 DEF GoneInv
  <2>3. CASE watcher' = watcher /\ sample' = [sample EXCEPT ![r] = "dead"]
    <3>1. Calm
      BY <1>t, <2>1, <2>3 DEF Calm, IsoType
    <3> QED BY <1>0, <3>1
  <2> QED BY <1>3, <2>2, <2>3 DEF Iso!ResumeThread
<1>4. ASSUME NEW r \in Run, Iso!SampleSpawns(r)  PROVE GoneInv'
  <2>1. /\ watcher' = watcher /\ sample' = sample /\ sample[r] = "running"
        /\ \A q \in Run : q # r => children'[q] = children[q]
    BY <1>4, <1>t DEF Iso!SampleSpawns, IsoType
  <2> QED BY <1>t, <1>w, <2>1 DEF GoneInv
<1>5. ASSUME NEW r \in Run, Iso!SampleExits(r) \/ Iso!Wait(r)  PROVE GoneInv'
  <2>1. Calm
    BY <1>5, <1>t DEF Calm, Iso!SampleExits, Iso!Wait, Iso!Terminate, IsoType
  <2> QED BY <1>0, <2>1
<1>6. ASSUME NEW r \in Run, Iso!Kill(r)  PROVE GoneInv'
  <2>1. /\ watcher' = watcher
        /\ \A q \in Run : sample'[q] \in {sample[q], "dead"} /\ children'[q] \subseteq children[q]
    BY <1>6, Terminating DEF Iso!Kill
  <2>2. Calm
    BY <2>1 DEF Calm
  <2> QED BY <1>0, <2>2
<1>7. ASSUME NEW r \in Run, Iso!WatcherKills(r)  PROVE GoneInv'
  <2>1. /\ \A q \in Run : sample'[q] \in {sample[q], "dead"} /\ children'[q] \subseteq children[q]
        /\ Iso!TerminateJobObject(jobHandle[r], r)
    BY <1>7, Terminating DEF Iso!WatcherKills
  <2>2. \A q \in Run : q # r /\ watcher'[q] = "gone" => watcher[q] = "gone"
    BY <1>7 DEF Iso!WatcherKills
  <2>3. sample'[r] # "running" /\ children'[r] = {}
    <3>1. CASE stage[r] \notin Resumed
      BY <1>t, <2>1, <3>1 DEF ByStage
    <3>2. CASE stage[r] \in Resumed
      <4>1. HoldsJob(r) /\ inJob[r]
        BY <1>t, <3>2 DEF ByStage, Resumed
      <4>2. PICK h \in Handle : handles[h] = <<"job", r>>
        BY <4>1 DEF HoldsJob
      <4>3. h = jobHandle[r] /\ h # Closed
        BY <4>2, ClosedAssumption DEF KillInv
      <4>4. Iso!Terminate(r)
        <5>1. \A q \in Run : handles[h] = <<"job", q>> => q = r
          BY <4>2
        <5> QED BY <2>1, <4>2, <4>3, <5>1 DEF Iso!TerminateJobObject
      <4> QED BY <1>t, <4>1, <4>4 DEF Iso!Terminate, IsoType
    <3> QED BY <3>1, <3>2
  <2>4. ASSUME NEW q \in Run, watcher'[q] = "gone"  PROVE sample'[q] # "running" /\ children'[q] = {}
    <3>1. CASE q = r
      BY <2>3, <3>1
    <3>2. CASE q # r
      <4>1. sample[q] # "running" /\ children[q] = {}
        BY <1>t, <2>2, <2>4, <3>2 DEF GoneInv
      <4> QED BY <2>1, <4>1
    <3> QED BY <3>1, <3>2
  <2> QED BY <1>w, <2>4 DEF GoneInv
<1>8. CASE Iso!Crash
  <2>1. ASSUME NEW q \in Run  PROVE sample'[q] # "running" /\ children'[q] = {}
    <3>1. /\ sample'[q] = IF inJob[q] /\ killOnClose[q] THEN "dead" ELSE sample[q]
          /\ children'[q] = IF killOnClose[q] THEN children[q] \ {"inside"} ELSE children[q]
          /\ children[q] \subseteq {"inside"}
      BY <1>8, <1>t DEF Iso!Crash, IsoType
    <3>2. sample[q] = "running" \/ children[q] # {} => inJob[q] /\ killOnClose[q]
      <4>1. ByStage(q)
        BY <1>t
      <4> QED BY <4>1 DEF ByStage, Resumed
    <3> QED BY <3>1, <3>2
  <2> QED BY <1>w, <2>1 DEF GoneInv
<1>9. \/ UNCHANGED <<watcher, sample, children>> \/ Iso!Crash
      \/ \E r \in Run :
            \/ Iso!CreateSuspended(r) \/ Iso!AssignProcessToJobObject(r) \/ Iso!ResumeThread(r)
            \/ Iso!SampleSpawns(r) \/ Iso!SampleExits(r)
            \/ Iso!Kill(r) \/ Iso!WatcherKills(r) \/ Iso!Wait(r)
  BY DEF Iso!Next, Iso!vars, Iso!Begin, Iso!ApplyJobLimits, Iso!NewInheritablePipes,
         Iso!Deadline, Iso!Return
<1> QED BY <1>1, <1>2, <1>3, <1>4, <1>5, <1>6, <1>7, <1>8, <1>9

\* No sample executes outside a Job Object that the daemon holds and that dies
\* with its handle, a CreateProcess that fails leaves nothing behind, and nothing
\* outlives a Wait that succeeds or the goroutine that waits for the end of the
\* context (isolation_windows.go).
THEOREM SamplesAreContained == Iso!Spec => []Contained
<1>1. IsoInv /\ GoneInv => Contained
  <2> SUFFICES ASSUME IsoInv, GoneInv, NEW r \in Run
               PROVE  /\ sample[r] = "running" \/ children[r] # {} =>
                            /\ inJob[r] /\ killOnClose[r] /\ "outside" \notin children[r]
                            /\ \E h \in Handle : handles[h] = <<"job", r>>
                      /\ stage[r] = "error" =>
                            /\ sample[r] \in {"none", "dead"} /\ pipes[r] = {}
                            /\ \A h \in Handle : handles[h] = Closed \/ handles[h][2] # r
                      /\ stage[r] = "waited" => sample[r] = "dead"
                      /\ stage[r] = "waited" \/ watcher[r] = "gone" =>
                            sample[r] # "running" /\ children[r] = {}
    BY DEF Contained, Iso!Contained
  <2>1. ByStage(r) /\ children[r] \subseteq {"inside"}
    BY DEF IsoInv, IsoType
  <2>2. HoldsNone(r) => \A h \in Handle : handles[h] = Closed \/ handles[h][2] # r
    <3> SUFFICES ASSUME HoldsNone(r), NEW h \in Handle, handles[h] # Closed
                 PROVE  handles[h][2] # r
      OBVIOUS
    <3>1. handles[h] \in Kinds \X Run
      BY DEF IsoInv, IsoType
    <3>2. PICK k \in Kinds, q \in Run : handles[h] = <<k, q>>
      BY <3>1
    <3> QED BY <3>2 DEF HoldsNone
  <2> QED BY <2>1, <2>2 DEF ByStage, HoldsJob, GoneInv, Resumed
<1>2. Iso!Init => GoneInv
  BY DEF Iso!Init, GoneInv
<1> QED BY IsoInit, IsoStep, KillInit, KillStep, GoneStep, <1>1, <1>2, PTL DEF Iso!Spec

-----------------------------------------------------------------------------
(* Command: the orchestrator's invariant in both modes.                    *)

USE DEF Terminal, Status, FileState, ProcState, AfterWait, Label, Idle, Waiting, Ending, Unsettled,
        daemonVars, queueVars, storeVars, fileVars, workerVars, runVars

\* The end of the process, which main may bring about in any state.
LEMMA EndKeeps == ASSUME IInv, ProcessEnds PROVE IInv'
<1>1. TypeOK'
  <2> USE DEF IInv, TypeOK, ProcessEnds
  <2>1. submit' \in [Job -> {"none", "analysed", "saved", "accepted", "rejected", "lost"}]
    OBVIOUS
  <2>2. queue' \in Seq(Job) /\ pushed' \in Seq(Job) /\ started' \in Seq(Job)
    OBVIOUS
  <2>3. /\ row' \in [Job -> Status \cup {"absent"}] /\ verdict' \in [Job -> BOOLEAN]
        /\ findings' \in [Job -> BOOLEAN] /\ cutOff' \subseteq Job
        /\ html' \in [Job -> FileState] /\ json' \in [Job -> FileState]
    OBVIOUS
  <2>4. proc' \in [Job -> ProcState]
    BY EndTypes
  <2>5. /\ up' \in BOOLEAN /\ ctxDone' \in BOOLEAN /\ storeOpen' \in BOOLEAN
        /\ pc' \in Label /\ cur' \in Job \cup {NoJob}
        /\ mem' \in {"none", "running", "completed", "timeout"}
        /\ runCtx' \in {"none", "live", "done"} /\ waiting' \in BOOLEAN /\ done' \in BOOLEAN
    OBVIOUS
  <2> QED BY <2>1, <2>2, <2>3, <2>4, <2>5
<1>2. PWorker'
  BY DEF ProcessEnds, PWorker
<1>3. PQueue'
  BY DEF ProcessEnds, PQueue, FifoOrder
<1>4. PUnseen'
  BY UnseenProcessEnds
<1>5. PCurrent'
  BY DEF ProcessEnds, PCurrent
<1>6. ASSUME NEW j \in Job  PROVE ResultOf(j)'
  <2>1. ResultOf(j)
    BY DEF IInv, PResult
  <2>2. /\ proc[j] \in AfterWait => proc'[j] \in AfterWait
        /\ KillOnClose => proc'[j] \notin {"alive", "adrift"}
        /\ proc'[j] = "alive" => proc[j] = "alive"
        /\ proc'[j] = "adrift" => proc[j] = "adrift"
    BY EndTypes DEF IInv, TypeOK
  <2>3. UNCHANGED <<cutOff, row, verdict, findings, html, json>>
    BY DEF ProcessEnds
  <2> QED BY <2>1, <2>2, <2>3 DEF ResultOf
<1> QED BY <1>1, <1>2, <1>3, <1>4, <1>5, <1>6 DEF IInv, PResult

\* A step of the orchestrator itself.
LEMMA EngineKeeps == ASSUME IInv, [Next]_vars PROVE IInv'
<1>1. TypeOK'
  BY TypeStep DEF IInv
<1> QED BY <1>1, WorkerStep, QueueStep, UnseenStep, CurrentStep, ResultStep DEF IInv

\* A report follows the HTML and the return of Wait, whatever becomes of the row.
ReportsLast == \A j \in Job : json[j] # "none" => html[j] = "full" /\ proc[j] \in AfterWait

\* A sample that was started stays so, and one that Wait has returned for too.
LEMMA ProcessForward ==
  ASSUME IInv, [Next]_vars \/ ProcessEnds, NEW j \in Job
  PROVE  /\ proc[j] # "none" => proc'[j] # "none"
         /\ proc[j] \in AfterWait => proc'[j] \in AfterWait
<1>1. proc \in [Job -> ProcState]
  BY DEF IInv, TypeOK
<1>2. CASE ProcessEnds
  BY <1>1, <1>2, EndTypes
<1>3. CASE CreateProcess
  BY <1>1, <1>3, CurrentJob DEF CreateProcess, IInv, PCurrent
<1>4. CASE StartMonitor
  BY <1>1, <1>4 DEF StartMonitor, Killed
<1>5. CASE KillExpired
  BY <1>1, <1>5 DEF KillExpired, Killed
<1>6. CASE WaitReturns \/ WaitFails
  BY <1>1, <1>6 DEF WaitReturns, WaitFails
<1>7. CASE UNCHANGED proc
  BY <1>7
<1>8. CASE WatcherKills \/ \E k \in Job : SampleExits(k)
  <2>1. PICK k \in Job : EndOf(k)
    BY <1>8, SampleEnds
  <2> QED BY <2>1 DEF EndOf
<1> QED
  BY <1>2, <1>3, <1>4, <1>5, <1>6, <1>7, <1>8
  DEF Next, Worker, vars, CheckContext, Pop, MarkRunning, FailJob, SelectDone, SelectExpired,
      SelectParks, JoinWait, TearDown, SaveFinalStatus, ReadJob, ScoreJob, SaveFindings, WriteHTML,
      CreateJSON, EncodeJSON, Deadline, Cancel, Close, Crash, NewOrchestrator, AnalyzeFileStatic,
      SaveQueued, Push

\* The JSON is created after the HTML is whole, and that after <-doneChan.
LEMMA ReportsLastStep ==
  ASSUME IInv, ReportsLast, [Next]_vars \/ ProcessEnds  PROVE ReportsLast'
<1>1. /\ json \in [Job -> FileState] /\ html \in [Job -> FileState]
  BY DEF IInv, TypeOK
<1>2. CASE UNCHANGED fileVars
  BY <1>2, ProcessForward DEF ReportsLast
<1>3. CASE WriteHTML
  BY <1>1, <1>3, CurrentJob DEF WriteHTML, ReportsLast, IInv, PCurrent
<1>4. CASE CreateJSON \/ EncodeJSON
  <2>1. html[cur] = "full" /\ proc[cur] \in AfterWait /\ UNCHANGED <<html, proc>>
    BY <1>4, CurrentJob DEF CreateJSON, EncodeJSON, IInv, PCurrent, PWorker
  <2>2. \A j \in Job : j # cur => json'[j] = json[j]
    BY <1>1, <1>4 DEF CreateJSON, EncodeJSON
  <2> QED BY <2>1, <2>2 DEF ReportsLast
<1> QED
  BY <1>2, <1>3, <1>4
  DEF Next, Worker, vars, CheckContext, Pop, MarkRunning, CreateProcess, StartMonitor, FailJob,
      SelectDone, SelectExpired, SelectParks, KillExpired, JoinWait, TearDown, SaveFinalStatus,
      ReadJob, ScoreJob, SaveFindings, WatcherKills, WaitReturns, WaitFails, CloseDone, SampleExits,
      Deadline, Cancel, Close, Crash, ProcessEnds, NewOrchestrator, AnalyzeFileStatic, SaveQueued,
      Push

-----------------------------------------------------------------------------
(* Standalone.                                                             *)

\* A step of main is one of the orchestrator, or ends the process.
LEMMA CliMoves == ASSUME [CliNext]_<<vars, cliVars>>  PROVE [Next]_vars \/ ProcessEnds
  BY StandaloneAssumption DEF CliNext, Cli, Engine, CliSubmit, CliRefused, CliPoll, CliFailed,
     CliStat, CliRead, CliGivesUp, Exit, Next

\* The store is never closed beside a report, and once main has exited there is no
\* daemon left to change a file or a row.
CliInv == /\ IInv /\ ReportsLast /\ PrintedMeansScored /\ cutOff = {}
          /\ cli \in {"printed", "refused", "failed"} => ~up

\* Every step of main, and every step of the engine beside it.
LEMMA CliStep == CliInv /\ [CliNext]_<<vars, cliVars>> => CliInv'
<1> SUFFICES ASSUME CliInv, [CliNext]_<<vars, cliVars>>  PROVE CliInv'
  OBVIOUS
<1> USE StandaloneAssumption
<1>1. [Next]_vars \/ ProcessEnds
  BY CliMoves
<1>2. IInv' /\ ReportsLast'
  BY <1>1, EndKeeps, EngineKeeps, ReportsLastStep DEF CliInv
<1>c. cutOff' = {}
  <2>1. UNCHANGED cutOff
    BY DEF CliNext, Cli, Engine, CliSubmit, CliRefused, CliPoll, CliFailed, CliStat, CliRead,
         CliGivesUp, Exit, ProcessEnds, AnalyzeFileStatic, SaveQueued, Push, Worker, CheckContext,
         Pop, MarkRunning, CreateProcess, StartMonitor, FailJob, SelectDone, SelectExpired,
         SelectParks, KillExpired, JoinWait, TearDown, SaveFinalStatus, ReadJob, ScoreJob,
         SaveFindings, WriteHTML, CreateJSON, EncodeJSON, WatcherKills, WaitReturns, WaitFails,
         CloseDone, SampleExits, Deadline, vars
  <2> QED BY <2>1 DEF CliInv
<1>3. CASE cli' = cli /\ cli \notin {"printed", "refused", "failed"}
  BY <1>2, <1>c, <1>3 DEF CliInv, PrintedMeansScored
<1>4. CASE cli' \notin {"printed", "refused", "failed"}
  BY <1>2, <1>c, <1>4 DEF CliInv, PrintedMeansScored
<1>5. CASE cli \in {"printed", "refused", "failed"}
  <2>1. ~up
    BY <1>5 DEF CliInv
  <2>2. /\ UNCHANGED <<cli, up, row, verdict, findings, html, json>>
        /\ proc[Target] \in AfterWait => proc'[Target] \in AfterWait
    <3>1. (\E j \in Job : SampleExits(j)) \/ UNCHANGED vars
      BY <1>5, <2>1 DEF CliNext, Cli, Engine, CliSubmit, CliRefused, CliPoll, CliFailed, CliStat,
           CliRead, CliGivesUp, Worker, CheckContext, Pop, MarkRunning, CreateProcess, StartMonitor,
           FailJob, SelectDone, SelectExpired, SelectParks, KillExpired, JoinWait, TearDown,
           SaveFinalStatus, ReadJob, ScoreJob, SaveFindings, WriteHTML, CreateJSON, EncodeJSON,
           WatcherKills, WaitReturns, WaitFails, CloseDone, Deadline
    <3>2. UNCHANGED cli
      BY <1>5 DEF CliNext, Cli, Engine, cliVars, CliSubmit, CliRefused, CliPoll, CliFailed, CliStat,
           CliRead, CliGivesUp
    <3>3. UNCHANGED <<up, row, verdict, findings, html, json>>
      BY <3>1 DEF SampleExits, vars
    <3> QED BY <1>1, <3>2, <3>3, ProcessForward DEF CliInv
  <2> QED BY <1>2, <1>c, <2>1, <2>2 DEF CliInv, PrintedMeansScored
<1>6. CASE cli' \in {"printed", "refused", "failed"} /\ ProcessEnds
           /\ (CliRead \/ CliRefused \/ CliFailed)
  <2>1. ~up' /\ UNCHANGED <<row, verdict, findings, html, json>>
    BY <1>6 DEF ProcessEnds
  <2>2. CASE cli' = "printed"
    <3>1. json[Target] = "full"
      BY <1>6, <2>2 DEF CliRead, CliRefused, CliFailed, Exit
    <3>2. html[Target] = "full" /\ proc[Target] \in AfterWait
      BY <3>1 DEF CliInv, ReportsLast
    <3>3. "store" \notin Faults => verdict[Target] /\ findings[Target] /\ row[Target] = "completed"
      BY <3>1 DEF CliInv, IInv, PResult, ResultOf
    <3>4. proc'[Target] \in AfterWait
      BY <1>6, <3>2, ProcessForward DEF CliInv
    <3> QED BY <1>2, <1>c, <2>1, <2>2, <3>1, <3>2, <3>3, <3>4 DEF CliInv, PrintedMeansScored
  <2>3. CASE cli' = "refused"
    <3>1. submit[Target] = "rejected"
      BY <1>6, <2>3 DEF CliRead, CliRefused, CliFailed, Exit
    <3>2. json[Target] = "none" /\ row[Target] \in {"absent", "queued"}
      BY <3>1 DEF CliInv, IInv, PUnseen, Unseen
    <3>3. ~verdict[Target]
      BY <3>2 DEF CliInv, IInv, PResult, ResultOf
    <3> QED BY <1>2, <1>c, <2>1, <2>3, <3>2, <3>3 DEF CliInv, PrintedMeansScored
  <2>4. CASE cli' = "failed"
    <3>1. row[Target] = "failed"
      BY <1>6, <2>4 DEF CliRead, CliRefused, CliFailed, Exit
    <3>2. json[Target] = "none" /\ ~verdict[Target]
      BY <3>1 DEF CliInv, IInv, PResult, ResultOf
    <3> QED BY <1>2, <1>c, <2>1, <2>4, <3>2 DEF CliInv, PrintedMeansScored
  <2> QED BY <1>6, <2>2, <2>3, <2>4
<1> QED
  BY <1>3, <1>4, <1>5, <1>6
  DEF CliNext, Cli, Engine, cliVars, CliSubmit, CliRefused, CliPoll, CliFailed, CliStat, CliRead,
      CliGivesUp, Exit

\* A summary is printed only of a whole report of a sample that ran, ended and
\* was scored, whatever the worker and its goroutines do between a stat and a
\* read; a refused or failed job left no report (cmd/lemas).
THEOREM SummariesAreScored == CliSpec => []PrintedMeansScored
<1>1. CliInit => CliInv
  BY Initially DEF CliInit, CliInv, Init, ReportsLast, PrintedMeansScored
<1>2. CliInv => PrintedMeansScored
  BY DEF CliInv
<1> QED BY CliStep, <1>1, <1>2, PTL DEF CliSpec

\* The target's report is still to be made, by a worker that goes straight to it.
ToReport == cur = Target /\ pc \in {"report", "score", "findings", "html", "json"}

Over == {"completed", "timeout"}

\* While nothing fails, a job with such a row and no report.json is ToReport; and
\* main goes to os.Stat only for such a row.
Reporting ==
    /\ cli \in {"submit", "poll", "stat", "read"} => up
    /\ up => storeOpen
    /\ up /\ row[Target] \in Over /\ json[Target] = "none" => ToReport
    /\ cli = "stat" => row[Target] \in Over

\* A row that is over stays over; a save that ends a job is of the job in hand.
LEMMA OverStays ==
  ASSUME IInv, "store" \notin Faults, up, storeOpen,
         Worker \/ WatcherKills \/ WaitReturns \/ WaitFails \/ Deadline \/ \E j \in Job : SampleExits(j)
  PROVE  /\ row[Target] \in Over => row'[Target] \in Over
         /\ row[Target] \notin Over /\ row'[Target] \in Over =>
                cur = Target /\ (SaveFinalStatus \/ ScoreJob)
<1> USE StandaloneAssumption DEF Over
<1>1. row \in [Job -> Status \cup {"absent"}] /\ ~StoreErrs
  BY DEF IInv, TypeOK, StoreErrs
<1>2. CASE MarkRunning \/ FailJob
  <2>1. PICK s \in {"running", "failed"} : row' = [row EXCEPT ![cur] = s]
    BY <1>1, <1>2 DEF MarkRunning, FailJob, SaveJob, SaveJobOk, SaveJobFails
  <2>2. row[cur] \in {"queued", "running"}
    BY <1>2, CurrentJob DEF MarkRunning, FailJob, IInv, PCurrent
  <2> QED BY <1>1, <2>1, <2>2
<1>3. CASE SaveFinalStatus
  <2>1. row' = [row EXCEPT ![cur] = mem]
    BY <1>1, <1>3 DEF SaveFinalStatus, SaveJob, SaveJobOk, SaveJobFails
  <2>2. row[cur] \in {"queued", "running"}
    BY <1>3, CurrentJob DEF SaveFinalStatus, IInv, PCurrent
  <2> QED BY <1>1, <1>3, <2>1, <2>2
<1>4. CASE ScoreJob
  <2>1. row' = [row EXCEPT ![cur] = "completed"]
    BY <1>1, <1>4 DEF ScoreJob, SaveJob, SaveJobOk, SaveJobFails
  <2> QED BY <1>1, <1>4, <2>1
<1>5. CASE UNCHANGED row
  BY <1>5
<1> QED
  BY <1>2, <1>3, <1>4, <1>5
  DEF Worker, CheckContext, Pop, CreateProcess, StartMonitor, SelectDone, SelectExpired,
      SelectParks, KillExpired, JoinWait, TearDown, ReadJob, SaveFindings, WriteHTML, CreateJSON,
      EncodeJSON, WatcherKills, WaitReturns, WaitFails, CloseDone, SampleExits, Deadline

\* The worker goes from the final status to the report without a way out.
LEMMA EngineReports ==
  ASSUME IInv, "store" \notin Faults, "file" \notin Faults, up, storeOpen,
         row[Target] \in Over /\ json[Target] = "none" => ToReport,
         Worker \/ WatcherKills \/ WaitReturns \/ WaitFails \/ Deadline \/ \E j \in Job : SampleExits(j),
         row'[Target] \in Over, json'[Target] = "none"
  PROVE  ToReport'
<1> USE StandaloneAssumption DEF ToReport
<1>1. ReadJob => pc' = "score" /\ cur' = cur
  <2> SUFFICES ASSUME ReadJob  PROVE pc' = "score" /\ cur' = cur
    OBVIOUS
  <2>1. row[cur] # "absent" /\ ~StoreErrs
    BY CurrentJob DEF ReadJob, IInv, PCurrent, StoreErrs
  <2> QED BY <2>1 DEF ReadJob
<1>2. json[Target] = "none"
  <2>1. CASE CreateJSON \/ EncodeJSON
    <3>1. \E s \in {"partial", "full"} : json' = [json EXCEPT ![cur] = s]
      BY <2>1 DEF CreateJSON, EncodeJSON
    <3> QED BY <3>1 DEF IInv, TypeOK
  <2>2. CASE UNCHANGED json
    BY <2>2
  <2> QED
    BY <2>1, <2>2
    DEF Worker, CheckContext, Pop, MarkRunning, CreateProcess, StartMonitor, FailJob, SelectDone,
        SelectExpired, SelectParks, KillExpired, JoinWait, TearDown, SaveFinalStatus, ReadJob,
        ScoreJob, SaveFindings, WriteHTML, WatcherKills, WaitReturns, WaitFails, CloseDone,
        SampleExits, Deadline
<1>3. CASE row[Target] \notin Over
  <2>1. cur = Target /\ (SaveFinalStatus \/ ScoreJob)
    BY <1>3, OverStays
  <2> QED BY <2>1 DEF SaveFinalStatus, ScoreJob
<1>4. CASE row[Target] \in Over
  <2>1. cur = Target /\ pc \in {"report", "score", "findings", "html", "json"}
    BY <1>2, <1>4
  <2>2. CASE ReadJob \/ ScoreJob \/ SaveFindings
    BY <1>1, <2>1, <2>2 DEF ScoreJob, SaveFindings
  <2>3. CASE WriteHTML
    BY <2>1, <2>3 DEF WriteHTML
  <2>4. CASE CreateJSON
    <3>1. json'[Target] = "partial"
      BY <2>1, <2>4 DEF CreateJSON, IInv, TypeOK
    <3> QED BY <3>1
  <2>5. CASE UNCHANGED <<pc, cur>>
    BY <2>1, <2>5
  <2>6. ReadJob \/ ScoreJob \/ SaveFindings \/ WriteHTML \/ CreateJSON \/ UNCHANGED <<pc, cur>>
    BY <2>1
    DEF Worker, CheckContext, Pop, MarkRunning, CreateProcess, StartMonitor, FailJob, SelectDone,
        SelectExpired, SelectParks, KillExpired, JoinWait, TearDown, SaveFinalStatus, EncodeJSON,
        WatcherKills, WaitReturns, WaitFails, CloseDone, SampleExits, Deadline, WakeExpired
  <2> QED BY <2>2, <2>3, <2>4, <2>5, <2>6
<1> QED BY <1>3, <1>4

LEMMA ReportingStep ==
  ASSUME "store" \notin Faults, "file" \notin Faults, IInv, Reporting, [CliNext]_<<vars, cliVars>>
  PROVE  Reporting'
<1> USE StandaloneAssumption
<1>1. CASE ProcessEnds /\ cli' \notin {"submit", "poll", "stat", "read"}
  BY <1>1 DEF ProcessEnds, Reporting
<1>2. CASE UNCHANGED vars /\ (CliPoll \/ CliStat \/ UNCHANGED cliVars)
  <2>1. UNCHANGED <<up, storeOpen, row, json, cur, pc>>
    BY <1>2 DEF vars
  <2>2. cli' \in {"submit", "poll", "stat", "read"} => up
    BY <1>2 DEF CliPoll, CliStat, Exit, cliVars, Reporting
  <2>3. cli' = "stat" => row[Target] \in Over
    BY <1>2 DEF CliPoll, CliStat, Exit, cliVars, Reporting, Over
  <2> QED BY <2>1, <2>2, <2>3 DEF Reporting, ToReport
<1>3. CASE CliSubmit
  <2>1. up /\ cli' # "stat" /\ UNCHANGED <<up, storeOpen, json, cur, pc>>
    BY <1>3 DEF CliSubmit, AnalyzeFileStatic, SaveQueued, Push
  <2>2. row'[Target] = row[Target] \/ row'[Target] = "queued"
    BY <1>3 DEF CliSubmit, AnalyzeFileStatic, SaveQueued, Push, SaveJobOk, SaveJobFails, IInv,
                TypeOK
  <2> QED BY <2>1, <2>2 DEF Reporting, ToReport, Over
<1>4. CASE Engine
  <2>1. /\ Worker \/ WatcherKills \/ WaitReturns \/ WaitFails \/ Deadline \/ \E j \in Job : SampleExits(j)
        /\ UNCHANGED cli
    BY <1>4 DEF Engine, cliVars
  <2>2. UNCHANGED <<up, storeOpen>>
    BY <2>1
    DEF Worker, CheckContext, Pop, MarkRunning, CreateProcess, StartMonitor, FailJob, SelectDone,
        SelectExpired, SelectParks, KillExpired, JoinWait, TearDown, SaveFinalStatus, ReadJob,
        ScoreJob, SaveFindings, WriteHTML, CreateJSON, EncodeJSON, WatcherKills, WaitReturns,
        WaitFails, CloseDone, SampleExits, Deadline
  <2>3. CASE ~up
    BY <2>1, <2>2, <2>3 DEF Reporting
  <2>4. CASE up
    <3>1. row'[Target] \in Over /\ json'[Target] = "none" => ToReport'
      BY <2>1, <2>4, EngineReports DEF Reporting
    <3>2. row[Target] \in Over => row'[Target] \in Over
      BY <2>1, <2>4, OverStays DEF Reporting
    <3> QED BY <2>1, <2>2, <3>1, <3>2 DEF Reporting
  <2> QED BY <2>3, <2>4
<1> QED
  BY <1>1, <1>2, <1>3, <1>4
  DEF CliNext, Cli, CliRefused, CliPoll, CliFailed, CliStat, CliRead, CliGivesUp, Exit, vars,
      cliVars

\* While no save and no file fails, "analysis timed out with no report generated" is
\* never true when it is said: the worker is at the report of that very job, and main
\* ends it there (cmd/lemas/main.go:161).  Run cli_noreport shows that it is said.
THEOREM MessageIsPremature ==
  ASSUME "store" \notin Faults, "file" \notin Faults
  PROVE  CliSpec => [][(cli' = "noreport" /\ cli # "noreport") => ToReport]_<<vars, cliVars>>
<1>1. CliInit => IInv /\ Reporting
  <2> SUFFICES ASSUME CliInit  PROVE IInv /\ Reporting
    OBVIOUS
  <2>1. IInv
    BY Initially DEF CliInit
  <2>2. up /\ storeOpen /\ row[Target] = "absent" /\ cli = "submit"
    BY StandaloneAssumption DEF CliInit, Init
  <2> QED BY <2>1, <2>2 DEF Reporting, Over
<1>2. IInv /\ [CliNext]_<<vars, cliVars>> => IInv'
  BY CliMoves, EndKeeps, EngineKeeps
<1>3. IInv /\ Reporting /\ [CliNext]_<<vars, cliVars>> => Reporting'
  BY ReportingStep
<1>4. IInv /\ Reporting /\ [CliNext]_<<vars, cliVars>> =>
          [(cli' = "noreport" /\ cli # "noreport") => ToReport]_<<vars, cliVars>>
  <2> SUFFICES ASSUME Reporting, CliNext, cli' = "noreport", cli # "noreport"  PROVE ToReport
    BY DEF cliVars
  <2>1. cli = "stat" /\ json[Target] = "none"
    BY DEF CliNext, Cli, Engine, cliVars, CliSubmit, CliRefused, CliPoll, CliFailed, CliStat,
           CliRead, CliGivesUp, Exit
  <2> QED BY <2>1 DEF Reporting
<1> QED BY <1>1, <1>2, <1>3, <1>4, PTL DEF CliSpec

-----------------------------------------------------------------------------
(* Daemon.  As long as no other request writes to the base name of a job, *)
(* what lies there is its own upload or nothing (Own).                     *)

Answered == {"answer", "answered"}

HttpType ==
    /\ http \in [Job -> {"idle", "created", "submit", "refused"} \cup Answered]
    /\ origin \in [Job -> BaseName \cup {Local, NoFile}]
    /\ dir \in [BaseName -> Job \cup {NoFile}] /\ content \in [Job -> Job \cup {"empty", "mixed"}]
    /\ fd \in [Job -> Job \cup {NoFile}] /\ disturbed \in [Job -> BOOLEAN]
    /\ ran \in [Job -> Job \cup {"nothing", "empty", "mixed"}]

\* A file lies at the base name of the request that made it, and is open only
\* in requests that sent that name.
Names ==
    /\ \A n \in BaseName : dir[n] # NoFile => origin[dir[n]] = n /\ http[dir[n]] # "idle"
    /\ \A j \in Job : fd[j] # NoFile => origin[fd[j]] = origin[j] /\ http[fd[j]] # "idle"
    /\ \A j \in Job : /\ http[j] = "idle" => fd[j] = NoFile
                      /\ http[j] = "created" => fd[j] # NoFile /\ origin[j] \in BaseName
                      /\ http[j] \in {"submit"} \cup Answered => origin[j] \in BaseName \cup {Local}

\* What lies at the path of a job that no other request has disturbed.
Own(j) ==
    /\ http[j] = "created" => content[fd[j]] = "empty" /\ dir[origin[j]] \in {fd[j], NoFile}
    /\ http[j] \in {"submit"} \cup Answered /\ origin[j] # Local =>
          (dir[origin[j]] # NoFile => content[dir[origin[j]]] = j)

Owned == \A j \in Job : ~disturbed[j] /\ ran[j] = "nothing" => Own(j)

\* A job is in the worker's hands only once its request was answered, and once.
Started == \A j \in Job : /\ submit[j] = "accepted" => http[j] \in Answered
                          /\ ran[j] # "nothing" => proc[j] # "none"

HttpInv == HttpType /\ Names /\ Owned /\ Started /\ OwnUpload
DaemonInv == IInv /\ HttpInv

\* temp_uploads is empty and no request has come.
LEMMA HttpInit == DaemonInit => HttpInv
  BY DaemonAssumption DEF DaemonInit, Init, HttpInv, HttpType, Names, Owned, Own, Started,
                          OwnUpload, Answered

\* A request that writes at a base name disturbs every job that still has its
\* upload there: the path of an undisturbed one is another.
LEMMA OthersOwn ==
  ASSUME HttpInv, NEW j \in Job, NEW n \in BaseName, NEW f \in Job,
         (f = j /\ http[j] = "idle") \/ origin[f] = n,
         Written(j, n),
         \A m \in BaseName : m # n => dir'[m] = dir[m],
         \A g \in Job : g # f => content'[g] = content[g],
         \A k \in Job : k # j => UNCHANGED <<http[k], origin[k], fd[k], ran[k]>>,
         NEW k \in Job, k # j, ~disturbed'[k], ran'[k] = "nothing"
  PROVE  Own(k)'
<1> USE DaemonAssumption
<1>1. disturbed'[k] = (disturbed[k] \/ (k # j /\ origin[k] = n /\ ran[k] = "nothing"))
  BY DEF Written
<1>2. ran[k] = "nothing" /\ ~disturbed[k] /\ origin[k] # n
  BY <1>1
<1>3. Own(k)
  BY <1>2 DEF HttpInv, Owned
<1>4. http[k] = "created" => fd[k] \in Job /\ fd[k] # f
  BY <1>2 DEF HttpInv, Names, HttpType
<1>5. \A m \in BaseName : m = origin[k] => dir'[m] = dir[m] /\ (dir[m] # NoFile => dir[m] \in Job /\ dir[m] # f)
  BY <1>2 DEF HttpInv, Names, HttpType
<1>6. /\ http[k] = "created" => origin[k] \in BaseName
      /\ http[k] \in {"submit"} \cup Answered => origin[k] \in BaseName \cup {Local}
  BY DEF HttpInv, Names
<1> QED BY <1>2, <1>3, <1>4, <1>5, <1>6 DEF Own

\* Every step of a request and of the removal that follows it.
LEMMA RequestKeeps == ASSUME DaemonInv, NEW j \in Job, Request(j)  PROVE HttpInv'
<1> USE DaemonAssumption
<1>t. HttpType /\ Names /\ Owned /\ Started /\ OwnUpload
  BY DEF DaemonInv, HttpInv
<1>1. CASE Create(j)
  <2>0. UNCHANGED <<ran, proc, submit>> /\ http[j] = "idle"
    BY <1>1 DEF Create, vars, runVars
  <2>1. CASE http' = [http EXCEPT ![j] = "refused"] /\ UNCHANGED <<origin, uploadVars, disturbed>>
    <3>1. HttpType' /\ Names' /\ Started'
      BY <1>t, <2>0, <2>1 DEF HttpType, Names, Started, uploadVars, Answered
    <3>2. Owned'
      BY <1>t, <2>0, <2>1 DEF HttpType, Owned, Own, uploadVars, Answered
    <3>3. OwnUpload'
      BY <1>t, <2>0, <2>1 DEF OwnUpload
    <3> QED BY <3>1, <3>2, <3>3 DEF HttpInv
  <2>2. ASSUME NEW n \in BaseName, NEW f \in Job, f = IF dir[n] = NoFile THEN j ELSE dir[n],
               dir' = [dir EXCEPT ![n] = f], content' = [content EXCEPT ![f] = "empty"],
               fd' = [fd EXCEPT ![j] = f], http' = [http EXCEPT ![j] = "created"],
               origin' = [origin EXCEPT ![j] = n], Written(j, n)
        PROVE  HttpInv'
    <3>1. HttpType'
      BY <1>t, <2>0, <2>2 DEF HttpType, Written
    <3>2. f # j => origin[f] = n /\ http[f] # "idle"
      BY <1>t, <2>2 DEF Names
    <3>3. (\A m \in BaseName : dir[m] # j) /\ \A k \in Job : fd[k] # j
      BY <1>t, <2>0 DEF Names
    <3>4. Names'
      BY <1>t, <2>2, <3>2, <3>3 DEF Names, HttpType
    <3>5. \A k \in Job : disturbed[k] => disturbed'[k]
      BY <2>2 DEF Written
    <3>6. Started'
      BY <1>t, <2>0, <2>2 DEF HttpType, Started, Answered
    <3>7. OwnUpload'
      BY <1>t, <2>0, <3>5 DEF OwnUpload
    <3>8. Own(j)'
      BY <1>t, <2>2 DEF Own, HttpType, Answered
    <3>9. ASSUME NEW k \in Job, k # j, ~disturbed'[k], ran'[k] = "nothing"  PROVE Own(k)'
      <4>1. /\ \A m \in BaseName : m # n => dir'[m] = dir[m]
            /\ \A g \in Job : g # f => content'[g] = content[g]
            /\ \A i \in Job : i # j => UNCHANGED <<http[i], origin[i], fd[i], ran[i]>>
        BY <1>t, <2>0, <2>2 DEF HttpType
      <4>2. (f = j /\ http[j] = "idle") \/ origin[f] = n
        BY <2>0, <3>2
      <4> QED BY <2>2, <3>9, <4>1, <4>2, OthersOwn DEF DaemonInv
    <3>10. Owned'
      BY <3>8, <3>9 DEF Owned
    <3> QED BY <3>1, <3>4, <3>6, <3>7, <3>10 DEF HttpInv
  <2> QED
    <3>1. \A n \in BaseName : (IF dir[n] = NoFile THEN j ELSE dir[n]) \in Job
      BY <1>t DEF HttpType
    <3> QED BY <1>1, <2>1, <2>2, <3>1 DEF Create
<1>2. CASE Copy(j)
  <2>0. UNCHANGED <<ran, proc, submit, origin, dir>> /\ http[j] = "created"
    BY <1>2 DEF Copy, vars, runVars
  <2>1. CASE http' = [http EXCEPT ![j] = "refused"] /\ fd' = [fd EXCEPT ![j] = NoFile]
             /\ UNCHANGED <<content, disturbed>>
    <3>1. HttpType' /\ Names' /\ Started'
      BY <1>t, <2>0, <2>1 DEF HttpType, Names, Started, Answered
    <3>2. Owned'
      BY <1>t, <2>0, <2>1 DEF HttpType, Owned, Own, Answered
    <3>3. OwnUpload'
      BY <1>t, <2>0, <2>1 DEF OwnUpload
    <3> QED BY <3>1, <3>2, <3>3 DEF HttpInv
  <2>2. ASSUME NEW c \in IF content[fd[j]] = "empty" THEN {j} ELSE {j, "mixed"},
               content' = [content EXCEPT ![fd[j]] = c],
               http' = [http EXCEPT ![j] = "submit"], Written(j, origin[j]), UNCHANGED fd
        PROVE  HttpInv'
    <3>1. fd[j] \in Job /\ origin[fd[j]] = origin[j]
      BY <1>t, <2>0 DEF HttpType, Names
    <3>2. HttpType'
      BY <1>t, <2>0, <2>2, <3>1 DEF HttpType, Written
    <3>3. Names'
      BY <1>t, <2>0, <2>2 DEF Names, HttpType
    <3>4. \A k \in Job : disturbed[k] => disturbed'[k]
      BY <2>2 DEF Written
    <3>5. Started'
      BY <1>t, <2>0, <2>2 DEF HttpType, Started, Answered
    <3>6. OwnUpload'
      BY <1>t, <2>0, <3>4 DEF OwnUpload
    <3>7. ~disturbed'[j] /\ ran'[j] = "nothing" => Own(j)'
      <4> SUFFICES ASSUME ~disturbed'[j], ran'[j] = "nothing"  PROVE Own(j)'
        OBVIOUS
      <4>1. Own(j)
        BY <1>t, <2>0, <3>4 DEF Owned
      <4>2. content'[fd[j]] = j
        BY <1>t, <2>0, <2>2, <3>1, <4>1 DEF Own, HttpType
      <4> QED BY <1>t, <2>0, <2>2, <4>1, <4>2 DEF Own, HttpType, Answered
    <3>8. ASSUME NEW k \in Job, k # j, ~disturbed'[k], ran'[k] = "nothing"  PROVE Own(k)'
      <4>1. disturbed'[k] = (disturbed[k] \/ (k # j /\ origin[k] = origin[j] /\ ran[k] = "nothing"))
        BY <2>2 DEF Written
      <4>2. origin[k] # origin[j] /\ Own(k)
        BY <1>t, <2>0, <3>8, <4>1 DEF Owned
      <4>3. http[k] = "created" => fd[k] \in Job /\ fd[k] # fd[j]
        BY <1>t, <3>1, <4>2 DEF Names, HttpType
      <4>4. \A m \in BaseName : m = origin[k] /\ dir[m] # NoFile => dir[m] \in Job /\ dir[m] # fd[j]
        BY <1>t, <3>1, <4>2 DEF Names, HttpType
      <4>5. http'[k] = http[k] /\ \A g \in Job : g # fd[j] => content'[g] = content[g]
        BY <1>t, <2>2, <3>8 DEF HttpType
      <4>6. /\ http[k] = "created" => origin[k] \in BaseName
            /\ http[k] \in {"submit"} \cup Answered => origin[k] \in BaseName \cup {Local}
        BY <1>t DEF Names
      <4> QED BY <2>0, <2>2, <3>8, <4>2, <4>3, <4>4, <4>5, <4>6 DEF Own
    <3>9. Owned'
      BY <3>7, <3>8 DEF Owned
    <3> QED BY <3>2, <3>3, <3>5, <3>6, <3>9 DEF HttpInv
  <2> QED BY <1>2, <2>1, <2>2 DEF Copy
<1>3. CASE NamePath(j)
  <2>0. UNCHANGED <<ran, proc, submit, dir, content, fd, disturbed>> /\ http[j] = "idle"
    BY <1>3 DEF NamePath, vars, runVars, uploadVars
  <2>1. HttpType' /\ Started'
    BY <1>3, <1>t, <2>0 DEF NamePath, HttpType, Started, Answered
  <2>2. Names'
    BY <1>3, <1>t, <2>0 DEF NamePath, HttpType, Names
  <2>3. Owned'
    BY <1>3, <1>t, <2>0 DEF NamePath, HttpType, Owned, Own, Answered
  <2>4. OwnUpload'
    BY <1>t, <2>0 DEF OwnUpload
  <2> QED BY <2>1, <2>2, <2>3, <2>4 DEF HttpInv
<1>4. CASE Submit(j)
  <2>0. /\ UNCHANGED <<ran, proc, origin, dir, content, fd, disturbed>> /\ http[j] = "submit"
        /\ \A k \in Job : k # j => submit'[k] = submit[k]
    BY <1>4 DEF Submit, AnalyzeFileStatic, SaveQueued, Push, runVars, uploadVars, DaemonInv, IInv,
                TypeOK
  <2>1. IF submit'[j] = "accepted" THEN http' = [http EXCEPT ![j] = "answer"] ELSE UNCHANGED http
    BY <1>4 DEF Submit
  <2>2. HttpType' /\ Started'
    BY <1>t, <2>0, <2>1 DEF HttpType, Started, Answered
  <2>3. Names'
    BY <1>t, <2>0, <2>1 DEF HttpType, Names
  <2>4. Owned'
    BY <1>t, <2>0, <2>1 DEF HttpType, Owned, Own, Answered
  <2>5. OwnUpload'
    BY <1>t, <2>0 DEF OwnUpload
  <2> QED BY <2>2, <2>3, <2>4, <2>5 DEF HttpInv
<1>5. CASE Refuse(j) \/ Answer(j) \/ FiveSecondsLater(j)
  <2>0. /\ UNCHANGED <<ran, proc, submit, origin, content, disturbed>>
        /\ fd' = fd \/ fd' = [fd EXCEPT ![j] = NoFile]
        /\ \/ UNCHANGED http
           \/ http[j] = "answer" /\ http' = [http EXCEPT ![j] = "answered"]
           \/ http[j] = "submit" /\ submit[j] = "rejected" /\ http' = [http EXCEPT ![j] = "refused"]
        /\ http[j] = "created" => fd' = fd
    BY <1>5 DEF Refuse, Answer, FiveSecondsLater, vars, runVars
  <2>1. dir' = dir \/ RemoveUpload(j)
    BY <1>5 DEF Refuse, Answer, FiveSecondsLater
  <2>2. dir' \in [BaseName -> Job \cup {NoFile}] /\ \A n \in BaseName : dir'[n] \in {dir[n], NoFile}
    BY <1>t, <2>1 DEF RemoveUpload, HttpType
  <2>3. HttpType'
    BY <1>t, <2>0, <2>2 DEF HttpType, Answered
  <2>4. Started'
    BY <1>t, <2>0 DEF HttpType, Started, Answered
  <2>5. Names'
    BY <1>t, <2>0, <2>2 DEF HttpType, Names
  <2>6. Owned'
    <3> SUFFICES ASSUME NEW k \in Job, ~disturbed'[k], ran'[k] = "nothing"  PROVE Own(k)'
      BY DEF Owned
    <3>1. Own(k)
      BY <1>t, <2>0 DEF Owned
    <3>2. http'[k] = "created" => http[k] = "created" /\ fd'[k] = fd[k] /\ origin[k] \in BaseName
      BY <1>t, <2>0 DEF HttpType, Names
    <3>3. http'[k] \in {"submit"} \cup Answered =>
             http[k] \in {"submit"} \cup Answered /\ origin[k] \in BaseName \cup {Local}
      BY <1>t, <2>0 DEF HttpType, Names, Answered
    <3> QED BY <2>0, <2>2, <3>1, <3>2, <3>3 DEF Own
  <2>7. OwnUpload'
    BY <1>t, <2>0 DEF OwnUpload
  <2> QED BY <2>3, <2>4, <2>5, <2>6, <2>7 DEF HttpInv
<1> QED BY <1>1, <1>2, <1>3, <1>4, <1>5 DEF Request

\* The job at the launch was answered and has not run: what lies at its path is
\* its own unless it was disturbed.
LEMMA LaunchKeeps == ASSUME DaemonInv, Launch  PROVE HttpInv'
<1>t. HttpType /\ Names /\ Owned /\ Started /\ OwnUpload
  BY DEF DaemonInv, HttpInv
<1>0. UNCHANGED <<http, origin, dir, content, fd, disturbed, submit>>
  BY DEF Launch, CreateProcess, uploadVars
<1>1. cur \in Job /\ proc[cur] = "none"
  BY CurrentJob DEF DaemonInv, Launch, CreateProcess, IInv, PCurrent
<1>2. http[cur] \in Answered /\ ran[cur] = "nothing"
  <2>1. ~Unseen(cur)
    BY <1>1, CurrentSeen, OrchestratorAssumption DEF DaemonInv
  <2> QED BY <1>1, <1>t, <2>1 DEF Unseen, Started
<1>3. CASE UNCHANGED <<ran, proc>>
  BY <1>t, <1>0, <1>3 DEF HttpInv, HttpType, Names, Owned, Own, Started, OwnUpload
<1>4. CASE /\ Source(cur) # NoFile /\ ran' = [ran EXCEPT ![cur] = Source(cur)]
           /\ proc' = [proc EXCEPT ![cur] = "alive"]
  <2>1. Source(cur) \in Job \cup {"empty", "mixed"} /\ (Source(cur) = cur \/ disturbed[cur])
    <3>1. CASE origin[cur] = Local
      BY <1>1, <3>1 DEF Source
    <3>2. CASE origin[cur] # Local
      <4>1. dir[origin[cur]] # NoFile /\ Source(cur) = content[dir[origin[cur]]]
        BY <1>4, <3>2 DEF Source
      <4>2. ~disturbed[cur] => Source(cur) = cur
        BY <1>1, <1>2, <1>t, <3>2, <4>1 DEF Owned, Own
      <4>3. dir[origin[cur]] \in Job
        BY <1>1, <1>2, <1>t, <3>2, <4>1 DEF HttpType, Names, Answered
      <4> QED BY <1>1, <1>t, <4>1, <4>2, <4>3 DEF HttpType
    <3> QED BY <3>1, <3>2
  <2>2. HttpType' /\ Names'
    BY <1>0, <1>4, <1>t, <2>1 DEF HttpType, Names
  <2>3. OwnUpload'
    BY <1>0, <1>4, <1>t, <2>1 DEF HttpType, OwnUpload
  <2>4. Started'
    <3>1. proc \in [Job -> ProcState]
      BY DEF DaemonInv, IInv, TypeOK
    <3> QED BY <1>0, <1>1, <1>4, <1>t, <3>1 DEF HttpType, Started
  <2>5. Owned'
    <3> SUFFICES ASSUME NEW k \in Job, ~disturbed'[k], ran'[k] = "nothing"  PROVE Own(k)'
      BY DEF Owned
    <3>1. CASE k = cur
      BY <1>0, <1>1, <1>2, <1>4, <1>t, <2>1, <3>1 DEF Owned, Own, HttpType
    <3>2. CASE k # cur
      BY <1>0, <1>4, <1>t, <3>2 DEF Owned, Own, HttpType
    <3> QED BY <3>1, <3>2
  <2> QED BY <2>2, <2>3, <2>4, <2>5 DEF HttpInv
<1> QED BY <1>3, <1>4 DEF Launch, CreateProcess

\* Every step of the daemon in its orchestrator, its requests or both.
LEMMA DaemonStep == DaemonInv /\ [DaemonNext]_<<vars, httpVars>> => DaemonInv'
<1> SUFFICES ASSUME DaemonInv, [DaemonNext]_<<vars, httpVars>>  PROVE DaemonInv'
  OBVIOUS
<1>1. [Next]_vars \/ ProcessEnds
  BY DEF DaemonNext, Request, Create, Copy, NamePath, Submit, Refuse, Answer, FiveSecondsLater,
         Launch, Beside, Stop, Next, Worker
<1>2. IInv'
  BY <1>1, EndKeeps, EngineKeeps DEF DaemonInv
<1>3. CASE UNCHANGED httpVars /\ \A j \in Job : submit'[j] = "accepted" => submit[j] = "accepted"
  <2>1. \A j \in Job : proc[j] # "none" => proc'[j] # "none"
    BY <1>1, ProcessForward DEF DaemonInv
  <2>2. HttpType' /\ Names' /\ Owned' /\ OwnUpload'
    BY <1>3 DEF DaemonInv, HttpInv, HttpType, Names, Owned, Own, OwnUpload, httpVars, uploadVars
  <2>3. Started'
    BY <1>3, <2>1 DEF DaemonInv, HttpInv, Started, httpVars
  <2> QED BY <1>2, <2>2, <2>3 DEF DaemonInv, HttpInv
<1>4. ASSUME NEW j \in Job, Request(j)  PROVE DaemonInv'
  BY <1>2, <1>4, RequestKeeps DEF DaemonInv
<1>5. CASE Launch
  BY <1>2, <1>5, LaunchKeeps DEF DaemonInv
<1>6. CASE Beside \/ Stop \/ UNCHANGED <<vars, httpVars>>
  <2>1. UNCHANGED httpVars
    BY <1>6 DEF Beside, Stop
  <2>2. UNCHANGED submit \/ ProcessEnds
    BY <1>6 DEF Beside, Stop, vars, Worker, CheckContext, Pop, MarkRunning, CreateProcess,
         StartMonitor, FailJob, SelectDone, SelectExpired, SelectParks, KillExpired, JoinWait,
         TearDown, SaveFinalStatus, ReadJob, ScoreJob, SaveFindings, WriteHTML, CreateJSON,
         EncodeJSON, WatcherKills, WaitReturns, WaitFails, CloseDone, SampleExits, Deadline, Cancel,
         Close
  <2>3. \A j \in Job : submit'[j] = "accepted" => submit[j] = "accepted"
    BY <2>2 DEF ProcessEnds
  <2> QED BY <1>3, <2>1, <2>3
<1> QED BY <1>4, <1>5, <1>6 DEF DaemonNext

\* A job runs something other than its own upload only if a request with the
\* same base name wrote in between: no removal, refusal or leftover of an earlier
\* upload brings it about (handleSubmit, executeJob).
THEOREM UploadsRunAsSent == DaemonSpec => []OwnUpload
<1>1. DaemonInit => DaemonInv
  BY Initially, HttpInit DEF DaemonInit, DaemonInv
<1>2. DaemonInv => OwnUpload
  BY DEF DaemonInv, HttpInv
<1> QED BY DaemonStep, <1>1, <1>2, PTL DEF DaemonSpec
=============================================================================
