--------------------------- MODULE PipelineProofs ---------------------------
(***************************************************************************)
(* Theorems about module Pipeline, for channels of any capacity, any       *)
(* number of events and any selection of the faults.                       *)
(*                                                                         *)
(* The pipeline is seen as a relay of eight stages (Relay): the events     *)
(* table first, then what each goroutine holds and each channel carries,   *)
(* back to the hand of the monitor.  Along it the events lie in the order  *)
(* of their emission, and with the lost ones they are all that was emitted *)
(* (Flow).  A step of the program emits at the end of the relay, moves an  *)
(* event one stage on, drops what one stage holds, or leaves the relay     *)
(* alone; one lemma for each says that Flow survives it.                   *)
(***************************************************************************)
EXTENDS Pipeline, TLAPS

-----------------------------------------------------------------------------
(* Sequences of event numbers.                                             *)

\* In the order of emission; everything of S was emitted before all of T.
Rising(s) == \A i, k \in 1..Len(s) : i < k => s[i] < s[k]
Before(S, T) == \A x \in S, y \in T : x < y

\* What a concatenation contains, and when it is in order.
LEMMA ContentsEmpty == Contents(<<>>) = {}
  BY DEF Contents

LEMMA ContentsOne == ASSUME NEW e PROVE Contents(<<e>>) = {e}
  BY DEF Contents

LEMMA ContentsConcat ==
    ASSUME NEW s \in Seq(Nat), NEW t \in Seq(Nat)
    PROVE  Contents(s \o t) = Contents(s) \cup Contents(t)
<1>1. Contents(s \o t) \subseteq Contents(s) \cup Contents(t)
  BY DEF Contents
<1>2. Contents(s) \subseteq Contents(s \o t)
  <2> SUFFICES ASSUME NEW i \in 1..Len(s)  PROVE s[i] \in Contents(s \o t)
    BY DEF Contents
  <2> i \in 1..Len(s \o t) /\ (s \o t)[i] = s[i]
    OBVIOUS
  <2> QED BY DEF Contents
<1>3. Contents(t) \subseteq Contents(s \o t)
  <2> SUFFICES ASSUME NEW i \in 1..Len(t)  PROVE t[i] \in Contents(s \o t)
    BY DEF Contents
  <2> Len(s) + i \in 1..Len(s \o t) /\ (s \o t)[Len(s) + i] = t[i]
    OBVIOUS
  <2> QED BY DEF Contents
<1> QED BY <1>1, <1>2, <1>3

\* A concatenation is in order when its parts are and the first lies before the
\* second.
LEMMA RisingConcat ==
    ASSUME NEW s \in Seq(Nat), NEW t \in Seq(Nat)
    PROVE  Rising(s \o t) <=> Rising(s) /\ Rising(t) /\ Before(Contents(s), Contents(t))
<1>1. ASSUME Rising(s \o t)  PROVE Rising(s)
  <2> SUFFICES ASSUME NEW i \in 1..Len(s), NEW k \in 1..Len(s), i < k  PROVE s[i] < s[k]
    BY DEF Rising
  <2>1. (s \o t)[i] = s[i] /\ (s \o t)[k] = s[k] /\ i \in 1..Len(s \o t) /\ k \in 1..Len(s \o t)
    OBVIOUS
  <2> QED BY <1>1, <2>1 DEF Rising
<1>2. ASSUME Rising(s \o t)  PROVE Rising(t)
  <2> SUFFICES ASSUME NEW i \in 1..Len(t), NEW k \in 1..Len(t), i < k  PROVE t[i] < t[k]
    BY DEF Rising
  <2>1. /\ (s \o t)[Len(s) + i] = t[i] /\ (s \o t)[Len(s) + k] = t[k]
        /\ Len(s) + i \in 1..Len(s \o t) /\ Len(s) + k \in 1..Len(s \o t)
        /\ Len(s) + i < Len(s) + k
    OBVIOUS
  <2> QED BY <1>2, <2>1 DEF Rising
<1>3. ASSUME Rising(s \o t)  PROVE Before(Contents(s), Contents(t))
  <2> SUFFICES ASSUME NEW i \in 1..Len(s), NEW k \in 1..Len(t)  PROVE s[i] < t[k]
    BY DEF Before, Contents
  <2>1. /\ (s \o t)[i] = s[i] /\ (s \o t)[Len(s) + k] = t[k]
        /\ i \in 1..Len(s \o t) /\ Len(s) + k \in 1..Len(s \o t)
        /\ i < Len(s) + k
    OBVIOUS
  <2> QED BY <1>3, <2>1 DEF Rising
<1>4. ASSUME Rising(s), Rising(t), Before(Contents(s), Contents(t))  PROVE Rising(s \o t)
  <2> SUFFICES ASSUME NEW i \in 1..Len(s \o t), NEW k \in 1..Len(s \o t), i < k
               PROVE  (s \o t)[i] < (s \o t)[k]
    BY DEF Rising
  <2>1. CASE k <= Len(s)
    <3>1. i \in 1..Len(s) /\ k \in 1..Len(s) /\ (s \o t)[i] = s[i] /\ (s \o t)[k] = s[k]
      BY <2>1
    <3> QED BY <1>4, <3>1 DEF Rising
  <2>2. CASE i > Len(s)
    <3>1. /\ i - Len(s) \in 1..Len(t) /\ k - Len(s) \in 1..Len(t)
          /\ (s \o t)[i] = t[i - Len(s)] /\ (s \o t)[k] = t[k - Len(s)]
          /\ i - Len(s) < k - Len(s)
      BY <2>2
    <3> QED BY <1>4, <3>1 DEF Rising
  <2>3. CASE i <= Len(s) /\ k > Len(s)
    <3>1. /\ i \in 1..Len(s) /\ k - Len(s) \in 1..Len(t)
          /\ (s \o t)[i] = s[i] /\ (s \o t)[k] = t[k - Len(s)]
      BY <2>3
    <3>2. s[i] \in Contents(s) /\ t[k - Len(s)] \in Contents(t)
      BY <3>1 DEF Contents
    <3>3. s[i] < t[k - Len(s)]
      BY <1>4, <3>2 DEF Before
    <3> QED BY <3>1, <3>3
  <2>4. Len(s) \in Nat
    OBVIOUS
  <2> QED BY <2>1, <2>2, <2>3, <2>4
<1> QED BY <1>1, <1>2, <1>3, <1>4

\* Append, Head and Tail (a channel's send and receive) as concatenations.
LEMMA AppendIsConcat == \A s \in Seq(Nat), e \in Nat : Append(s, e) = s \o <<e>>
  OBVIOUS

LEMMA HeadAndTail ==
    ASSUME NEW s \in Seq(Nat), s # <<>>
    PROVE  /\ Head(s) \in Nat /\ Tail(s) \in Seq(Nat)
           /\ s = <<Head(s)>> \o Tail(s)
  OBVIOUS

-----------------------------------------------------------------------------
(* The relay in general: P is what each stage holds.                       *)
Stage == 1..8

\* All that the stages hold.
Together(C) == UNION {C[i] : i \in Stage}
Carried(P) == Together([i \in Stage |-> Contents(P[i])])

InOrder(C) == \A i, k \in Stage : i < k => Before(C[i], C[k])

\* If one stage gains something, all of them together do.
Gains(C, D, S, k) == D[k] = C[k] \cup S /\ \A i \in Stage \ {k} : D[i] = C[i]

LEMMA TogetherGains ==
    ASSUME NEW C, NEW D, NEW S, NEW k \in Stage, Gains(C, D, S, k)
    PROVE  Together(D) = Together(C) \cup S
<1>0. D[k] = C[k] \cup S /\ \A i \in Stage \ {k} : D[i] = C[i]
  BY DEF Gains
<1>1. ASSUME NEW x \in Together(D)  PROVE x \in Together(C) \cup S
  <2>1. PICK i \in Stage : x \in D[i]
    BY <1>1 DEF Together
  <2>2. x \in S \/ x \in C[i]
    BY <1>0, <2>1
  <2> QED BY <2>2 DEF Together
<1>2. ASSUME NEW x \in Together(C)  PROVE x \in Together(D)
  <2>1. PICK i \in Stage : x \in C[i]
    BY <1>2 DEF Together
  <2>2. x \in D[i]
    BY <1>0, <2>1
  <2> QED BY <2>2 DEF Together
<1>3. ASSUME NEW x \in S  PROVE x \in Together(D)
  <2>1. x \in D[k]
    BY <1>0, <1>3
  <2> QED BY <2>1 DEF Together
<1> QED BY <1>1, <1>2, <1>3

\* Events H go from the front of stage k to the end of stage l, the one before
\* it; C and D are the contents of the stages.
Shifts(C, D, H, k, l) ==
    /\ l = k - 1 /\ C[k] = H \cup D[k] /\ D[l] = C[l] \cup H /\ Before(H, D[k])
    /\ \A i \in Stage : i # l /\ i # k => D[i] = C[i]

\* Such events stay in order, and none comes or goes.
LEMMA OrderMoves ==
    ASSUME NEW C \in [Stage -> SUBSET Nat], NEW D \in [Stage -> SUBSET Nat],
           NEW H \in SUBSET Nat, NEW k \in Stage, NEW l \in Stage,
           InOrder(C), Shifts(C, D, H, k, l)
    PROVE  InOrder(D) /\ Together(D) = Together(C)
<1> SUFFICES ASSUME l = k - 1, C[k] = H \cup D[k], D[l] = C[l] \cup H, Before(H, D[k]),
                    \A i \in Stage : i # l /\ i # k => D[i] = C[i]
             PROVE  InOrder(D) /\ Together(D) = Together(C)
  BY DEF Shifts
<1>1. ASSUME NEW i \in Stage, NEW j \in Stage, i < j  PROVE Before(D[i], D[j])
  <2>1. Before(C[i], C[j])
    BY <1>1 DEF InOrder
  <2>2. i < l \/ i = l \/ i = k \/ i > k
    BY DEF Stage
  <2>3. j < l \/ j = l \/ j = k \/ j > k
    BY DEF Stage
  <2>4. CASE i = l /\ j = k
    BY <2>1, <2>4 DEF Before
  <2>5. CASE i = l /\ j > k
    <3>1. Before(C[k], C[j])
      BY <2>5 DEF InOrder
    <3>2. D[j] = C[j]
      BY <2>5 DEF Stage
    <3> QED BY <2>1, <2>5, <3>1, <3>2 DEF Before
  <2>6. CASE i = k /\ j > k
    <3>1. D[j] = C[j]
      BY <2>6 DEF Stage
    <3> QED BY <2>1, <2>6, <3>1 DEF Before
  <2>7. CASE i < l /\ j = l
    <3>1. i < k
      BY <2>7 DEF Stage
    <3>2. Before(C[i], C[k])
      BY <3>1 DEF InOrder
    <3>3. D[i] = C[i]
      BY <2>7 DEF Stage
    <3> QED BY <2>1, <2>7, <3>2, <3>3 DEF Before
  <2>8. CASE i < l /\ j = k
    <3>1. D[i] = C[i]
      BY <2>8 DEF Stage
    <3> QED BY <2>1, <2>8, <3>1 DEF Before
  <2>9. CASE (i < l \/ i > k) /\ (j < l \/ j > k)
    <3>1. D[i] = C[i] /\ D[j] = C[j]
      BY <2>9 DEF Stage
    <3> QED BY <2>1, <3>1
  <2> QED BY <1>1, <2>2, <2>3, <2>4, <2>5, <2>6, <2>7, <2>8, <2>9 DEF Stage
<1>2. ASSUME NEW x \in Together(D)  PROVE x \in Together(C)
  <2>1. PICK i \in Stage : x \in D[i]
    BY <1>2 DEF Together
  <2>2. x \in C[i] \/ x \in C[k]
    BY <2>1
  <2> QED BY <2>2 DEF Together
<1>3. ASSUME NEW x \in Together(C)  PROVE x \in Together(D)
  <2>1. PICK i \in Stage : x \in C[i]
    BY <1>3 DEF Together
  <2>2. x \in D[i] \/ x \in D[l]
    BY <2>1
  <2> QED BY <2>2 DEF Together
<1> QED BY <1>1, <1>2, <1>3 DEF InOrder

\* The n events emitted lie along P in order, each in one place, or are missing.
Flow(P, n, missing) ==
    /\ P \in [Stage -> Seq(Nat)]
    /\ \A i \in Stage : Rising(P[i])
    /\ InOrder([i \in Stage |-> Contents(P[i])])
    /\ 1..n = Carried(P) \cup missing
    /\ Carried(P) \cap missing = {}

LEMMA ContentsNat == ASSUME NEW s \in Seq(Nat) PROVE Contents(s) \subseteq Nat
  BY DEF Contents

\* The four ways in which P becomes Q: h moves on from stage k to stage l, stage
\* k is dropped, event e enters stage k behind all others; for Passes and Takes
\* see below.
Moves(P, Q, h, k, l) ==
    /\ l = k - 1 /\ P[k] = h \o Q[k] /\ Q[l] = P[l] \o h
    /\ \A i \in Stage : i # l /\ i # k => Q[i] = P[i]

Drops(P, Q, k) == Q[k] = <<>> /\ \A i \in Stage \ {k} : Q[i] = P[i]

Emits(P, Q, e, k) ==
    /\ Q[k] = P[k] \o <<e>> /\ \A i \in Stage : i > k => P[i] = <<>>
    /\ \A i \in Stage \ {k} : Q[i] = P[i]

\* An event that moves on keeps Flow.
LEMMA FlowMoves ==
    ASSUME NEW P, NEW Q \in [Stage -> Seq(Nat)], NEW n, NEW missing,
           Flow(P, n, missing),
           NEW k \in Stage, NEW l \in Stage, NEW h \in Seq(Nat),
           Moves(P, Q, h, k, l)
    PROVE  Flow(Q, n, missing)
<1>00. l = k - 1
  BY DEF Moves
<1>0. /\ P[k] = h \o Q[k] /\ Q[l] = P[l] \o h
      /\ \A i \in Stage : i # l /\ i # k => Q[i] = P[i]
  BY DEF Moves
<1> DEFINE C == [i \in Stage |-> Contents(P[i])]
           D == [i \in Stage |-> Contents(Q[i])]
<1>1. P \in [Stage -> Seq(Nat)] /\ (\A i \in Stage : Rising(P[i])) /\ InOrder(C)
  BY DEF Flow
<1>2. C \in [Stage -> SUBSET Nat] /\ D \in [Stage -> SUBSET Nat] /\ Contents(h) \in SUBSET Nat
  BY <1>1, ContentsNat
<1>3. C[k] = Contents(h) \cup D[k]
  BY <1>0, <1>1, ContentsConcat
<1>4. D[l] = C[l] \cup Contents(h)
  BY <1>0, <1>1, ContentsConcat
<1>5. Rising(h) /\ Rising(Q[k]) /\ Before(Contents(h), D[k])
  BY <1>0, <1>1, RisingConcat
<1>6. \A i \in Stage : i # l /\ i # k => D[i] = C[i]
  BY <1>0
<1>7. InOrder(D) /\ Together(D) = Together(C)
  <2> DEFINE H == Contents(h)
  <2>1. H \in SUBSET Nat /\ C[k] = H \cup D[k] /\ D[l] = C[l] \cup H /\ Before(H, D[k])
    BY <1>2, <1>3, <1>4, <1>5
  <2> HIDE DEF C, D, H
  <2>2. Shifts(C, D, H, k, l)
    BY <1>00, <1>6, <2>1 DEF Shifts
  <2> QED BY <1>1, <1>2, <2>1, <2>2, OrderMoves
<1>8. Carried(Q) = Carried(P)
  <2>1. Carried(Q) = Together(D)
    BY DEF Carried
  <2>2. Carried(P) = Together(C)
    BY DEF Carried
  <2> QED BY <1>7, <2>1, <2>2
<1>9. Rising(Q[l])
  <2>1. Before(C[l], C[k])
    <3>1. l < k
      BY <1>00 DEF Stage
    <3> HIDE DEF C
    <3> QED BY <1>1, <3>1 DEF InOrder
  <2>2. Before(Contents(P[l]), Contents(h))
    BY <1>3, <2>1 DEF Before
  <2> QED BY <1>0, <1>1, <1>5, <2>2, RisingConcat
<1>10. \A i \in Stage : Rising(Q[i])
  BY <1>0, <1>1, <1>5, <1>9
<1> QED BY <1>7, <1>8, <1>10 DEF Flow

\* What is dropped is missing from then on, and was nowhere else.
LEMMA FlowDrops ==
    ASSUME NEW P, NEW Q \in [Stage -> Seq(Nat)], NEW n, NEW missing,
           Flow(P, n, missing),
           NEW k \in Stage, Drops(P, Q, k)
    PROVE  Flow(Q, n, missing \cup Contents(P[k]))
<1>0. Q[k] = <<>> /\ \A i \in Stage \ {k} : Q[i] = P[i]
  BY DEF Drops
<1> DEFINE C == [i \in Stage |-> Contents(P[i])]
           D == [i \in Stage |-> Contents(Q[i])]
<1>1. P \in [Stage -> Seq(Nat)] /\ (\A i \in Stage : Rising(P[i])) /\ InOrder(C)
  BY DEF Flow
<1>2. \A i \in Stage : D[i] = IF i = k THEN {} ELSE C[i]
  BY <1>0, ContentsEmpty
<1>3. C \in [Stage -> SUBSET Nat]
  BY <1>1, ContentsNat
<1>4. Carried(P) = Carried(Q) \cup C[k]
  <2>1. Carried(Q) = Together(D)
    BY DEF Carried
  <2>2. Carried(P) = Together(C)
    BY DEF Carried
  <2> HIDE DEF C, D
  <2>3. Gains(D, C, C[k], k)
    BY <1>2 DEF Gains
  <2>4. Together(C) = Together(D) \cup C[k]
    BY <2>3, TogetherGains
  <2> QED BY <2>1, <2>2, <2>4
<1>5. Carried(Q) \cap C[k] = {}
  <2>1. Carried(Q) = Together(D)
    BY DEF Carried
  <2> HIDE DEF C, D
  <2>2. ASSUME NEW e \in Carried(Q), e \in C[k]  PROVE FALSE
    <3>1. PICK i \in Stage : e \in D[i]
      BY <2>1, <2>2 DEF Together
    <3>2. i # k
      BY <1>2, <3>1
    <3>3. i < k \/ k < i
      BY <3>2 DEF Stage
    <3>4. Before(C[i], C[k]) \/ Before(C[k], C[i])
      <4>1. \A m, j \in Stage : m < j => Before(C[m], C[j])
        BY <1>1 DEF InOrder
      <4> QED BY <3>3, <4>1
    <3>5. e \in C[i]
      BY <1>2, <3>1, <3>2
    <3>6. e \in Nat /\ e < e
      BY <1>3, <2>2, <3>4, <3>5 DEF Before
    <3> QED BY <3>6
  <2> QED BY <2>2
<1>6. \A i \in Stage : Rising(Q[i])
  <2>1. Rising(<<>>)
    BY DEF Rising
  <2> QED BY <1>0, <1>1, <2>1
<1>7. InOrder(D)
  <2> HIDE DEF C, D
  <2> QED BY <1>1, <1>2 DEF InOrder, Before
<1>8. 1..n = Carried(P) \cup missing /\ Carried(P) \cap missing = {}
  BY DEF Flow
<1>9. Contents(P[k]) = C[k]
  OBVIOUS
<1> QED BY <1>4, <1>5, <1>6, <1>7, <1>8, <1>9 DEF Flow

\* The next event enters the relay behind all others.
LEMMA FlowEmits ==
    ASSUME NEW P, NEW Q \in [Stage -> Seq(Nat)], NEW n \in Nat, NEW missing,
           Flow(P, n, missing),
           NEW k \in Stage, Emits(P, Q, n + 1, k)
    PROVE  Flow(Q, n + 1, missing)
<1>0. /\ Q[k] = P[k] \o <<n + 1>> /\ \A i \in Stage : i > k => P[i] = <<>>
      /\ \A i \in Stage \ {k} : Q[i] = P[i]
  BY DEF Emits
<1> DEFINE C == [i \in Stage |-> Contents(P[i])]
           D == [i \in Stage |-> Contents(Q[i])]
<1>1. P \in [Stage -> Seq(Nat)] /\ (\A i \in Stage : Rising(P[i])) /\ InOrder(C)
  BY DEF Flow
<1>2. <<n + 1>> \in Seq(Nat) /\ Rising(<<n + 1>>) /\ Contents(<<n + 1>>) = {n + 1}
  BY ContentsOne DEF Rising
<1>3. D[k] = C[k] \cup {n + 1}
  <2>1. P[k] \in Seq(Nat) /\ D[k] = Contents(P[k] \o <<n + 1>>) /\ C[k] = Contents(P[k])
    BY <1>0, <1>1
  <2> HIDE DEF C, D
  <2>2. Contents(P[k] \o <<n + 1>>) = Contents(P[k]) \cup Contents(<<n + 1>>)
    BY <1>2, <2>1, ContentsConcat
  <2> QED BY <1>2, <2>1, <2>2
<1>4. \A i \in Stage \ {k} : D[i] = C[i]
  BY <1>0
<1>5. 1..n = Carried(P) \cup missing /\ Carried(P) \cap missing = {}
  BY DEF Flow
<1>6. \A i \in Stage : C[i] \subseteq 1..n
  <2>1. Together(C) \subseteq 1..n
    BY <1>5 DEF Carried
  <2> HIDE DEF C
  <2> QED BY <2>1 DEF Together
<1>7. Carried(Q) = Carried(P) \cup {n + 1}
  <2>1. Carried(Q) = Together(D)
    BY DEF Carried
  <2>2. Carried(P) = Together(C)
    BY DEF Carried
  <2> HIDE DEF C, D
  <2>3. Gains(C, D, {n + 1}, k)
    BY <1>3, <1>4 DEF Gains
  <2>4. Together(D) = Together(C) \cup {n + 1}
    BY <2>3, TogetherGains
  <2> QED BY <2>1, <2>2, <2>4
<1>8. 1..(n + 1) = (1..n) \cup {n + 1} /\ n + 1 \notin 1..n
  OBVIOUS
<1>9. \A i \in Stage : Rising(Q[i])
  <2>1. Before(C[k], {n + 1})
    <3> HIDE DEF C
    <3> QED BY <1>6 DEF Before
  <2>2. Before(Contents(P[k]), Contents(<<n + 1>>))
    BY <1>2, <2>1
  <2>3. Rising(P[k] \o <<n + 1>>)
    BY <1>1, <1>2, <2>2, RisingConcat
  <2> QED BY <1>0, <1>1, <2>3
<1>10. InOrder(D)
  <2>1. \A i \in Stage : i > k => C[i] = {}
    BY <1>0, ContentsEmpty
  <2> HIDE DEF C, D
  <2>2. SUFFICES ASSUME NEW i \in Stage, NEW j \in Stage, i < j  PROVE Before(D[i], D[j])
    BY DEF InOrder
  <2>3. Before(C[i], C[j])
    BY <1>1, <2>2 DEF InOrder
  <2>4. CASE i = k
    <3>1. j > k /\ j # k
      BY <2>2, <2>4 DEF Stage
    <3>2. D[j] = {}
      BY <1>4, <2>1, <3>1
    <3> QED BY <3>2 DEF Before
  <2>5. CASE j = k
    <3>1. D[i] = C[i]
      BY <1>4, <2>2, <2>5 DEF Stage
    <3> QED BY <1>3, <1>6, <2>3, <2>5, <3>1 DEF Before
  <2>6. CASE i # k /\ j # k
    BY <1>4, <2>3, <2>6
  <2> QED BY <2>4, <2>5, <2>6
<1>11. Carried(Q) \cap missing = {}
  BY <1>5, <1>7, <1>8
<1> QED BY <1>5, <1>7, <1>8, <1>9, <1>10, <1>11 DEF Flow

\* The next event is lost at once.
LEMMA FlowMisses ==
    ASSUME NEW P, NEW n \in Nat, NEW missing, Flow(P, n, missing)
    PROVE  Flow(P, n + 1, missing \cup {n + 1})
<1>1. 1..(n + 1) = (1..n) \cup {n + 1} /\ n + 1 \notin 1..n
  OBVIOUS
<1> QED BY <1>1 DEF Flow

-----------------------------------------------------------------------------
(* The inductive invariant.                                               *)

\* Where the events of the pipeline are, the oldest first (see InFlight).
Relay == [i \in Stage |->
    CASE i = 1 -> stored
      [] i = 2 -> (IF cons = "save" THEN consHand ELSE <<>>)
      [] i = 3 -> consumerChan
      [] i = 4 -> dispHand
      [] i = 5 -> stream
      [] i = 6 -> fwdHand
      [] i = 7 -> publishChan
      [] i = 8 -> srcHand]

PFlow == Flow(Relay, sent, lost)

\* Only a blocked send holds an event, and there is no monitor before the launch.
PMonitor ==
    /\ srcHand # <<>> => src = "blocked"
    /\ wrk = "launch" => src = "off" /\ repHits = {}

\* The events a hit may stand on: saved, or lost in the attempt.
Backed == Contents(stored) \cup lost \cup {MemoryHit}

\* An event is saved before the rules see it, so hits are backed all the way into
\* the report.
PHits ==
    /\ cons \in {"rules", "append"} => Contents(consHand) \subseteq Backed
    /\ hits \subseteq Backed
    /\ wrk # "done" => repHits \subseteq Backed

Evidence == PHits /\ HitsBackedByTimeline

PInv == TypeOK /\ PFlow /\ PMonitor /\ Evidence

-----------------------------------------------------------------------------
(* Types.                                                                  *)

LEMMA RelayIs ==
    /\ Relay[1] = stored
    /\ Relay[2] = IF cons = "save" THEN consHand ELSE <<>>
    /\ Relay[3] = consumerChan
    /\ Relay[4] = dispHand
    /\ Relay[5] = stream
    /\ Relay[6] = fwdHand
    /\ Relay[7] = publishChan
    /\ Relay[8] = srcHand
  BY DEF Relay, Stage

LEMMA EventSeqs == \A s \in Seq(Event) : s \in Seq(Nat)
  BY PipelineAssumption DEF Event

LEMMA RelayType == TypeOK => Relay \in [Stage -> Seq(Nat)]
<1> SUFFICES ASSUME TypeOK, NEW i \in Stage  PROVE Relay[i] \in Seq(Nat)
  BY DEF Relay
<1>1. \A s \in Hand : s \in Seq(Nat)
  <2>1. \A e \in Nat : <<e>> \in Seq(Nat)
    OBVIOUS
  <2>2. Event \subseteq Nat /\ <<>> \in Seq(Nat)
    BY PipelineAssumption DEF Event
  <2> QED BY <2>1, <2>2 DEF Hand
<1> QED BY <1>1, EventSeqs DEF TypeOK, Relay, Stage

LEMMA RelayTypeNext == (TypeOK => Relay \in [Stage -> Seq(Nat)])'
  BY RelayType, PTL

-----------------------------------------------------------------------------
(* Each step of the program is one of the ways of the relay.               *)

LEMMA Neighbours == 1 = 2 - 1 /\ 2 = 3 - 1 /\ 3 = 4 - 1 /\ 4 = 5 - 1 /\ 5 = 6 - 1 /\ 6 = 7 - 1 /\ 7 = 8 - 1
  OBVIOUS

\* A whole stage moves on (a send of what a goroutine holds) ...
Passes(P, Q, k, l) ==
    /\ l = k - 1 /\ Q[k] = <<>> /\ Q[l] = P[l] \o P[k]
    /\ \A i \in Stage : i # l /\ i # k => Q[i] = P[i]

\* ... or its first event does (a receive).
Takes(P, Q, k, l) ==
    /\ l = k - 1 /\ P[k] # <<>> /\ P[l] = <<>>
    /\ Q[k] = Tail(P[k]) /\ Q[l] = <<Head(P[k])>>
    /\ \A i \in Stage : i # l /\ i # k => Q[i] = P[i]

LEMMA FlowPasses ==
    ASSUME NEW P, NEW Q \in [Stage -> Seq(Nat)], NEW n, NEW missing,
           Flow(P, n, missing),
           NEW k \in Stage, NEW l \in Stage, Passes(P, Q, k, l)
    PROVE  Flow(Q, n, missing)
<1>1. P[k] \in Seq(Nat)
  BY DEF Flow
<1>2. P[k] = P[k] \o <<>>
  BY <1>1
<1>3. Moves(P, Q, P[k], k, l)
  BY <1>2 DEF Passes, Moves
<1> QED BY <1>1, <1>3, FlowMoves

LEMMA FlowTakes ==
    ASSUME NEW P, NEW Q \in [Stage -> Seq(Nat)], NEW n, NEW missing,
           Flow(P, n, missing),
           NEW k \in Stage, NEW l \in Stage, Takes(P, Q, k, l)
    PROVE  Flow(Q, n, missing)
<1>1. P[k] \in Seq(Nat) /\ P[k] # <<>>
  BY DEF Flow, Takes
<1>2. Head(P[k]) \in Nat /\ P[k] = <<Head(P[k])>> \o Tail(P[k])
  BY <1>1, HeadAndTail
<1>3. <<Head(P[k])>> \in Seq(Nat) /\ <<Head(P[k])>> = <<>> \o <<Head(P[k])>>
  BY <1>2
<1>4. Moves(P, Q, <<Head(P[k])>>, k, l)
  BY <1>2, <1>3 DEF Takes, Moves
<1> QED BY <1>3, <1>4, FlowMoves

\* Flow is invariant: one case per action that touches the relay.
LEMMA FlowStep == TypeOK /\ TypeOK' /\ PFlow /\ PMonitor /\ [Next]_vars => PFlow'
<1> SUFFICES ASSUME TypeOK, TypeOK', PFlow, PMonitor, [Next]_vars  PROVE PFlow'
  OBVIOUS
<1> DEFINE R == Relay
           S == Relay'
<1>1. /\ R[1] = stored /\ R[2] = (IF cons = "save" THEN consHand ELSE <<>>)
      /\ R[3] = consumerChan /\ R[4] = dispHand /\ R[5] = stream
      /\ R[6] = fwdHand /\ R[7] = publishChan /\ R[8] = srcHand
  BY RelayIs
<1>2. /\ S[1] = stored' /\ S[2] = (IF cons' = "save" THEN consHand' ELSE <<>>)
      /\ S[3] = consumerChan' /\ S[4] = dispHand' /\ S[5] = stream'
      /\ S[6] = fwdHand' /\ S[7] = publishChan' /\ S[8] = srcHand'
  BY DEF Relay, Stage
<1>3. R \in [Stage -> Seq(Nat)] /\ S \in [Stage -> Seq(Nat)]
  BY RelayType, RelayTypeNext
<1>4. Stage = {1, 2, 3, 4, 5, 6, 7, 8}
  BY DEF Stage
<1>5. Flow(R, sent, lost) /\ sent \in Nat
  BY DEF PFlow, TypeOK
<1> HIDE DEF R, S
<1>6. SUFFICES Flow(S, sent', lost')
  BY DEF PFlow, S
<1>7. ASSUME S = R, UNCHANGED <<sent, lost>>  PROVE Flow(S, sent', lost')
  BY <1>5, <1>7
<1>8. CASE TrySend
  <2>1. srcHand = <<>> /\ sent' = sent + 1
    BY <1>8 DEF TrySend, PMonitor
  <2>2. \A i \in Stage \ {7} : S[i] = R[i]
    BY <1>8, <1>1, <1>2, <1>4 DEF TrySend, busVars, consVars
  <2>3. CASE publishChan' = Append(publishChan, sent + 1) /\ UNCHANGED lost
    <3>1. R[7] \in Seq(Nat) /\ 7 \in Stage
      BY <1>3, <1>4
    <3>2. S[7] = R[7] \o <<sent + 1>>
      BY <1>1, <1>2, <2>3, <3>1, AppendIsConcat
    <3>3. \A i \in Stage : i > 7 => R[i] = <<>>
      BY <1>1, <1>4, <2>1
    <3>4. Emits(R, S, sent + 1, 7)
      BY <2>2, <3>2, <3>3 DEF Emits
    <3> QED BY <1>3, <1>5, <2>1, <2>3, <3>1, <3>4, FlowEmits
  <2>4. CASE lost' = lost \cup {sent + 1} /\ UNCHANGED publishChan
    <3>1. S[7] = R[7]
      BY <1>1, <1>2, <2>4
    <3>2. S = R
      BY <1>3, <2>2, <3>1
    <3> QED BY <1>5, <2>1, <2>4, <3>2, FlowMisses
  <2> QED BY <1>8, <2>3, <2>4 DEF TrySend
<1>9. CASE Send
  <2>1. srcHand = <<>> /\ sent' = sent + 1 /\ UNCHANGED lost
    BY <1>9 DEF Send, PMonitor
  <2>2. \A i \in Stage \ {8} : S[i] = R[i]
    BY <1>9, <1>1, <1>2, <1>4 DEF Send, chanVars, busVars, consVars
  <2>3. S[8] = R[8] \o <<sent + 1>>
    BY <1>9, <1>1, <1>2, <2>1 DEF Send
  <2>4. 8 \in Stage /\ \A i \in Stage : ~(i > 8)
    BY <1>4
  <2>5. Emits(R, S, sent + 1, 8)
    BY <2>2, <2>3, <2>4 DEF Emits
  <2> QED BY <1>3, <1>5, <2>1, <2>4, <2>5, FlowEmits
<1>10. CASE SendCompletes
  <2>1. sent' = sent /\ S[8] = <<>> /\ R[8] = srcHand /\ 8 \in Stage /\ 7 \in Stage
    BY <1>10, <1>1, <1>2, <1>4 DEF SendCompletes, busVars, consVars
  <2>2. \A i \in Stage : i # 8 /\ i # 7 => S[i] = R[i]
    BY <1>10, <1>1, <1>2, <1>4 DEF SendCompletes, busVars, consVars
  <2>3. CASE publishChan' = publishChan \o srcHand /\ UNCHANGED lost
    <3>1. Passes(R, S, 8, 7)
      BY <1>1, <1>2, <2>1, <2>2, <2>3, Neighbours DEF Passes
    <3> QED BY <1>3, <1>5, <2>1, <2>3, <3>1, FlowPasses
  <2>4. CASE lost' = lost \cup Contents(srcHand) /\ UNCHANGED publishChan
    <3>1. S[7] = R[7]
      BY <1>1, <1>2, <2>4
    <3>2. Drops(R, S, 8)
      BY <2>1, <2>2, <3>1 DEF Drops
    <3>3. lost' = lost \cup Contents(R[8])
      BY <2>1, <2>4
    <3> QED BY <1>3, <1>5, <2>1, <3>2, <3>3, FlowDrops
  <2> QED BY <1>10, <2>3, <2>4 DEF SendCompletes
<1>11. CASE ForwarderReceives
  <2>1. sent' = sent /\ lost' = lost /\ 7 \in Stage /\ 6 \in Stage
    BY <1>11, <1>4 DEF ForwarderReceives, srcVars, consVars
  <2>2. /\ R[7] # <<>> /\ R[6] = <<>>
        /\ S[7] = Tail(R[7]) /\ S[6] = <<Head(R[7])>>
    BY <1>11, <1>1, <1>2 DEF ForwarderReceives, srcVars, consVars
  <2>3. \A i \in Stage : i # 7 /\ i # 6 => S[i] = R[i]
    BY <1>11, <1>1, <1>2, <1>4 DEF ForwarderReceives, srcVars, consVars
  <2>4. Takes(R, S, 7, 6)
    BY <2>2, <2>3, Neighbours DEF Takes
  <2> QED BY <1>3, <1>5, <2>1, <2>4, FlowTakes
<1>12. CASE Publish
  <2>1. sent' = sent /\ S[6] = <<>> /\ R[6] = fwdHand /\ 6 \in Stage /\ 5 \in Stage
    BY <1>12, <1>1, <1>2, <1>4 DEF Publish, srcVars, consVars
  <2>2. \A i \in Stage : i # 6 /\ i # 5 => S[i] = R[i]
    BY <1>12, <1>1, <1>2, <1>4 DEF Publish, srcVars, consVars
  <2>3. CASE stream' = stream \o fwdHand /\ UNCHANGED lost
    <3>1. Passes(R, S, 6, 5)
      BY <1>1, <1>2, <2>1, <2>2, <2>3, Neighbours DEF Passes
    <3> QED BY <1>3, <1>5, <2>1, <2>3, <3>1, FlowPasses
  <2>4. CASE lost' = lost \cup Contents(fwdHand) /\ UNCHANGED stream
    <3>1. S[5] = R[5]
      BY <1>1, <1>2, <2>4
    <3>2. Drops(R, S, 6)
      BY <2>1, <2>2, <3>1 DEF Drops
    <3>3. lost' = lost \cup Contents(R[6])
      BY <2>1, <2>4
    <3> QED BY <1>3, <1>5, <2>1, <3>2, <3>3, FlowDrops
  <2> QED BY <1>12, <2>3, <2>4 DEF Publish
<1>13. CASE DispatcherReceives
  <2>1. sent' = sent /\ lost' = lost /\ 5 \in Stage /\ 4 \in Stage
    BY <1>13, <1>4 DEF DispatcherReceives, srcVars, consVars
  <2>2. /\ R[5] # <<>> /\ R[4] = <<>>
        /\ S[5] = Tail(R[5]) /\ S[4] = <<Head(R[5])>>
    BY <1>13, <1>1, <1>2 DEF DispatcherReceives, srcVars, consVars
  <2>3. \A i \in Stage : i # 5 /\ i # 4 => S[i] = R[i]
    BY <1>13, <1>1, <1>2, <1>4 DEF DispatcherReceives, srcVars, consVars
  <2>4. Takes(R, S, 5, 4)
    BY <2>2, <2>3, Neighbours DEF Takes
  <2> QED BY <1>3, <1>5, <2>1, <2>4, FlowTakes
<1>14. CASE Dispatch
  <2>1. sent' = sent /\ S[4] = <<>> /\ R[4] = dispHand /\ 4 \in Stage /\ 3 \in Stage
    BY <1>14, <1>1, <1>2, <1>4 DEF Dispatch, srcVars, consVars
  <2>2. \A i \in Stage : i # 4 /\ i # 3 => S[i] = R[i]
    BY <1>14, <1>1, <1>2, <1>4 DEF Dispatch, srcVars, consVars
  <2>3. CASE consumerChan' = consumerChan \o dispHand /\ UNCHANGED lost
    <3>1. Passes(R, S, 4, 3)
      BY <1>1, <1>2, <2>1, <2>2, <2>3, Neighbours DEF Passes
    <3> QED BY <1>3, <1>5, <2>1, <2>3, <3>1, FlowPasses
  <2>4. CASE lost' = lost \cup Contents(dispHand) /\ UNCHANGED consumerChan
    <3>1. S[3] = R[3]
      BY <1>1, <1>2, <2>4
    <3>2. Drops(R, S, 4)
      BY <2>1, <2>2, <3>1 DEF Drops
    <3>3. lost' = lost \cup Contents(R[4])
      BY <2>1, <2>4
    <3> QED BY <1>3, <1>5, <2>1, <3>2, <3>3, FlowDrops
  <2> QED BY <1>14, <2>3, <2>4 DEF Dispatch
<1>15. CASE ConsumerReceives
  <2>1. sent' = sent /\ lost' = lost /\ 3 \in Stage /\ 2 \in Stage
    BY <1>15, <1>4 DEF ConsumerReceives, srcVars, busVars
  <2>2. /\ R[3] # <<>> /\ R[2] = <<>>
        /\ S[3] = Tail(R[3]) /\ S[2] = <<Head(R[3])>>
    BY <1>15, <1>1, <1>2 DEF ConsumerReceives, srcVars, busVars
  <2>3. \A i \in Stage : i # 3 /\ i # 2 => S[i] = R[i]
    BY <1>15, <1>1, <1>2, <1>4 DEF ConsumerReceives, srcVars, busVars
  <2>4. Takes(R, S, 3, 2)
    BY <2>2, <2>3, Neighbours DEF Takes
  <2> QED BY <1>3, <1>5, <2>1, <2>4, FlowTakes
<1>16. CASE SaveEvent
  <2>1. sent' = sent /\ S[2] = <<>> /\ R[2] = consHand /\ 2 \in Stage /\ 1 \in Stage
    BY <1>16, <1>1, <1>2, <1>4 DEF SaveEvent, srcVars, chanVars, busVars
  <2>2. \A i \in Stage : i # 2 /\ i # 1 => S[i] = R[i]
    BY <1>16, <1>1, <1>2, <1>4 DEF SaveEvent, srcVars, chanVars, busVars
  <2>3. CASE stored' = stored \o consHand /\ UNCHANGED lost
    <3>1. Passes(R, S, 2, 1)
      BY <1>1, <1>2, <2>1, <2>2, <2>3, Neighbours DEF Passes
    <3> QED BY <1>3, <1>5, <2>1, <2>3, <3>1, FlowPasses
  <2>4. CASE lost' = lost \cup Contents(consHand) /\ UNCHANGED stored
    <3>1. S[1] = R[1]
      BY <1>1, <1>2, <2>4
    <3>2. Drops(R, S, 2)
      BY <2>1, <2>2, <3>1 DEF Drops
    <3>3. lost' = lost \cup Contents(R[2])
      BY <2>1, <2>4
    <3> QED BY <1>3, <1>5, <2>1, <3>2, <3>3, FlowDrops
  <2> QED BY <1>16, <2>3, <2>4 DEF SaveEvent
<1>17. ASSUME UNCHANGED <<sent, lost, stored, consumerChan, dispHand, stream, fwdHand, publishChan, srcHand>>,
             S[2] = R[2]
      PROVE  Flow(S, sent', lost')
  <2>1. \A i \in Stage : S[i] = R[i]
    BY <1>1, <1>2, <1>4, <1>17
  <2> QED BY <1>3, <1>7, <1>17, <2>1
<1>18. CASE BeginTurn \/ EndTurn \/ MonitorEnds
  BY <1>1, <1>2, <1>17, <1>18 DEF BeginTurn, EndTurn, MonitorEnds, chanVars, busVars, consVars
<1>19. CASE ForwarderEnds \/ DispatcherEnds
  BY <1>1, <1>2, <1>17, <1>19 DEF ForwarderEnds, DispatcherEnds, srcVars, chanVars, consVars
<1>20. CASE ProcessEvent \/ AppendHit
  BY <1>1, <1>2, <1>17, <1>20 DEF ProcessEvent, AppendHit, srcVars, chanVars, busVars
<1>21. CASE StartMonitor \/ FailJob \/ StopMonitor \/ ClosePublishChan \/ StopPipeline
  BY <1>1, <1>2, <1>17, <1>21
     DEF StartMonitor, FailJob, StopMonitor, ClosePublishChan, StopPipeline,
         srcVars, chanVars, busVars, consVars
<1>22. CASE InspectProcess \/ ScanMemory \/ AppendMemoryHits
  BY <1>1, <1>2, <1>17, <1>22
     DEF InspectProcess, ScanMemory, AppendMemoryHits, srcVars, chanVars, busVars, consVars
<1>23. CASE BeginReadHits \/ EndReadHits \/ GetJobEvents
  BY <1>1, <1>2, <1>17, <1>23
     DEF BeginReadHits, EndReadHits, GetJobEvents, srcVars, chanVars, busVars, consVars
<1>24. CASE Deadline \/ Cancel
  BY <1>1, <1>2, <1>17, <1>24 DEF Deadline, Cancel, chanVars, busVars, consVars
<1>25. CASE UNCHANGED vars
  BY <1>1, <1>2, <1>17, <1>25 DEF vars, srcVars, chanVars, busVars, consVars
<1> QED
  BY <1>8, <1>9, <1>10, <1>11, <1>12, <1>13, <1>14, <1>15, <1>16, <1>18, <1>19, <1>20,
     <1>21, <1>22, <1>23, <1>24, <1>25
     DEF Next, Monitor, Forwarder, Dispatcher, Consumer, WorkerStep
-----------------------------------------------------------------------------
(* TypeOK is invariant.                                                    *)

LEMMA HandIs ==
    ASSUME NEW h \in Hand
    PROVE  h \in Seq(Event) /\ Len(h) <= 1 /\ Contents(h) \subseteq Event
<1>1. CASE h = <<>>
  BY <1>1, ContentsEmpty
<1>2. ASSUME NEW e \in Event, h = <<e>>  PROVE h \in Seq(Event) /\ Len(h) <= 1 /\ Contents(h) \subseteq Event
  BY <1>2, ContentsOne
<1> QED BY <1>1, <1>2 DEF Hand

LEMMA HeadIs ==
    ASSUME NEW s \in Seq(Event), s # <<>>
    PROVE  <<Head(s)>> \in Hand /\ Tail(s) \in Seq(Event) /\ Len(Tail(s)) <= Len(s)
  BY DEF Hand

LEMMA JoinedIs ==
    ASSUME NEW s \in Seq(Event), NEW h \in Hand
    PROVE  s \o h \in Seq(Event) /\ Len(s \o h) <= Len(s) + 1
<1>1. h \in Seq(Event) /\ Len(h) <= 1
  BY HandIs
<1>2. Len(s \o h) = Len(s) + Len(h)
  BY <1>1
<1> QED BY <1>1, <1>2

\* A channel that had room is not overfilled by one event.
LEMMA RoomFor ==
    ASSUME NEW s \in Seq(Event), NEW cap \in Nat, Len(s) < cap, NEW t \in Seq(Event),
           Len(t) <= Len(s) + 1
    PROVE  Len(t) <= cap
<1>1. Len(s) \in Nat /\ Len(t) \in Nat
  OBVIOUS
<1> QED BY <1>1

LEMMA EventContents == ASSUME NEW s \in Seq(Event) PROVE Contents(s) \subseteq Event
  BY DEF Contents

LEMMA TypeInit == Init => TypeOK
<1> SUFFICES ASSUME Init  PROVE TypeOK
  OBVIOUS
<1>1. <<>> \in Hand /\ <<>> \in Seq(Event) /\ Len(<<>>) = 0
  BY DEF Hand
<1>2. 0 \in 0..MaxEvents /\ 0 <= PublishCap /\ 0 <= StreamCap /\ 0 <= ConsumerCap
  BY PipelineAssumption
<1> QED BY <1>1, <1>2 DEF Init, TypeOK

LEMMA TypeStep == TypeOK /\ [Next]_vars => TypeOK'
<1> SUFFICES ASSUME TypeOK, [Next]_vars  PROVE TypeOK'
  OBVIOUS
<1> USE PipelineAssumption
<1>0. <<>> \in Hand /\ sent \in Nat
  BY DEF Hand, TypeOK
<1>1. CASE BeginTurn \/ EndTurn \/ MonitorEnds
  BY <1>1 DEF TypeOK, BeginTurn, EndTurn, MonitorEnds, chanVars, busVars, consVars, wrkVars
<1>2. ASSUME sent < MaxEvents  PROVE sent + 1 \in Event /\ sent + 1 \in 0..MaxEvents /\ <<sent + 1>> \in Hand
  BY <1>0, <1>2 DEF Event, Hand
<1>3. CASE TrySend
  <2>1. sent + 1 \in Event /\ sent' \in 0..MaxEvents
    BY <1>2, <1>3 DEF TrySend
  <2>2. publishChan' \in Seq(Event) /\ Len(publishChan') <= PublishCap
    <3>1. publishChan \in Seq(Event) /\ Len(publishChan) <= PublishCap
      BY DEF TypeOK
    <3>2. CASE Len(publishChan) < PublishCap /\ publishChan' = Append(publishChan, sent + 1)
      <4>1. publishChan' \in Seq(Event) /\ Len(publishChan') <= Len(publishChan) + 1
        BY <2>1, <3>1, <3>2
      <4> QED BY <3>1, <3>2, <4>1, RoomFor
    <3> QED BY <1>3, <3>1, <3>2 DEF TrySend
  <2>3. lost' \subseteq Event /\ panicked' \in BOOLEAN
    BY <1>3, <2>1 DEF TrySend, TypeOK
  <2> QED BY <1>3, <2>1, <2>2, <2>3 DEF TypeOK, TrySend, busVars, consVars, wrkVars
<1>4. CASE Send
  BY <1>2, <1>4 DEF TypeOK, Send, chanVars, busVars, consVars, wrkVars
<1>5. CASE SendCompletes
  <2>1. publishChan' \in Seq(Event) /\ Len(publishChan') <= PublishCap
    <3>1. publishChan \in Seq(Event) /\ Len(publishChan) <= PublishCap /\ srcHand \in Hand
      BY DEF TypeOK
    <3>2. CASE Len(publishChan) < PublishCap /\ publishChan' = publishChan \o srcHand
      BY <3>1, <3>2, JoinedIs, RoomFor
    <3> QED BY <1>5, <3>1, <3>2 DEF SendCompletes
  <2>2. lost' \subseteq Event /\ panicked' \in BOOLEAN /\ srcHand' \in Hand
    BY <1>0, <1>5, HandIs DEF SendCompletes, TypeOK
  <2> QED BY <1>5, <2>1, <2>2 DEF TypeOK, SendCompletes, busVars, consVars, wrkVars
<1>6. CASE ForwarderReceives
  BY <1>6, HeadIs DEF TypeOK, ForwarderReceives, srcVars, consVars, wrkVars
<1>7. CASE Publish
  <2>1. stream' \in Seq(Event) /\ Len(stream') <= StreamCap
    <3>1. stream \in Seq(Event) /\ Len(stream) <= StreamCap /\ fwdHand \in Hand
      BY DEF TypeOK
    <3>2. CASE Len(stream) < StreamCap /\ stream' = stream \o fwdHand
      BY <3>1, <3>2, JoinedIs, RoomFor
    <3> QED BY <1>7, <3>1, <3>2 DEF Publish
  <2>2. lost' \subseteq Event /\ fwdHand' \in Hand
    BY <1>0, <1>7, HandIs DEF Publish, TypeOK
  <2> QED BY <1>7, <2>1, <2>2 DEF TypeOK, Publish, srcVars, consVars, wrkVars
<1>8. CASE ForwarderEnds \/ DispatcherEnds
  BY <1>8 DEF TypeOK, ForwarderEnds, DispatcherEnds, srcVars, chanVars, consVars, wrkVars
<1>9. CASE DispatcherReceives
  BY <1>9, HeadIs DEF TypeOK, DispatcherReceives, srcVars, consVars, wrkVars
<1>10. CASE Dispatch
  <2>1. consumerChan' \in Seq(Event) /\ Len(consumerChan') <= ConsumerCap
    <3>1. consumerChan \in Seq(Event) /\ Len(consumerChan) <= ConsumerCap /\ dispHand \in Hand
      BY DEF TypeOK
    <3>2. CASE Len(consumerChan) < ConsumerCap /\ consumerChan' = consumerChan \o dispHand
      BY <3>1, <3>2, JoinedIs, RoomFor
    <3> QED BY <1>10, <3>1, <3>2 DEF Dispatch
  <2>2. lost' \subseteq Event /\ dispHand' \in Hand
    BY <1>0, <1>10, HandIs DEF Dispatch, TypeOK
  <2> QED BY <1>10, <2>1, <2>2 DEF TypeOK, Dispatch, srcVars, consVars, wrkVars
<1>11. CASE ConsumerReceives
  BY <1>11, HeadIs DEF TypeOK, ConsumerReceives, srcVars, busVars, wrkVars
<1>12. CASE SaveEvent
  <2>1. stored' \in Seq(Event)
    BY <1>12, JoinedIs DEF SaveEvent, TypeOK
  <2>2. lost' \subseteq Event
    BY <1>12, HandIs DEF SaveEvent, TypeOK
  <2> QED BY <1>12, <2>1, <2>2 DEF TypeOK, SaveEvent, srcVars, chanVars, busVars, wrkVars
<1>13. CASE ProcessEvent
  BY <1>0, <1>13 DEF TypeOK, ProcessEvent, srcVars, chanVars, busVars, wrkVars
<1>14. CASE AppendHit
  <2>1. hits' \subseteq Event \cup {MemoryHit}
    BY <1>14, HandIs DEF AppendHit, TypeOK
  <2> QED BY <1>0, <1>14, <2>1 DEF TypeOK, AppendHit, srcVars, chanVars, busVars, wrkVars
<1>15. CASE StartMonitor \/ FailJob \/ StopMonitor \/ ClosePublishChan \/ StopPipeline
  <2>1. StartMonitor => TypeOK'
    BY DEF TypeOK, StartMonitor, chanVars, busVars, consVars
  <2>2. FailJob => TypeOK'
    BY DEF TypeOK, FailJob, srcVars, consVars
  <2>3. StopMonitor => TypeOK'
    BY DEF TypeOK, StopMonitor, chanVars, busVars, consVars
  <2>4. ClosePublishChan => TypeOK'
    BY DEF TypeOK, ClosePublishChan, srcVars, busVars, consVars
  <2>5. StopPipeline => TypeOK'
    BY DEF TypeOK, StopPipeline, srcVars, chanVars, consVars
  <2> QED BY <1>15, <2>1, <2>2, <2>3, <2>4, <2>5
<1>16. CASE InspectProcess \/ ScanMemory \/ AppendMemoryHits
  <2>1. InspectProcess => TypeOK'
    BY DEF TypeOK, InspectProcess, srcVars, chanVars, busVars, consVars
  <2>2. ScanMemory => TypeOK'
    BY DEF TypeOK, ScanMemory, srcVars, chanVars, busVars
  <2>3. AppendMemoryHits => TypeOK'
    BY DEF TypeOK, AppendMemoryHits, srcVars, chanVars, busVars
  <2> QED BY <1>16, <2>1, <2>2, <2>3
<1>17. CASE BeginReadHits
  BY <1>17 DEF TypeOK, BeginReadHits, srcVars, chanVars, busVars, consVars
<1>18. CASE EndReadHits
  <2>1. repHits' \subseteq Event \cup {MemoryHit} /\ panicked' \in BOOLEAN
    BY <1>18, HandIs DEF EndReadHits, TypeOK
  <2> QED BY <1>18, <2>1 DEF TypeOK, EndReadHits, srcVars, chanVars, busVars, consVars
<1>19. CASE GetJobEvents
  <2>1. stored \in Seq(Event) /\ repEvents \subseteq Event /\ cutOff \in BOOLEAN
    BY DEF TypeOK
  <2>2. /\ repEvents' \subseteq Event /\ cutOff' \in BOOLEAN
        /\ wrk' \in {"done", "unreported"}
    <3>1. CASE UNCHANGED <<repEvents, cutOff>> /\ wrk' = "unreported"
      BY <2>1, <3>1
    <3>2. ASSUME NEW n \in 0..Len(stored), wrk' = "done",
                 repEvents' = {stored[i] : i \in 1..n}, cutOff' = (n < Len(stored))
          PROVE  repEvents' \subseteq Event /\ cutOff' \in BOOLEAN
      <4>1. \A i \in 1..n : stored[i] \in Event
        BY <2>1
      <4> QED BY <3>2, <4>1
    <3> QED BY <1>19, <3>1, <3>2 DEF GetJobEvents
  <2> QED BY <1>19, <2>2 DEF TypeOK, GetJobEvents, srcVars, chanVars, busVars, consVars
<1>20. CASE Deadline \/ Cancel
  BY <1>20 DEF TypeOK, Deadline, Cancel, chanVars, busVars, consVars, wrkVars
<1>21. CASE UNCHANGED vars
  BY <1>21 DEF TypeOK, vars, srcVars, chanVars, busVars, consVars, wrkVars
<1> QED
  BY <1>1, <1>3, <1>4, <1>5, <1>6, <1>7, <1>8, <1>9, <1>10, <1>11, <1>12, <1>13, <1>14,
     <1>15, <1>16, <1>17, <1>18, <1>19, <1>20, <1>21
     DEF Next, Monitor, Forwarder, Dispatcher, Consumer, WorkerStep
-----------------------------------------------------------------------------
(* The remaining parts of the invariant.                                   *)

LEMMA MonitorStep == TypeOK /\ PMonitor /\ [Next]_vars => PMonitor'
<1> SUFFICES ASSUME TypeOK, PMonitor, [Next]_vars  PROVE PMonitor'
  OBVIOUS
<1> USE DEF PMonitor
<1>1. CASE Monitor
  BY <1>1 DEF Monitor, BeginTurn, EndTurn, MonitorEnds, TrySend, Send,
              chanVars, busVars, consVars, wrkVars
<1>2. CASE SendCompletes
  BY <1>2 DEF SendCompletes, busVars, consVars, wrkVars
<1>3. CASE Forwarder \/ Dispatcher \/ Consumer
  BY <1>3 DEF Forwarder, ForwarderReceives, Publish, ForwarderEnds,
              Dispatcher, DispatcherReceives, Dispatch, DispatcherEnds,
              Consumer, ConsumerReceives, SaveEvent, ProcessEvent, AppendHit,
              srcVars, wrkVars
<1>4. CASE WorkerStep
  BY <1>4 DEF WorkerStep, StartMonitor, FailJob, StopMonitor, ClosePublishChan, StopPipeline,
              InspectProcess, ScanMemory, AppendMemoryHits, BeginReadHits, EndReadHits,
              GetJobEvents, srcVars
<1>5. CASE Deadline \/ Cancel \/ UNCHANGED vars
  BY <1>5 DEF Deadline, Cancel, vars, srcVars, wrkVars
<1> QED
  BY <1>1, <1>2, <1>3, <1>4, <1>5 DEF Next

\* Rows are never deleted and losses never undone.
LEMMA BackedGrows == TypeOK /\ TypeOK' /\ [Next]_vars => Backed \subseteq Backed'
<1> SUFFICES ASSUME TypeOK, [Next]_vars  PROVE Contents(stored) \subseteq Contents(stored') /\ lost \subseteq lost'
  BY DEF Backed
<1>1. CASE SaveEvent
  <2>1. stored \in Seq(Nat) /\ consHand \in Seq(Nat)
    BY HandIs, EventSeqs DEF TypeOK
  <2> QED BY <1>1, <2>1, ContentsConcat DEF SaveEvent
<1>2. CASE Monitor \/ SendCompletes \/ Deadline \/ Cancel \/ UNCHANGED vars
  BY <1>2 DEF Monitor, BeginTurn, EndTurn, MonitorEnds, TrySend, Send, SendCompletes,
              Deadline, Cancel, vars, consVars
<1>3. CASE Forwarder \/ Dispatcher
  BY <1>3 DEF Forwarder, ForwarderReceives, Publish, ForwarderEnds,
              Dispatcher, DispatcherReceives, Dispatch, DispatcherEnds, consVars
<1>4. CASE ConsumerReceives \/ ProcessEvent \/ AppendHit
  BY <1>4 DEF ConsumerReceives, ProcessEvent, AppendHit
<1>5. CASE WorkerStep
  BY <1>5 DEF WorkerStep, StartMonitor, FailJob, StopMonitor, ClosePublishChan, StopPipeline,
              InspectProcess, ScanMemory, AppendMemoryHits, BeginReadHits, EndReadHits,
              GetJobEvents, consVars
<1> QED
  BY <1>1, <1>2, <1>3, <1>4, <1>5 DEF Next, Consumer
\* The save comes before the rules, and the report takes the hits before it takes
\* the events.
LEMMA HitsStep == TypeOK /\ TypeOK' /\ PFlow /\ PMonitor /\ Evidence /\ [Next]_vars => Evidence'
<1> SUFFICES ASSUME TypeOK, TypeOK', PFlow, PMonitor, Evidence, [Next]_vars  PROVE Evidence'
  OBVIOUS
<1>0. Backed \subseteq Backed' /\ MemoryHit \in Backed /\ lost \subseteq lost'
  <2>1. lost \subseteq lost'
    BY DEF Next, Monitor, BeginTurn, EndTurn, MonitorEnds, TrySend, Send, SendCompletes,
           Deadline, Cancel, Forwarder, ForwarderReceives, Publish, ForwarderEnds,
           Dispatcher, DispatcherReceives, Dispatch, DispatcherEnds,
           Consumer, ConsumerReceives, SaveEvent, ProcessEvent, AppendHit,
           WorkerStep, StartMonitor, FailJob, StopMonitor, ClosePublishChan, StopPipeline,
           InspectProcess, ScanMemory, AppendMemoryHits, BeginReadHits, EndReadHits,
           GetJobEvents, vars
  <2> QED BY <2>1, BackedGrows DEF Backed
<1> USE DEF Evidence, PHits, HitsBackedByTimeline
<1>1. ASSUME UNCHANGED <<cons, consHand, hits, wrkVars>>  PROVE Evidence'
  BY <1>0, <1>1 DEF wrkVars
<1>2. CASE Monitor \/ SendCompletes \/ Deadline \/ Cancel \/ UNCHANGED vars
  BY <1>1, <1>2 DEF Monitor, BeginTurn, EndTurn, MonitorEnds, TrySend, Send, SendCompletes,
                    Deadline, Cancel, vars, consVars
<1>3. CASE Forwarder \/ Dispatcher
  BY <1>1, <1>3 DEF Forwarder, ForwarderReceives, Publish, ForwarderEnds,
                    Dispatcher, DispatcherReceives, Dispatch, DispatcherEnds, consVars
<1>4. CASE ConsumerReceives
  BY <1>0, <1>4 DEF ConsumerReceives, wrkVars
<1>5. CASE SaveEvent
  <2>1. Contents(consHand) \subseteq Backed'
    <3>1. stored \in Seq(Nat) /\ consHand \in Seq(Nat)
      BY HandIs, EventSeqs DEF TypeOK
    <3> QED BY <1>5, <3>1, ContentsConcat DEF SaveEvent, Backed
  <2> QED BY <1>0, <1>5, <2>1 DEF SaveEvent, wrkVars
<1>6. CASE ProcessEvent
  BY <1>0, <1>6 DEF ProcessEvent, wrkVars
<1>7. CASE AppendHit
  BY <1>0, <1>7 DEF AppendHit, wrkVars
<1>8. CASE StartMonitor \/ FailJob \/ StopMonitor \/ ClosePublishChan \/ StopPipeline
  BY <1>0, <1>8 DEF PMonitor, StartMonitor, FailJob, StopMonitor, ClosePublishChan, StopPipeline, consVars
<1>9. CASE InspectProcess \/ ScanMemory \/ AppendMemoryHits \/ BeginReadHits
  BY <1>0, <1>9 DEF InspectProcess, ScanMemory, AppendMemoryHits, BeginReadHits, consVars
<1>10. CASE EndReadHits
  BY <1>0, <1>10 DEF EndReadHits, consVars
<1>11. CASE GetJobEvents
  <2>1. UNCHANGED <<repHits, stored, lost, consVars>>
    BY <1>11 DEF GetJobEvents, consVars
  <2>2. PHits'
    BY <1>0, <1>11, <2>1 DEF GetJobEvents, consVars
  <2>3. CASE wrk' = "unreported"
    BY <2>2, <2>3
  <2>4. CASE wrk' # "unreported"
    <3>1. PICK n \in 0..Len(stored) :
              repEvents' = {stored[i] : i \in 1..n} /\ cutOff' = (n < Len(stored))
      BY <1>11, <2>4 DEF GetJobEvents
    <3>2. repHits \subseteq Backed
      BY <1>11 DEF GetJobEvents
    <3>3. stored \in Seq(Nat) /\ Rising(stored)
      <4>1. stored = Relay[1] /\ 1 \in Stage
        BY RelayIs DEF Stage
      <4> QED BY <4>1, EventSeqs DEF PFlow, Flow, TypeOK
    <3>4. ASSUME NEW h \in repHits' \ ({MemoryHit} \cup lost' \cup repEvents')
          PROVE  cutOff' /\ \A e \in repEvents' : e < h
      <4>1. h \in Contents(stored)
        BY <2>1, <3>2, <3>4 DEF Backed
      <4>2. PICK k \in 1..Len(stored) : h = stored[k]
        BY <4>1 DEF Contents
      <4>3. n < k
        BY <3>1, <3>4, <4>2
      <4>4. cutOff'
        <5>1. n < Len(stored)
          BY <3>3, <4>3
        <5> QED BY <3>1, <5>1
      <4>5. ASSUME NEW i \in 1..n  PROVE stored[i] < h
        BY <3>1, <3>3, <4>2, <4>3 DEF Rising
      <4> QED BY <3>1, <4>4, <4>5
    <3> QED BY <2>2, <3>4
  <2> QED BY <2>3, <2>4
<1> QED
  BY <1>2, <1>3, <1>4, <1>5, <1>6, <1>7, <1>8, <1>9, <1>10, <1>11
     DEF Next, Consumer, WorkerStep

-----------------------------------------------------------------------------
(* The theorems.                                                           *)

\* The relay carries what Accounted calls stored and in flight.
LEMMA InFlightContents ==
    TypeOK => Carried(Relay) = Contents(stored) \cup Contents(InFlight)
              /\ Contents(stored \o InFlight) = Contents(stored) \cup Contents(InFlight)
<1> SUFFICES ASSUME TypeOK
             PROVE  Carried(Relay) = Contents(stored) \cup Contents(InFlight)
                    /\ Contents(stored \o InFlight) = Contents(stored) \cup Contents(InFlight)
  OBVIOUS
<1> DEFINE C == IF cons = "save" THEN consHand ELSE <<>>
           D == C \o consumerChan
           E == D \o dispHand
           F == E \o stream
           G == F \o fwdHand
           H == G \o publishChan
           I == H \o srcHand
<1>1. /\ stored \in Seq(Nat) /\ C \in Seq(Nat) /\ consumerChan \in Seq(Nat)
      /\ dispHand \in Seq(Nat) /\ stream \in Seq(Nat) /\ fwdHand \in Seq(Nat)
      /\ publishChan \in Seq(Nat) /\ srcHand \in Seq(Nat)
  <2>1. Relay \in [Stage -> Seq(Nat)] /\ Stage = {1, 2, 3, 4, 5, 6, 7, 8}
    BY RelayType DEF Stage
  <2> QED BY <2>1, RelayIs
<1>2. D \in Seq(Nat) /\ Contents(D) = Contents(C) \cup Contents(consumerChan)
  <2> HIDE DEF C
  <2> QED BY <1>1, ContentsConcat
<1>3. E \in Seq(Nat) /\ Contents(E) = Contents(D) \cup Contents(dispHand)
  <2> HIDE DEF D
  <2> QED BY <1>1, <1>2, ContentsConcat
<1>4. F \in Seq(Nat) /\ Contents(F) = Contents(E) \cup Contents(stream)
  <2> HIDE DEF E
  <2> QED BY <1>1, <1>3, ContentsConcat
<1>5. G \in Seq(Nat) /\ Contents(G) = Contents(F) \cup Contents(fwdHand)
  <2> HIDE DEF F
  <2> QED BY <1>1, <1>4, ContentsConcat
<1>6. H \in Seq(Nat) /\ Contents(H) = Contents(G) \cup Contents(publishChan)
  <2> HIDE DEF G
  <2> QED BY <1>1, <1>5, ContentsConcat
<1>7. I \in Seq(Nat) /\ Contents(I) = Contents(H) \cup Contents(srcHand)
  <2> HIDE DEF H
  <2> QED BY <1>1, <1>6, ContentsConcat
<1>8. InFlight = I
  BY DEF InFlight
<1>9. Carried(Relay) = Contents(stored) \cup Contents(C) \cup Contents(consumerChan)
          \cup Contents(dispHand) \cup Contents(stream) \cup Contents(fwdHand)
          \cup Contents(publishChan) \cup Contents(srcHand)
  <2>1. Carried(Relay) = UNION {Contents(Relay[i]) : i \in {1, 2, 3, 4, 5, 6, 7, 8}}
    BY DEF Carried, Together, Stage
  <2> QED BY <2>1, RelayIs
<1> HIDE DEF C, D, E, F, G, H, I
<1> QED BY <1>1, <1>2, <1>3, <1>4, <1>5, <1>6, <1>7, <1>8, <1>9, ContentsConcat
-----------------------------------------------------------------------------
LEMMA PInit == Init => PInv
<1> SUFFICES ASSUME Init  PROVE PInv
  OBVIOUS
<1>1. TypeOK
  BY TypeInit
<1>2. \A i \in Stage : Relay[i] = <<>>
  <2>1. Stage = {1, 2, 3, 4, 5, 6, 7, 8}
    BY DEF Stage
  <2> QED BY <2>1, RelayIs DEF Init
<1>3. PFlow
  <2>1. Relay \in [Stage -> Seq(Nat)]
    BY <1>1, RelayType
  <2>2. \A i \in Stage : Rising(Relay[i])
    BY <1>2 DEF Rising
  <2>3. \A i \in Stage : Contents(Relay[i]) = {}
    BY <1>2, ContentsEmpty
  <2>4. InOrder([i \in Stage |-> Contents(Relay[i])])
    BY <2>3 DEF InOrder, Before
  <2>5. Carried(Relay) = {}
    BY <2>3 DEF Carried, Together
  <2>6. 1..sent = {} /\ lost = {}
    BY DEF Init
  <2> QED BY <2>1, <2>2, <2>4, <2>5, <2>6 DEF PFlow, Flow
<1>4. PMonitor /\ Evidence
  BY DEF Init, PMonitor, Evidence, PHits, HitsBackedByTimeline
<1> QED BY <1>1, <1>3, <1>4 DEF PInv

\* The relay is in order, and every hit is backed, in every reachable state.
THEOREM Inductive == Spec => []PInv
<1>1. PInv /\ [Next]_vars => PInv'
  BY TypeStep, FlowStep, MonitorStep, HitsStep DEF PInv
<1> QED BY PInit, <1>1, PTL DEF Spec

\* Types, with the bounds of the three channels: no send overfills its buffer.
THEOREM TypeCorrect == Spec => []TypeOK
  BY Inductive, PTL DEF PInv

\* No event vanishes and none is both kept and dropped, from TrySend to SaveEvent.
THEOREM EventsAccounted == Spec => []Accounted
<1>1. PInv => Accounted
  BY InFlightContents DEF PInv, PFlow, Flow, Accounted
<1> QED BY Inductive, <1>1, PTL

\* The report's timeline has every event behind its hits whose save succeeded,
\* whatever the consumer does beside GenerateReport, or lacks its own end.
THEOREM HitsBacked == Spec => []HitsBackedByTimeline
  BY Inductive, PTL DEF PInv, Evidence

\* The events table is a log of the emissions, in order and without repetition:
\* emission is Emit, a successful SaveEvent is Arrive, all else stutters.
THEOREM ImplementsLog == Spec => LogSpec
<1>1. Init => Log!Init
  BY DEF Init, Log!Init
<1>2. PInv /\ [Next]_vars => [Log!Next]_<<sent, stored>>
  <2> SUFFICES ASSUME PInv, [Next]_vars  PROVE [Log!Next]_<<sent, stored>>
    OBVIOUS
  <2>1. CASE TrySend \/ Send
    BY <2>1 DEF TrySend, Send, consVars, Log!Next, Log!Emit
  <2>2. CASE SaveEvent
    <3>1. sent' = sent
      BY <2>2 DEF SaveEvent, srcVars
    <3>2. CASE stored' = stored \o consHand /\ consHand # <<>>
      <4>1. PICK e \in Event : consHand = <<e>>
        BY <3>2 DEF PInv, TypeOK, Hand
      <4>2. stored \in Seq(Nat) /\ e \in Nat
        BY EventSeqs, PipelineAssumption DEF PInv, TypeOK, Event
      <4>3. stored' = Append(stored, e)
        BY <3>2, <4>1, <4>2, AppendIsConcat
      <4>4. Relay[1] = stored /\ Relay[2] = <<e>>
        BY <2>2, <4>1, RelayIs DEF SaveEvent
      <4>5. 1 \in Stage /\ 2 \in Stage /\ Contents(<<e>>) = {e}
        BY ContentsOne DEF Stage
      <4>6. e \in 1..sent
        BY <4>4, <4>5 DEF PInv, PFlow, Flow, Carried, Together
      <4>7. Before(Contents(stored), {e})
        <5>1. InOrder([i \in Stage |-> Contents(Relay[i])])
          BY DEF PInv, PFlow, Flow
        <5>2. Before([i \in Stage |-> Contents(Relay[i])][1], [i \in Stage |-> Contents(Relay[i])][2])
          BY <4>5, <5>1 DEF InOrder
        <5> QED BY <4>4, <4>5, <5>2
      <4>8. Log!Newest \in Nat /\ Log!Newest < e
        <5>1. CASE stored = <<>>
          BY <4>6, <5>1 DEF Log!Newest
        <5>2. CASE stored # <<>>
          <6>1. Len(stored) \in 1..Len(stored)
            BY <4>2, <5>2
          <6>2. stored[Len(stored)] \in Contents(stored)
            BY <6>1 DEF Contents
          <6>3. stored[Len(stored)] < e
            BY <4>7, <6>2 DEF Before
          <6> QED BY <4>2, <5>2, <6>1, <6>3 DEF Log!Newest
        <5> QED BY <5>1, <5>2
      <4>9. e \in (Log!Newest + 1)..sent
        BY <4>2, <4>6, <4>8 DEF PInv, TypeOK
      <4> QED BY <3>1, <4>3, <4>9 DEF Log!Next, Log!Arrive
    <3>3. CASE stored' = stored \/ (stored' = stored \o consHand /\ consHand = <<>>)
      BY <3>1, <3>3 DEF PInv, TypeOK
    <3> QED BY <2>2, <3>2, <3>3 DEF SaveEvent
  <2>3. CASE BeginTurn \/ EndTurn \/ MonitorEnds \/ SendCompletes \/ Deadline \/ Cancel \/ UNCHANGED vars
    BY <2>3 DEF BeginTurn, EndTurn, MonitorEnds, SendCompletes, Deadline, Cancel, vars, srcVars, consVars
  <2>4. CASE Forwarder \/ Dispatcher
    BY <2>4 DEF Forwarder, ForwarderReceives, Publish, ForwarderEnds,
                Dispatcher, DispatcherReceives, Dispatch, DispatcherEnds, srcVars, consVars
  <2>5. CASE ConsumerReceives \/ ProcessEvent \/ AppendHit
    BY <2>5 DEF ConsumerReceives, ProcessEvent, AppendHit, srcVars
  <2>6. CASE WorkerStep
    BY <2>6 DEF WorkerStep, StartMonitor, FailJob, StopMonitor, ClosePublishChan, StopPipeline,
                InspectProcess, ScanMemory, AppendMemoryHits, BeginReadHits, EndReadHits,
                GetJobEvents, srcVars, consVars
  <2> QED BY <2>1, <2>2, <2>3, <2>4, <2>5, <2>6 DEF Next, Monitor, Consumer
<1> QED BY Inductive, <1>1, <1>2, PTL DEF Spec, LogSpec, Log!Spec

-----------------------------------------------------------------------------
(* Waiting.  Who holds what others wait for can always go on.              *)

\* The forwarder ends only with its channel closed; the mutex is held by whoever
\* is about to append, and by nobody else.
PHolders ==
    /\ fwd = "ended" => closed
    /\ hitsMu = "consumer" <=> cons = "append"
    /\ hitsMu = "worker" <=> wrk = "append"

\* A blocked send has room, meets a closed channel, or waits for a forwarder that
\* waits for nobody; the mutex is free, or with one whose next step releases it.
NobodyInTheWay ==
    /\ src = "blocked" => \/ closed \/ Len(publishChan) < PublishCap
                          \/ fwdHand # <<>> \/ (fwd = "loop" /\ publishChan # <<>>)
    /\ hitsMu = "free" \/ cons = "append" \/ wrk = "append"

LEMMA HoldersStep == TypeOK /\ PHolders /\ [Next]_vars => PHolders'
<1> SUFFICES ASSUME TypeOK, PHolders, [Next]_vars  PROVE PHolders'
  OBVIOUS
<1> USE DEF PHolders
<1>1. CASE Monitor \/ SendCompletes
  <2>1. UNCHANGED <<fwd, closed, hitsMu, cons, wrk>>
    BY <1>1 DEF Monitor, BeginTurn, EndTurn, MonitorEnds, TrySend, Send, SendCompletes,
       chanVars, busVars, consVars, wrkVars
  <2> QED BY <2>1
<1>2. CASE Forwarder \/ Dispatcher
  <2>1. UNCHANGED <<closed, hitsMu, cons, wrk>> /\ (fwd' # fwd => closed)
    BY <1>2 DEF Forwarder, ForwarderReceives, Publish, ForwarderEnds,
       Dispatcher, DispatcherReceives, Dispatch, DispatcherEnds, chanVars, consVars, wrkVars
  <2> QED BY <2>1
<1>3. CASE Consumer
  <2>1. UNCHANGED <<fwd, closed, wrk>>
    BY <1>3 DEF Consumer, ConsumerReceives, SaveEvent, ProcessEvent, AppendHit,
       chanVars, busVars, wrkVars
  <2>2. CASE hitsMu' = hitsMu /\ cons # "append" /\ cons' # "append"
    BY <2>1, <2>2
  <2>3. CASE hitsMu = "free" /\ hitsMu' = "consumer" /\ cons' = "append"
    BY <2>1, <2>3
  <2>4. CASE cons = "append" /\ hitsMu' = "free" /\ cons' = "recv"
    BY <2>1, <2>4
  <2> QED BY <1>3, <2>2, <2>3, <2>4
          DEF Consumer, ConsumerReceives, SaveEvent, ProcessEvent, AppendHit
<1>4. CASE WorkerStep
  <2>1. UNCHANGED <<fwd, cons>> /\ (closed => closed')
    BY <1>4 DEF WorkerStep, StartMonitor, FailJob, StopMonitor, ClosePublishChan, StopPipeline,
       InspectProcess, ScanMemory, AppendMemoryHits, BeginReadHits, EndReadHits, GetJobEvents,
       chanVars, busVars, consVars
  <2>2. CASE hitsMu' = hitsMu /\ wrk # "append" /\ wrk' # "append"
    BY <2>1, <2>2
  <2>3. CASE hitsMu = "free" /\ hitsMu' = "worker" /\ wrk' = "append"
    BY <2>1, <2>3
  <2>4. CASE wrk = "append" /\ hitsMu' = "free" /\ wrk' = "finish"
    BY <2>1, <2>4
  <2> QED BY <1>4, <2>2, <2>3, <2>4
          DEF WorkerStep, StartMonitor, FailJob, StopMonitor, ClosePublishChan, StopPipeline,
              InspectProcess, ScanMemory, AppendMemoryHits, BeginReadHits, EndReadHits,
              GetJobEvents, consVars
<1>5. CASE Deadline \/ Cancel \/ UNCHANGED vars
  <2>1. UNCHANGED <<fwd, closed, hitsMu, cons, wrk>>
    BY <1>5 DEF Deadline, Cancel, vars, chanVars, busVars, consVars, wrkVars
  <2> QED BY <2>1
<1> QED BY <1>1, <1>2, <1>3, <1>4, <1>5 DEF Next

\* Nothing the goroutines of a job wait for is held for ever: behind a blocking
\* send and behind ruleHitsMu there is always a goroutine with a step to make, for
\* any capacities, with the bus stopped and the store failing.  With fairness, that
\* is what MonitorNotStuck needs (monitor.go, orchestrator.go:161-215).
THEOREM NobodyBlocksForEver == Spec => []NobodyInTheWay
<1>1. Init => PHolders
  BY DEF Init, PHolders
<1>2. PInv /\ PHolders /\ [Next]_vars => PHolders'
  BY HoldersStep DEF PInv
<1>3. PInv /\ PHolders => NobodyInTheWay
  <2> SUFFICES ASSUME TypeOK, PHolders  PROVE NobodyInTheWay
    BY DEF PInv
  <2>1. ASSUME ~closed, ~(Len(publishChan) < PublishCap)
        PROVE  fwd = "loop" /\ publishChan # <<>>
    <3>1. fwd = "loop"
      BY <2>1 DEF PHolders, TypeOK
    <3>2. publishChan # <<>>
      BY <2>1, PipelineAssumption
    <3> QED BY <3>1, <3>2
  <2>2. hitsMu \in {"free", "consumer", "worker"}
    BY DEF TypeOK
  <2> QED BY <2>1, <2>2 DEF PHolders, NobodyInTheWay
<1> QED BY Inductive, <1>1, <1>2, <1>3, PTL DEF Spec
=============================================================================
