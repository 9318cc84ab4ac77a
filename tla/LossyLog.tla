------------------------------ MODULE LossyLog ------------------------------
(***************************************************************************)
(* What the telemetry pipeline of a job promises: of the events emitted,   *)
(* numbered 1, 2, ..., some reach the log, each at most once and in the    *)
(* order of emission.  Any of them may be missing.                         *)
(***************************************************************************)
EXTENDS Naturals, Sequences

VARIABLES emitted, \* the number of events emitted so far
          log      \* the events that reached the log

Newest == IF log = <<>> THEN 0 ELSE log[Len(log)]

Init == emitted = 0 /\ log = <<>>

Emit == emitted' = emitted + 1 /\ UNCHANGED log

Arrive == \E e \in (Newest + 1)..emitted : log' = Append(log, e) /\ UNCHANGED emitted

Next == Emit \/ Arrive

Spec == Init /\ [][Next]_<<emitted, log>>
=============================================================================
