------------------------------ MODULE JobLedger ------------------------------
(***************************************************************************)
(* What the orchestrator promises about jobs, without saying how: accepted *)
(* jobs stand in line, one at a time becomes active, in the order in which *)
(* they were accepted; a report is published for the active job only; a    *)
(* job that is over, or that a crash made the daemon forget, never comes   *)
(* back.                                                                   *)
(***************************************************************************)
EXTENDS Naturals, Sequences

CONSTANTS Job, NoJob

VARIABLES line, active, past, published

ledger == <<line, active, past, published>>

InLine(j) == \E i \in 1..Len(line) : line[i] = j

Init == line = <<>> /\ active = NoJob /\ past = {} /\ published = {}

Accept(j) ==
    /\ j \notin past /\ j # active /\ ~InLine(j)
    /\ line' = Append(line, j)
    /\ UNCHANGED <<active, past, published>>

Start ==
    /\ active = NoJob /\ line # <<>>
    /\ active' = Head(line) /\ line' = Tail(line)
    /\ UNCHANGED <<past, published>>

Publish ==
    /\ active # NoJob
    /\ published' = published \cup {active}
    /\ UNCHANGED <<line, active, past>>

Finish ==
    /\ active # NoJob
    /\ past' = past \cup {active} /\ active' = NoJob
    /\ UNCHANGED <<line, published>>

\* A crash: the active job and everyone in line are over without a result.
Forget ==
    /\ past' = past \cup {j \in Job : j = active \/ InLine(j)}
    /\ line' = <<>> /\ active' = NoJob
    /\ UNCHANGED published

Next == (\E j \in Job : Accept(j)) \/ Start \/ Publish \/ Finish \/ Forget

Spec == Init /\ [][Next]_ledger
=============================================================================
