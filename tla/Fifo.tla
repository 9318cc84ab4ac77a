-------------------------------- MODULE Fifo --------------------------------
(***************************************************************************)
(* The queue the orchestrator relies on: items leave in the order in which *)
(* they entered, each once.                                                *)
(***************************************************************************)
EXTENDS Naturals, Sequences

CONSTANT Item

VARIABLES items, taken  \* what is in the queue, and what has left it

Init == items = <<>> /\ taken = <<>>

Put(i) == items' = Append(items, i) /\ UNCHANGED taken

Take == /\ items # <<>>
        /\ items' = Tail(items) /\ taken' = Append(taken, Head(items))

Next == Take \/ \E i \in Item : Put(i)

Spec == Init /\ [][Next]_<<items, taken>>
=============================================================================
