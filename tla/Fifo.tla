-------------------------------- MODULE Fifo --------------------------------
(* What the queue of hw2/libs/queue promises: first in, first out.         *)
EXTENDS Sequences

CONSTANT Data

VARIABLE items

Init == items = <<>>

Push(d) == items' = Append(items, d)
Pop     == items # <<>> /\ items' = Tail(items)

Next == Pop \/ \E d \in Data : Push(d)

Spec == Init /\ [][Next]_items
=============================================================================
