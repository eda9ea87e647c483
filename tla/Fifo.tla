-------------------------------- MODULE Fifo --------------------------------
(***************************************************************************)
(* A first-in first-out queue: what libhv's queue.h promises ("FIFO:       *)
(* push_back,pop_front").                                                  *)
(***************************************************************************)
EXTENDS Sequences

CONSTANT Elems      \* what the queue holds

VARIABLE fifo       \* the elements, the oldest first

Init == fifo = <<>>

Push(e) == fifo' = Append(fifo, e)

Pop == fifo # <<>> /\ fifo' = Tail(fifo)

Drop == fifo' = <<>>

Next == (\E e \in Elems : Push(e)) \/ Pop \/ Drop

Spec == Init /\ [][Next]_fifo
=============================================================================
