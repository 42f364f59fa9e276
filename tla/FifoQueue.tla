------------------------------ MODULE FifoQueue ------------------------------
(***************************************************************************)
(* A queue: elements leave it in the order in which they came, one at a    *)
(* time, or are all dropped at once, which the environment has to allow.   *)
(***************************************************************************)
EXTENDS Sequences

CONSTANT Elements
VARIABLES queue, may_drop

Init == queue = <<>>
Put(e) == queue' = Append(queue, e)
Get == queue # <<>> /\ queue' = Tail(queue)
Drop == may_drop /\ queue' = <<>>
Next == (\E e \in Elements : Put(e)) \/ Get \/ Drop
Spec == Init /\ [][Next]_queue
=============================================================================
