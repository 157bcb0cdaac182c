---------------------------- MODULE BoundedFifo -----------------------------
(***************************************************************************)
(* What producer-consumer.h promises: a queue of at most Capacity requests *)
(* that leave in the order in which they came.  The k-th request is k.     *)
(***************************************************************************)
EXTENDS Naturals, Sequences

CONSTANT Capacity

VARIABLES queue, sent

Init == queue = <<>> /\ sent = 0

Put ==
    /\ Len(queue) < Capacity
    /\ sent' = sent + 1
    /\ queue' = Append(queue, sent + 1)

Take ==
    /\ queue # <<>>
    /\ queue' = Tail(queue)
    /\ UNCHANGED sent

Next == Put \/ Take

Spec == Init /\ [][Next]_<<queue, sent>>
=============================================================================
