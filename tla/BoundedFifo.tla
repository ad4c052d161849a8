---------------------------- MODULE BoundedFifo ----------------------------
(* What the three frame and request queues of the VNC code promise: a FIFO *)
(* of at most Capacity entries whose producer never waits.  An entry       *)
(* offered to a full queue is dropped, every other entry is kept, nothing  *)
(* is reordered, and the only other way out is the wholesale drain of      *)
(* shutdown, which also works from the front.                              *)
EXTENDS Naturals, Sequences

CONSTANTS Capacity, Entries

VARIABLES queue

Init == queue = << >>

Put == /\ Len(queue) < Capacity
       /\ \E e \in Entries : queue' = Append(queue, e)

Take == /\ queue # << >>
        /\ queue' = Tail(queue)

Next == Put \/ Take

Spec == Init /\ [][Next]_queue
=============================================================================
