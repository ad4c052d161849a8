------------------------------ MODULE BytePipe --------------------------------
(* What a byte channel promises: bytes come out in the order in which they  *)
(* went in, none is lost, doubled or made up, no more than Capacity wait    *)
(* inside, and a pipe that is shut passes nothing on.  Bytes are numbered   *)
(* in the order in which they are put in.                                   *)
EXTENDS Naturals, Sequences

CONSTANT Capacity

VARIABLES inside, out, isShut

pipeVars == <<inside, out, isShut>>

PipeInit == inside = << >> /\ out = << >> /\ isShut = FALSE

(* the next k bytes go in *)
Put(k) ==
  /\ ~isShut /\ Len(inside) + k <= Capacity
  /\ inside' = inside \o [i \in 1 .. k |-> Len(out) + Len(inside) + i]
  /\ UNCHANGED <<out, isShut>>

(* the first k bytes come out *)
Take(k) ==
  /\ ~isShut /\ k <= Len(inside)
  /\ out' = out \o SubSeq(inside, 1, k)
  /\ inside' = SubSeq(inside, k + 1, Len(inside))
  /\ UNCHANGED isShut

Shut == isShut' = TRUE /\ UNCHANGED <<inside, out>>

PipeNext == Shut \/ \E k \in 1 .. Capacity : Put(k) \/ Take(k)

PipeSpec == PipeInit /\ [][PipeNext]_pipeVars
=============================================================================
