----------------------------- MODULE LossyFrames -----------------------------
(* What the data path of a share promises the viewer: frames arrive, each   *)
(* at most once, in the order they were captured.  Until a connection       *)
(* breaks or the viewer's queue is full, every one arrives whole and none   *)
(* is missing after the first; then frames may be missing or spoiled.       *)
EXTENDS Naturals, Sequences

CONSTANT Frames        \* the numbers of the frames, in the order of capture
VARIABLES got,         \* what arrived, oldest first: frames, and Spoiled
          intact       \* no connection broke, no queue was full yet

Spoiled == 0           \* the number of no frame

Init == got = <<>> /\ intact = TRUE

Newer(n) == \A i \in DOMAIN got : got[i] < n

NextOne(n) == got = <<>> \/ n = got[Len(got)] + 1

Deliver(n) ==
  /\ Newer(n)
  /\ intact => NextOne(n)
  /\ got' = Append(got, n)
  /\ UNCHANGED intact

Spoil ==
  /\ ~intact
  /\ got' = Append(got, Spoiled)
  /\ UNCHANGED intact

Break == intact' = FALSE /\ UNCHANGED got

Next == Break \/ Spoil \/ \E n \in Frames : Deliver(n)

Spec == Init /\ [][Next]_<<got, intact>>
=============================================================================
