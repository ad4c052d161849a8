----------------------------- MODULE MCInputPath ------------------------------
(* A pointer event, a clipboard text whose header and text come in a frame  *)
(* each, and an update request.  No two frames fit into the ring of bytes   *)
(* together with a third.                                                   *)
EXTENDS InputPath

MCInputs == << [strict |-> FALSE, more |-> FALSE, ends |-> <<1, 2>>],
               [strict |-> FALSE, more |-> TRUE, ends |-> <<1, 2>>],
               [strict |-> FALSE, more |-> FALSE, ends |-> <<2>>],
               [strict |-> TRUE, more |-> FALSE, ends |-> <<1, 3>>] >>

=============================================================================
