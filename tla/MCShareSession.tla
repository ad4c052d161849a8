--------------------------- MODULE MCShareSession ----------------------------
(* User A asks once to see B's desktop. *)
EXTENDS ShareSession
=============================================================================
