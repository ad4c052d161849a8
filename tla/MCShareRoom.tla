---------------------------- MODULE MCShareRoom -----------------------------
(* ShareRoom with two rooms and one broken connection, with or without a    *)
(* request for control.  ShareRoomTwoBreaks breaks the connection again.    *)
EXTENDS ShareRoom
=============================================================================
