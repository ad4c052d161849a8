--------------------------- MODULE MCViewerThreads ---------------------------
(* Three frames: one is drawn while two fill the queue. *)
EXTENDS ViewerThreads
=============================================================================
