--------------------------- MODULE MCFrameTransfer ---------------------------
(* Three frames of two, three and two packets *)
EXTENDS FrameTransfer

MCTotal == <<3, 5, 4>>
=============================================================================
