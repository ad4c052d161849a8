---------------------------- MODULE MCFrameQueue ----------------------------
(* FrameQueue with three slots and five frames: the ring wraps, fills up and *)
(* drops.                                                                   *)
EXTENDS FrameQueue
=============================================================================
