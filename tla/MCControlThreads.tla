--------------------------- MODULE MCControlThreads ---------------------------
(* Two requests of the sharer and one of the viewer cross.                  *)
EXTENDS ControlThreads

MCMaxAsks == [x \in Sides |-> IF x = "S" THEN 2 ELSE 1]
=============================================================================
