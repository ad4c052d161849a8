---------------------------- MODULE MCRemoteControl -----------------------------
(* One room; each side may ask two times, so that an answer can meet the    *)
(* wrong request.                                                           *)
EXTENDS RemoteControl
=============================================================================
