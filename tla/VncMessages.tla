---------------------------- MODULE VncMessages -----------------------------
(* The packets the sharer, the viewer and the share server exchange         *)
(* (vnc/CCPVncDef.h), with the numbers of the protocol replaced by names.   *)
EXTENDS Integers, Sequences

CONSTANTS
  Rooms,       \* the ids the share server hands out
  SharerAsks,  \* bound: control requests the sharer may make
  ViewerAsks,  \* bound: control requests the viewer may make
  QueueBound   \* bound: messages the plugin's calls leave waiting in a request
               \* queue; a reconnection adds one more

ASSUME VncAssumption ==
  /\ Rooms \subseteq Nat \ {0}
  /\ Rooms # {}
  /\ SharerAsks \in Nat
  /\ ViewerAsks \in Nat
  /\ QueueBound \in Nat \ {0}

(* m_RoomID: -1 from the constructor, 0 once a room was left *)
RoomIds == Rooms \cup {-1, 0}

ClientTypes == {"VncViewer", "VncServer", "Server"}

MsgTypes ==
  {"CreateRoom", "JoinRoom", "QuitRoom", "ReqControl",
   "CreateRoomRsp", "RoomClosed", "JoinRoomRsp", "QuitRoomRsp",
   "ReqInitMsg", "ControlRsp", "ExitRoom"}

(* The status word: 0 and 1 stop and ask for control, 200 and 603 grant and *)
(* refuse it; in a room response 0 is success and everything else failure.  *)
Failed == 404
Statuses == {0, 1, 200, 603, Failed}

Messages == [type : MsgTypes, from : ClientTypes, room : RoomIds,
             status : Statuses]

Msg(type, from, room, status) ==
  [type |-> type, from |-> from, room |-> room, status |-> status]

(* VncRemoteControlState *)
ControlStates == {"Normal", "ReqControling", "RecvReqControling", "Controling"}

(* m_RudpConnection: NULL, connected, or an object whose peer is gone *)
Connections == {"none", "up", "down"}
=============================================================================
