------------------------- MODULE VncEndpointProofs --------------------------
(* What the two endpoints promise whoever calls them, whatever their        *)
(* connections do and whatever the peer sends, for every number of rooms    *)
(* and requests: VncServer as a component of its own, and the steps of      *)
(* VncViewer for the modules that put the two together.                     *)
EXTENDS VncServer, VncViewer, SequenceTheorems, TLAPS

(* Typing and the two halves of the input switch are inductive together:    *)
(* each way out of Controling turns the input off, each way in turns it on. *)
SrvInv == SrvTypeOK /\ InputOnlyWhileGranted /\ GrantTakesInput

(* A message made of legal parts is a message. *)
LEMMA MsgTyped ==
  ASSUME NEW type \in MsgTypes, NEW from \in ClientTypes, NEW room \in RoomIds,
         NEW status \in Statuses
  PROVE  Msg(type, from, room, status) \in Messages
BY DEF Msg, Messages

(* Queueing a message keeps the queue a queue and makes it one longer. *)
LEMMA Queued ==
  ASSUME NEW q \in Seq(Messages), NEW m \in Messages
  PROVE  /\ Append(q, m) \in Seq(Messages)
         /\ Len(Append(q, m)) = Len(q) + 1
OBVIOUS

(* The bounds are numbers, and a room of the share server or none is one an *)
(* endpoint may keep.                                                       *)
LEMMA Bounds == VncAssumption => /\ 0 \in 0 .. SharerAsks /\ 0 \in 0 .. ViewerAsks
                                 /\ 0 \in RoomIds /\ Rooms \subseteq RoomIds
                                 /\ QueueBound \in Nat \ {0}
BY DEF VncAssumption, RoomIds

(* The values the code assigns are values of the fields. *)
LEMMA Names ==
  /\ "UnInit" \in ServerStates /\ "Init" \in ServerStates
  /\ "Creating" \in ServerStates /\ "Joining" \in ServerStates
  /\ "Sharing" \in ServerStates
  /\ "Normal" \in ControlStates /\ "ReqControling" \in ControlStates
  /\ "RecvReqControling" \in ControlStates /\ "Controling" \in ControlStates
  /\ "none" \in Connections /\ "up" \in Connections /\ "down" \in Connections
  /\ "default" \in InputModes /\ "enabled" \in InputModes
  /\ "disabled" \in InputModes
  /\ << >> \in Seq(Messages)
BY DEF ServerStates, ControlStates, Connections, InputModes

(* There is room for one message more. *)
LEMMA QueueKept ==
  ASSUME SrvTypeOK, NEW m \in Messages, Len(server.requestQ) <= QueueBound
  PROVE  /\ Append(server.requestQ, m) \in Seq(Messages)
         /\ Len(Append(server.requestQ, m)) <= QueueBound + 1
<1>1. server.requestQ \in Seq(Messages)
  BY DEF SrvTypeOK, ServerFields
<1> QED BY <1>1, Queued, VncAssumption, Bounds

(* The messages of the sharer's calls are messages. *)
LEMMA SrvMessages ==
  ASSUME SrvTypeOK
  PROVE  /\ Msg("CreateRoom", "VncServer", 0, 0) \in Messages
         /\ \A r \in RoomIds :
              /\ Msg("JoinRoom", "VncServer", r, 0) \in Messages
              /\ Msg("QuitRoom", "VncServer", r, 0) \in Messages
              /\ Msg("ReqControl", "VncViewer", r, 1) \in Messages
              /\ Msg("ReqControl", "VncViewer", r, 0) \in Messages
              /\ Msg("ControlRsp", "VncServer", r, 200) \in Messages
              /\ Msg("ControlRsp", "VncServer", r, 603) \in Messages
<1>1. /\ {"CreateRoom", "JoinRoom", "QuitRoom", "ReqControl", "ControlRsp"} \subseteq MsgTypes
      /\ {"VncServer", "VncViewer"} \subseteq ClientTypes
      /\ {0, 1, 200, 603} \subseteq Statuses
  BY DEF MsgTypes, ClientTypes, Statuses
<1> QED BY <1>1, MsgTyped, Bounds, VncAssumption

(* What a step has to show: the fields are typed, the queue is not too      *)
(* long, and the control state and the input move together.                 *)
LEMMA SrvInvStep ==
  ASSUME SrvInv,
         server' \in ServerFields, serverIn' \in Seq(Messages),
         Len(server'.requestQ) <= QueueBound + 1,
         \/ server'.rc = server.rc /\ server'.input = server.input
         \/ server'.rc = "ReqControling"
         \/ server'.rc = "Controling" /\ server'.input = "enabled"
         \/ server'.rc # "Controling" /\ server'.input # "enabled"
  PROVE  SrvInv'
BY DEF SrvInv, SrvTypeOK, InputOnlyWhileGranted, GrantTakesInput

(* The constructed endpoint satisfies the invariant. *)
LEMMA InitSrvInv == SrvInit => SrvInv
<1> SUFFICES ASSUME SrvInit PROVE SrvInv
  OBVIOUS
<1>1. -1 \in RoomIds /\ FALSE \in BOOLEAN
  BY DEF RoomIds
<1>2. server \in ServerFields
  BY <1>1, Names, Bounds, VncAssumption DEF SrvInit, ServerFields
<1>3. server.requestQ = << >> /\ server.rc = "Normal" /\ server.input = "default"
  BY DEF SrvInit
<1> QED BY <1>2, <1>3, Names, Bounds, VncAssumption
        DEF SrvInit, SrvInv, SrvTypeOK, InputOnlyWhileGranted, GrantTakesInput

(* The room calls of the plugin. *)
LEMMA RoomCallInv == SrvInv /\ SrvRoomCall => SrvInv'
<1> SUFFICES ASSUME SrvInv, SrvRoomCall PROVE SrvInv'
  OBVIOUS
<1>t. /\ SrvTypeOK /\ server \in ServerFields /\ serverIn \in Seq(Messages)
      /\ server.room \in RoomIds /\ server.requestQ \in Seq(Messages)
      /\ Len(server.requestQ) <= QueueBound + 1
  BY DEF SrvInv, SrvTypeOK, ServerFields
<1>1. CASE initServer
  <2>1. server' \in ServerFields /\ server'.requestQ = server.requestQ
        /\ server'.rc = server.rc /\ server'.input = server.input
    BY <1>1, <1>t, Names DEF initServer, ServerFields
  <2> QED BY <1>1, <1>t, <2>1, Names, SrvInvStep DEF initServer
<1>2. CASE uninitServer
  <2>1. server' \in ServerFields /\ server'.requestQ = << >>
        /\ server'.rc = "Normal" /\ server'.input = "default"
    BY <1>2, <1>t, Names DEF uninitServer, ServerFields
  <2> QED BY <1>2, <1>t, <2>1, Names, Bounds, VncAssumption, SrvInvStep DEF uninitServer
<1>3. CASE createShareRoom
  <2> DEFINE q == Append(server.requestQ, Msg("CreateRoom", "VncServer", 0, 0))
  <2>1. q \in Seq(Messages) /\ Len(q) <= QueueBound + 1
    BY <1>3, <1>t, QueueKept, SrvMessages, Bounds, VncAssumption DEF createShareRoom, SrvHasSpace
  <2>2. server' = [server EXCEPT !.state = "Creating", !.requestQ = q]
    BY <1>3 DEF createShareRoom, SrvRequest
  <2> HIDE DEF q
  <2>3. server' \in ServerFields /\ server'.requestQ = q
        /\ server'.rc = server.rc /\ server'.input = server.input
    BY <1>t, <2>1, <2>2, Names DEF ServerFields
  <2> QED BY <1>3, <1>t, <2>1, <2>3, SrvInvStep DEF createShareRoom
<1>4. CASE quitShareRoom
  <2> DEFINE q == Append(server.requestQ, Msg("QuitRoom", "VncServer", server.room, 0))
  <2>1. q \in Seq(Messages) /\ Len(q) <= QueueBound + 1
    BY <1>4, <1>t, QueueKept, SrvMessages, Bounds, VncAssumption DEF quitShareRoom, SrvHasSpace
  <2>2. server' = [server EXCEPT !.requestQ = q]
    BY <1>4 DEF quitShareRoom, SrvRequest
  <2> HIDE DEF q
  <2>3. server' \in ServerFields /\ server'.requestQ = q
        /\ server'.rc = server.rc /\ server'.input = server.input
    BY <1>t, <2>1, <2>2 DEF ServerFields
  <2> QED BY <1>4, <1>t, <2>1, <2>3, SrvInvStep DEF quitShareRoom
<1>5. CASE \E r \in Rooms : joinShareRoom(r)
  <2>0. PICK r \in Rooms : joinShareRoom(r)
    BY <1>5
  <2> DEFINE q == Append(server.requestQ, Msg("JoinRoom", "VncServer", r, 0))
  <2>1. q \in Seq(Messages) /\ Len(q) <= QueueBound + 1
    BY <2>0, <1>t, QueueKept, SrvMessages, Bounds, VncAssumption DEF joinShareRoom, SrvHasSpace
  <2>2. server' = [server EXCEPT !.state = "Joining", !.room = r, !.requestQ = q]
    BY <2>0 DEF joinShareRoom, Joined
  <2> HIDE DEF q
  <2>3. server' \in ServerFields /\ server'.requestQ = q
        /\ server'.rc = server.rc /\ server'.input = server.input
    BY <1>t, <2>1, <2>2, Names, Bounds, VncAssumption DEF ServerFields
  <2> QED BY <2>0, <1>t, <2>1, <2>3, SrvInvStep DEF joinShareRoom
<1> QED BY <1>1, <1>2, <1>3, <1>4, <1>5 DEF SrvRoomCall

(* The remote control calls: each moves the input with the control state. *)
LEMMA ControlCallInv == SrvInv /\ SrvControlCall => SrvInv'
<1> SUFFICES ASSUME SrvInv, SrvControlCall PROVE SrvInv'
  OBVIOUS
<1>t. /\ SrvTypeOK /\ server \in ServerFields /\ serverIn \in Seq(Messages)
      /\ server.room \in RoomIds /\ server.requestQ \in Seq(Messages)
      /\ Len(server.requestQ) <= QueueBound + 1
      /\ server.asked \in 0 .. SharerAsks
  BY DEF SrvInv, SrvTypeOK, ServerFields
<1>1. CASE reqRemoteControl
  <2> DEFINE q == Append(server.requestQ, Msg("ReqControl", "VncViewer", server.room, 1))
  <2>0. server.asked + 1 \in 0 .. SharerAsks
    BY <1>1, <1>t, VncAssumption DEF reqRemoteControl
  <2>1. q \in Seq(Messages) /\ Len(q) <= QueueBound + 1
    BY <1>1, <1>t, <2>0, QueueKept, SrvMessages, Bounds, VncAssumption DEF reqRemoteControl, SrvHasSpace
  <2>2. server' = [server EXCEPT !.rc = "ReqControling", !.asked = server.asked + 1, !.requestQ = q]
    BY <1>1 DEF reqRemoteControl, SrvRequest
  <2> HIDE DEF q
  <2>3. /\ server' \in ServerFields /\ server'.requestQ = q
        /\ server'.rc = "ReqControling"
    BY <1>t, <2>0, <2>1, <2>2, Names DEF ServerFields
  <2> QED BY <1>1, <1>t, <2>1, <2>3, SrvInvStep DEF reqRemoteControl
<1>2. CASE stopRemoteControl
  <2> DEFINE q == Append(server.requestQ, Msg("ReqControl", "VncViewer", server.room, 0))
  <2>1. q \in Seq(Messages) /\ Len(q) <= QueueBound + 1
    BY <1>2, <1>t, QueueKept, SrvMessages, Bounds, VncAssumption DEF stopRemoteControl, SrvHasSpace
  <2>2. server' = [server EXCEPT !.rc = "Normal", !.input = "disabled", !.requestQ = q]
    BY <1>2 DEF stopRemoteControl, SrvRequest
  <2> HIDE DEF q
  <2>3. /\ server' \in ServerFields /\ server'.requestQ = q
        /\ server'.rc = "Normal" /\ server'.input = "disabled"
    BY <1>t, <2>1, <2>2, Names DEF ServerFields
  <2> QED BY <1>2, <1>t, <2>1, <2>3, SrvInvStep DEF stopRemoteControl
<1>3. CASE \E r \in RoomIds : acceptRemoteControl(r)
  <2>0. PICK r \in RoomIds : acceptRemoteControl(r)
    BY <1>3
  <2> DEFINE q == Append(server.requestQ, Msg("ControlRsp", "VncServer", server.room, 200))
  <2>1. q \in Seq(Messages) /\ Len(q) <= QueueBound + 1
    BY <2>0, <1>t, QueueKept, SrvMessages, Bounds, VncAssumption DEF acceptRemoteControl, SrvHasSpace
  <2>2. server' = [server EXCEPT !.rc = "Controling", !.input = "enabled", !.requestQ = q]
    BY <2>0 DEF acceptRemoteControl, SrvRequest
  <2> HIDE DEF q
  <2>3. /\ server' \in ServerFields /\ server'.requestQ = q
        /\ server'.rc = "Controling" /\ server'.input = "enabled"
    BY <1>t, <2>1, <2>2, Names DEF ServerFields
  <2> QED BY <2>0, <1>t, <2>1, <2>3, SrvInvStep DEF acceptRemoteControl
<1>4. CASE \E r \in RoomIds : rejectRemoteControl(r)
  <2>0. PICK r \in RoomIds : rejectRemoteControl(r)
    BY <1>4
  <2> DEFINE q == Append(server.requestQ, Msg("ControlRsp", "VncServer", server.room, 603))
  <2>1. q \in Seq(Messages) /\ Len(q) <= QueueBound + 1
    BY <2>0, <1>t, QueueKept, SrvMessages, Bounds, VncAssumption DEF rejectRemoteControl, SrvHasSpace
  <2>2. server' = [server EXCEPT !.rc = "Normal", !.input = "disabled", !.requestQ = q]
    BY <2>0 DEF rejectRemoteControl, SrvRequest
  <2> HIDE DEF q
  <2>3. /\ server' \in ServerFields /\ server'.requestQ = q
        /\ server'.rc = "Normal" /\ server'.input = "disabled"
    BY <1>t, <2>1, <2>2, Names DEF ServerFields
  <2> QED BY <2>0, <1>t, <2>1, <2>3, SrvInvStep DEF rejectRemoteControl
<1> QED BY <1>1, <1>2, <1>3, <1>4 DEF SrvControlCall

(* The send and receive threads without the handlers. *)
LEMMA ThreadInv == SrvInv /\ (Sends \/ SrvDisconnected \/ SrvReconnected) => SrvInv'
<1> SUFFICES ASSUME SrvInv, Sends \/ SrvDisconnected \/ SrvReconnected PROVE SrvInv'
  OBVIOUS
<1>t. /\ SrvTypeOK /\ server \in ServerFields /\ serverIn \in Seq(Messages)
      /\ server.room \in RoomIds /\ server.requestQ \in Seq(Messages)
      /\ Len(server.requestQ) <= QueueBound + 1
      /\ server.asked \in 0 .. SharerAsks
  BY DEF SrvInv, SrvTypeOK, ServerFields
<1>1. CASE Sends
  <2>1. server.requestQ # << >> /\ server' = [server EXCEPT !.requestQ = Tail(server.requestQ)]
        /\ serverIn' = serverIn
    BY <1>1, <1>t DEF Sends, SrvSend
  <2> DEFINE q == Tail(server.requestQ)
  <2>2. q \in Seq(Messages) /\ Len(q) <= QueueBound + 1
    BY <1>t, <2>1, VncAssumption, Bounds, HeadTailProperties
  <2>3. server' = [server EXCEPT !.requestQ = q]
    BY <2>1
  <2> HIDE DEF q
  <2>4. /\ server' \in ServerFields /\ server'.requestQ = q
        /\ server'.rc = server.rc /\ server'.input = server.input
    BY <1>t, <2>2, <2>3 DEF ServerFields
  <2> QED BY <1>t, <2>1, <2>2, <2>4, SrvInvStep
<1>2. CASE SrvDisconnected
  <2>1. /\ server' \in ServerFields /\ server'.requestQ = server.requestQ
        /\ server'.rc = server.rc /\ server'.input = server.input
    BY <1>2, <1>t, Names DEF SrvDisconnected, ServerFields
  <2> QED BY <1>2, <1>t, <2>1, Names, SrvInvStep DEF SrvDisconnected
<1>3. CASE SrvReconnected
  <2> DEFINE q == Append(server.requestQ, Msg("JoinRoom", "VncServer", server.room, 0))
             s == [server EXCEPT !.conn = "up", !.reconnecting = FALSE]
  <2>1. s \in ServerFields /\ s.state = server.state /\ s.requestQ = server.requestQ
        /\ s.rc = server.rc /\ s.input = server.input
    BY <1>t, Names DEF ServerFields
  <2>2. server' = Joined(s, server.room) /\ serverIn' = << >>
    BY <1>3 DEF SrvReconnected
  <2>3. CASE server.state \in {"Init", "Sharing"}
    <3>1. q \in Seq(Messages) /\ Len(q) <= QueueBound + 1
      BY <1>3, <2>3, <1>t, QueueKept, SrvMessages, Bounds, VncAssumption DEF SrvReconnected
    <3>2. server' = [s EXCEPT !.state = "Joining", !.room = server.room, !.requestQ = q]
      BY <2>1, <2>2, <2>3 DEF Joined
    <3> HIDE DEF q, s
    <3>3. /\ server' \in ServerFields /\ server'.requestQ = q
          /\ server'.rc = s.rc /\ server'.input = s.input
      BY <1>t, <2>1, <3>1, <3>2, Names DEF ServerFields
    <3> QED BY <2>1, <2>2, <3>1, <3>3, Names, SrvInvStep
  <2>4. CASE server.state \notin {"Init", "Sharing"}
    <3>1. server' = s
      BY <2>1, <2>2, <2>4 DEF Joined
    <3> QED BY <1>t, <2>1, <2>2, <3>1, Names, SrvInvStep
  <2> QED BY <2>3, <2>4
<1> QED BY <1>1, <1>2, <1>3

(* The handler of each message. *)
LEMMA HandlerInv == SrvInv /\ SrvHandle => SrvInv'
<1> SUFFICES ASSUME SrvInv, SrvHandle PROVE SrvInv'
  OBVIOUS
<1>t. /\ SrvTypeOK /\ server \in ServerFields /\ serverIn \in Seq(Messages)
      /\ server.room \in RoomIds /\ server.requestQ \in Seq(Messages)
      /\ Len(server.requestQ) <= QueueBound + 1
      /\ server.asked \in 0 .. SharerAsks
  BY DEF SrvInv, SrvTypeOK, ServerFields
<1> DEFINE m == Head(serverIn)
<1>m. /\ m \in Messages
      /\ serverIn' = Tail(serverIn) /\ serverIn' \in Seq(Messages)
  <2>1. serverIn # << >> /\ serverIn' = Tail(serverIn)
    BY DEF SrvHandle
  <2>2. m \in Messages
    BY <1>t, <2>1, HeadTailProperties
  <2> QED BY <1>t, <2>1, <2>2, HeadTailProperties
<1>h. \/ SrvOnCreateRoom(m) \/ SrvOnRoomClosed(m) \/ SrvOnJoinRoom(m)
      \/ SrvOnQuitRoom(m) \/ SrvOnExitRoom(m) \/ SrvOnReqInitMsg(m)
      \/ SrvOnReqControl(m) \/ SrvOnControlRsp(m)
  BY DEF SrvHandle
<1> HIDE DEF m
<1> DEFINE Quiet == /\ server' \in ServerFields /\ server'.requestQ = server.requestQ
                    /\ server'.rc = server.rc /\ server'.input = server.input
<1>q. Quiet => SrvInv'
  BY <1>t, <1>m, SrvInvStep
<1>1. CASE SrvOnCreateRoom(m)
  BY <1>1, <1>t, <1>q DEF SrvOnCreateRoom
<1>2. CASE SrvOnRoomClosed(m)
  <2>1. Quiet
    BY <1>2, <1>t, Names, Bounds, VncAssumption DEF SrvOnRoomClosed, ServerFields
  <2> QED BY <2>1, <1>q
<1>3. CASE SrvOnJoinRoom(m)
  <2>1. Quiet
    BY <1>3, <1>t, Names DEF SrvOnJoinRoom, ServerFields
  <2> QED BY <2>1, <1>q
<1>4. CASE SrvOnQuitRoom(m)
  <2>1. Quiet
    BY <1>4, <1>t, Names, Bounds, VncAssumption DEF SrvOnQuitRoom, ServerFields
  <2> QED BY <2>1, <1>q
<1>5. CASE SrvOnExitRoom(m)
  <2>1. CASE UNCHANGED server
    BY <2>1, <1>t, <1>q
  <2>2. CASE SrvHasSpace /\ server' = [server EXCEPT !.requestQ =
               Append(server.requestQ, Msg("QuitRoom", "VncServer", server.room, 0))]
    <3> DEFINE q == Append(server.requestQ, Msg("QuitRoom", "VncServer", server.room, 0))
    <3>1. q \in Seq(Messages) /\ Len(q) <= QueueBound + 1
      BY <2>2, <1>t, QueueKept, SrvMessages, Bounds, VncAssumption DEF SrvHasSpace
    <3>2. server' = [server EXCEPT !.requestQ = q]
      BY <2>2
    <3> HIDE DEF q
    <3>3. /\ server' \in ServerFields /\ server'.requestQ = q
          /\ server'.rc = server.rc /\ server'.input = server.input
      BY <1>t, <3>1, <3>2 DEF ServerFields
    <3> QED BY <1>t, <1>m, <3>1, <3>3, SrvInvStep
  <2> QED BY <1>5, <2>1, <2>2 DEF SrvOnExitRoom, SrvRequest
<1>6. CASE SrvOnReqInitMsg(m)
  <2>1. Quiet
    BY <1>6, <1>t DEF SrvOnReqInitMsg, ServerFields
  <2> QED BY <2>1, <1>q
<1>7. CASE SrvOnReqControl(m)
  <2>1. CASE server' = [server EXCEPT !.rc = "RecvReqControling"]
             /\ server.rc = "Normal"
    <3>1. /\ server' \in ServerFields /\ server'.requestQ = server.requestQ
          /\ server'.rc = "RecvReqControling" /\ server'.input = server.input
      BY <2>1, <1>t, <1>m, Names DEF ServerFields
    <3>2. server.input # "enabled"
      BY <2>1 DEF SrvInv, InputOnlyWhileGranted
    <3> QED BY <1>t, <1>m, <3>1, <3>2, SrvInvStep
  <2>2. CASE server' = [server EXCEPT !.rc = "Normal"] /\ server.rc = "RecvReqControling"
    <3>1. /\ server' \in ServerFields /\ server'.requestQ = server.requestQ
          /\ server'.rc = "Normal" /\ server'.input = server.input
      BY <2>2, <1>t, Names DEF ServerFields
    <3>2. server.input # "enabled"
      BY <2>2 DEF SrvInv, InputOnlyWhileGranted
    <3> QED BY <1>t, <1>m, <3>1, <3>2, SrvInvStep
  <2>3. CASE server' = [server EXCEPT !.rc = "Normal", !.input = "disabled"]
    <3>1. /\ server' \in ServerFields /\ server'.requestQ = server.requestQ
          /\ server'.rc = "Normal" /\ server'.input = "disabled"
      BY <2>3, <1>t, Names DEF ServerFields
    <3> QED BY <1>t, <1>m, <3>1, SrvInvStep
  <2>4. CASE server' = server
    BY <2>4, <1>t, <1>q
  <2> QED BY <1>7, <2>1, <2>2, <2>3, <2>4 DEF SrvOnReqControl
<1>8. CASE SrvOnControlRsp(m)
  <2>1. CASE server' = [server EXCEPT !.rc = "Controling", !.input = "enabled"]
    <3>1. /\ server' \in ServerFields /\ server'.requestQ = server.requestQ
          /\ server'.rc = "Controling" /\ server'.input = "enabled"
      BY <2>1, <1>t, Names DEF ServerFields
    <3> QED BY <1>t, <1>m, <3>1, SrvInvStep
  <2>2. CASE server' = [server EXCEPT !.rc = "Normal", !.input = "disabled"]
    <3>1. /\ server' \in ServerFields /\ server'.requestQ = server.requestQ
          /\ server'.rc = "Normal" /\ server'.input = "disabled"
      BY <2>2, <1>t, Names DEF ServerFields
    <3> QED BY <1>t, <1>m, <3>1, SrvInvStep
  <2>3. CASE server' = server
    BY <2>3, <1>t, <1>q
  <2> QED BY <1>8, <2>1, <2>2, <2>3 DEF SrvOnControlRsp
<1> QED BY <1>h, <1>1, <1>2, <1>3, <1>4, <1>5, <1>6, <1>7, <1>8

(* What surrounds the component. *)
LEMMA EnvironmentInv == SrvInv /\ (Arrives \/ Breaks \/ UNCHANGED SrvVars) => SrvInv'
<1> SUFFICES ASSUME SrvInv, Arrives \/ Breaks \/ UNCHANGED SrvVars PROVE SrvInv'
  OBVIOUS
<1>t. /\ SrvTypeOK /\ server \in ServerFields /\ serverIn \in Seq(Messages)
      /\ server.room \in RoomIds /\ server.requestQ \in Seq(Messages)
      /\ Len(server.requestQ) <= QueueBound + 1
      /\ server.asked \in 0 .. SharerAsks
  BY DEF SrvInv, SrvTypeOK, ServerFields
<1>1. CASE Arrives
  <2>1. PICK m \in Incoming : serverIn' = <<m>>
    BY <1>1 DEF Arrives
  <2>2. m \in Messages
    <3>1. /\ {"CreateRoomRsp", "RoomClosed", "JoinRoomRsp", "QuitRoomRsp",
              "ReqInitMsg", "ExitRoom", "ReqControl", "ControlRsp"} \subseteq MsgTypes
          /\ ClientTypes = {"VncViewer", "VncServer", "Server"}
          /\ Statuses = {0, 1, 200, 603, Failed}
          /\ Rooms \cup {0} \subseteq RoomIds
      BY Bounds, VncAssumption DEF MsgTypes, ClientTypes, Statuses
    <3>2. CASE m \in [type : {"CreateRoomRsp", "RoomClosed", "JoinRoomRsp", "QuitRoomRsp",
                              "ReqInitMsg", "ExitRoom"},
                      from : {"Server"}, room : Rooms \cup {0}, status : {0, Failed}]
      <4>1. m = Msg(m.type, m.from, m.room, m.status)
        BY <3>2 DEF Msg
      <4>2. m.type \in MsgTypes /\ m.from \in ClientTypes /\ m.status \in Statuses
        BY <3>1, <3>2
      <4>3. m.room \in RoomIds
        BY <3>1, <3>2
      <4>4. Msg(m.type, m.from, m.room, m.status) \in Messages
        BY <4>2, <4>3, MsgTyped
      <4> QED BY <4>1, <4>4
    <3>3. CASE m \in [type : {"ReqControl", "ControlRsp"}, from : {"VncViewer", "VncServer"},
                      room : Rooms, status : {0, 1, 200, 603}]
      <4>1. m = Msg(m.type, m.from, m.room, m.status)
        BY <3>3 DEF Msg
      <4>2. m.type \in MsgTypes /\ m.from \in ClientTypes /\ m.status \in Statuses
        BY <3>1, <3>3
      <4>3. m.room \in RoomIds
        BY <3>1, <3>3
      <4>4. Msg(m.type, m.from, m.room, m.status) \in Messages
        BY <4>2, <4>3, MsgTyped
      <4> QED BY <4>1, <4>4
    <3> QED BY <2>1, <3>2, <3>3 DEF Incoming
  <2>3. serverIn' \in Seq(Messages)
    BY <2>1, <2>2
  <2> QED BY <1>1, <1>t, <2>3, SrvInvStep DEF Arrives
<1>2. CASE Breaks
  <2>1. /\ server' \in ServerFields /\ server'.requestQ = server.requestQ
        /\ server'.rc = server.rc /\ server'.input = server.input
    BY <1>2, <1>t, Names DEF Breaks, ServerFields
  <2> QED BY <1>2, <1>t, <2>1, SrvInvStep DEF Breaks
<1>3. CASE UNCHANGED SrvVars
  BY <1>3, <1>t, SrvInvStep DEF SrvVars
<1> QED BY <1>1, <1>2, <1>3

(* SrvInv holds of every behaviour of the sharer's endpoint. *)
THEOREM SrvInvariance == SrvSpec => []SrvInv
<1>1. SrvInit => SrvInv
  BY InitSrvInv
<1>2. SrvInv /\ [SrvNext]_SrvVars => SrvInv'
  BY RoomCallInv, ControlCallInv, ThreadInv, HandlerInv, EnvironmentInv DEF SrvNext
<1> QED BY <1>1, <1>2, PTL DEF SrvSpec

(* The fields of CCPVncServer keep their types, and the request queue is    *)
(* never longer than what the calls and one rejoin put there.               *)
THEOREM SrvTyping == SrvSpec => []SrvTypeOK
<1>1. SrvInv => SrvTypeOK
  BY DEF SrvInv
<1> QED BY <1>1, SrvInvariance, PTL

(* How a step moves the control state and the input: one of six ways. *)
LEMMA SwitchStep ==
  ASSUME \/ server'.rc = server.rc /\ server'.input = server.input
         \/ server'.state = "UnInit"
         \/ server'.rc = "Controling" /\ server'.input = "enabled"
         \/ server'.rc = "ReqControling" /\ server'.input = server.input
         \/ server'.input = "disabled"
         \/ /\ server.rc \in {"Normal", "RecvReqControling"}
            /\ server'.input = server.input
  PROVE  SwitchFollowsControl
BY DEF SwitchFollowsControl, InputOn

(* The calls of the plugin. *)
LEMMA SwitchCalls == SrvTypeOK /\ (SrvRoomCall \/ SrvControlCall) => SwitchFollowsControl
<1> SUFFICES ASSUME SrvTypeOK, SrvRoomCall \/ SrvControlCall
             PROVE  SwitchFollowsControl
  OBVIOUS
<1>t. server \in ServerFields
  BY DEF SrvTypeOK
<1>1. CASE initServer
  BY <1>1, <1>t, SwitchStep DEF initServer, ServerFields
<1>2. CASE uninitServer
  BY <1>2, <1>t, SwitchStep DEF uninitServer, ServerFields
<1>3. CASE createShareRoom
  BY <1>3, <1>t, SwitchStep DEF createShareRoom, ServerFields
<1>4. CASE quitShareRoom
  BY <1>4, <1>t, SwitchStep DEF quitShareRoom, ServerFields
<1>5. CASE \E r \in Rooms : joinShareRoom(r)
  BY <1>5, <1>t, SwitchStep DEF joinShareRoom, Joined, ServerFields
<1>6. CASE reqRemoteControl
  BY <1>6, <1>t, SwitchStep DEF reqRemoteControl, ServerFields
<1>7. CASE stopRemoteControl
  BY <1>7, <1>t, SwitchStep DEF stopRemoteControl, ServerFields
<1>8. CASE \E r \in RoomIds : acceptRemoteControl(r)
  BY <1>8, <1>t, SwitchStep DEF acceptRemoteControl, ServerFields
<1>9. CASE \E r \in RoomIds : rejectRemoteControl(r)
  BY <1>9, <1>t, SwitchStep DEF rejectRemoteControl, ServerFields
<1> QED BY <1>1, <1>2, <1>3, <1>4, <1>5, <1>6, <1>7, <1>8, <1>9
        DEF SrvRoomCall, SrvControlCall

(* The threads, the connection and the peer. *)
LEMMA SwitchThreads ==
  SrvTypeOK /\ (Sends \/ SrvDisconnected \/ SrvReconnected \/ Arrives \/ Breaks)
    => SwitchFollowsControl
<1> SUFFICES ASSUME SrvTypeOK,
                    Sends \/ SrvDisconnected \/ SrvReconnected \/ Arrives \/ Breaks
             PROVE  SwitchFollowsControl
  OBVIOUS
<1>t. server \in ServerFields
  BY DEF SrvTypeOK
<1>1. CASE Sends
  BY <1>1, <1>t, SwitchStep DEF Sends, SrvSend, ServerFields
<1>2. CASE SrvDisconnected
  BY <1>2, <1>t, SwitchStep DEF SrvDisconnected, ServerFields
<1>3. CASE SrvReconnected
  <2> DEFINE s == [server EXCEPT !.conn = "up", !.reconnecting = FALSE]
  <2>1. s.rc = server.rc /\ s.input = server.input /\ server' = Joined(s, server.room)
    BY <1>3, <1>t DEF SrvReconnected, ServerFields
  <2>2. server'.rc = s.rc /\ server'.input = s.input
    BY <2>1, <1>t DEF Joined, ServerFields
  <2> QED BY <2>1, <2>2, SwitchStep
<1>4. CASE Arrives
  BY <1>4, SwitchStep DEF Arrives
<1>5. CASE Breaks
  BY <1>5, <1>t, SwitchStep DEF Breaks, ServerFields
<1> QED BY <1>1, <1>2, <1>3, <1>4, <1>5

(* The handlers. *)
LEMMA SwitchHandlers == SrvTypeOK /\ SrvHandle => SwitchFollowsControl
<1> SUFFICES ASSUME SrvTypeOK, SrvHandle PROVE SwitchFollowsControl
  OBVIOUS
<1>t. server \in ServerFields
  BY DEF SrvTypeOK
<1> DEFINE m == Head(serverIn)
<1>h. \/ SrvOnCreateRoom(m) \/ SrvOnRoomClosed(m) \/ SrvOnJoinRoom(m)
      \/ SrvOnQuitRoom(m) \/ SrvOnExitRoom(m) \/ SrvOnReqInitMsg(m)
      \/ SrvOnReqControl(m) \/ SrvOnControlRsp(m)
  BY DEF SrvHandle
<1> HIDE DEF m
<1>1. CASE SrvOnCreateRoom(m)
  BY <1>1, SwitchStep DEF SrvOnCreateRoom
<1>2. CASE SrvOnRoomClosed(m)
  BY <1>2, <1>t, SwitchStep DEF SrvOnRoomClosed, ServerFields
<1>3. CASE SrvOnJoinRoom(m)
  BY <1>3, <1>t, SwitchStep DEF SrvOnJoinRoom, ServerFields
<1>4. CASE SrvOnQuitRoom(m)
  BY <1>4, <1>t, SwitchStep DEF SrvOnQuitRoom, ServerFields
<1>5. CASE SrvOnExitRoom(m)
  BY <1>5, <1>t, SwitchStep DEF SrvOnExitRoom, ServerFields
<1>6. CASE SrvOnReqInitMsg(m)
  BY <1>6, <1>t, SwitchStep DEF SrvOnReqInitMsg, ServerFields
<1>7. CASE SrvOnReqControl(m)
  BY <1>7, <1>t, SwitchStep DEF SrvOnReqControl, ServerFields
<1>8. CASE SrvOnControlRsp(m)
  BY <1>8, <1>t, SwitchStep DEF SrvOnControlRsp, ServerFields
<1> QED BY <1>h, <1>1, <1>2, <1>3, <1>4, <1>5, <1>6, <1>7, <1>8

(* Whatever the viewer and the share server send, in whatever order the     *)
(* plugin calls, and over every disconnection: the input that was turned    *)
(* off comes on only when the sharer becomes controlled, and leaving        *)
(* control, or giving up a request for it, turns it off.  Only the end of   *)
(* the session puts the switch back to on.                                  *)
THEOREM InputFollowsControl == SrvSpec => [][SwitchFollowsControl]_SrvVars
<1>1. SrvTypeOK /\ [SrvNext]_SrvVars => [SwitchFollowsControl]_SrvVars
  BY SwitchCalls, SwitchThreads, SwitchHandlers DEF SrvNext
<1> QED BY <1>1, SrvTyping, PTL DEF SrvSpec

(* And from the first decision of a session on, input that is on means that *)
(* control is granted or being asked for again.                             *)
THEOREM DecidedInputNeedsGrant == SrvSpec => []InputOnlyWhileGranted
<1>1. SrvInv => InputOnlyWhileGranted
  BY DEF SrvInv
<1> QED BY <1>1, SrvInvariance, PTL

(* And a sharer that counts as controlled takes input. *)
THEOREM GrantGivesInput == SrvSpec => []GrantTakesInput
<1>1. SrvInv => GrantTakesInput
  BY DEF SrvInv
<1> QED BY <1>1, SrvInvariance, PTL

-----------------------------------------------------------------------------
(* The viewer's endpoint. *)
VwrInv == VwrTypeOK /\ ViewOnlyUnlessControling

(* The values the viewer assigns are values of its fields. *)
LEMMA VwrNames ==
  /\ "UnInit" \in ViewerStates /\ "Init" \in ViewerStates
  /\ "RoomCreating" \in ViewerStates /\ "RoomJoining" \in ViewerStates
  /\ "Sharing" \in ViewerStates /\ "Quiting" \in ViewerStates
  /\ TRUE \in BOOLEAN /\ FALSE \in BOOLEAN
BY DEF ViewerStates

(* There is room for one message more. *)
LEMMA VwrQueueKept ==
  ASSUME VwrTypeOK, NEW m \in Messages, Len(viewer.requestQ) <= QueueBound
  PROVE  /\ Append(viewer.requestQ, m) \in Seq(Messages)
         /\ Len(Append(viewer.requestQ, m)) <= QueueBound + 1
<1>1. viewer.requestQ \in Seq(Messages)
  BY DEF VwrTypeOK, ViewerFields
<1> QED BY <1>1, Queued, VncAssumption, Bounds

(* The messages of the viewer's calls are messages. *)
LEMMA VwrMessages ==
  /\ Msg("CreateRoom", "VncViewer", 0, 0) \in Messages
  /\ \A r \in RoomIds :
       /\ Msg("JoinRoom", "VncViewer", r, 0) \in Messages
       /\ Msg("QuitRoom", "VncViewer", r, 0) \in Messages
       /\ Msg("ReqControl", "VncViewer", r, 1) \in Messages
       /\ Msg("ReqControl", "VncViewer", r, 0) \in Messages
       /\ Msg("ControlRsp", "VncServer", r, 200) \in Messages
       /\ Msg("ControlRsp", "VncServer", r, 603) \in Messages
<1>1. /\ {"CreateRoom", "JoinRoom", "QuitRoom", "ReqControl", "ControlRsp"} \subseteq MsgTypes
      /\ {"VncServer", "VncViewer"} \subseteq ClientTypes
      /\ {0, 1, 200, 603} \subseteq Statuses
  BY DEF MsgTypes, ClientTypes, Statuses
<1> QED BY <1>1, MsgTyped, Bounds, VncAssumption

(* What a step of the viewer has to show: typed fields, a queue that is not *)
(* too long, and view-only and the control state moving together.           *)
LEMMA VwrInvStep ==
  ASSUME VwrInv,
         viewer' \in ViewerFields, viewerIn' \in Seq(Messages),
         Len(viewer'.requestQ) <= QueueBound + 1,
         \/ viewer'.rc = viewer.rc /\ viewer'.viewOnly = viewer.viewOnly
         \/ /\ viewer.rc # "Controling" /\ viewer'.rc # "Controling"
            /\ viewer'.viewOnly = viewer.viewOnly
         \/ viewer'.rc = "Controling" /\ viewer'.viewOnly = FALSE
         \/ viewer'.rc = "Normal" /\ viewer'.viewOnly = TRUE
  PROVE  VwrInv'
<1>1. VwrTypeOK'
  BY DEF VwrTypeOK
<1>2. ViewOnlyUnlessControling'
  <2>1. viewer.viewOnly <=> viewer.rc # "Controling"
    BY DEF VwrInv, ViewOnlyUnlessControling
  <2> QED BY <2>1, Zenon DEF ViewOnlyUnlessControling
<1> QED BY <1>1, <1>2 DEF VwrInv

(* The viewer's remote control calls. *)
LEMMA VwrCallInv == VwrInv /\ VwrControlCall => VwrInv'
<1> SUFFICES ASSUME VwrInv, VwrControlCall PROVE VwrInv'
  OBVIOUS
<1> USE VwrNames
<1>t. /\ VwrTypeOK /\ viewer \in ViewerFields /\ viewerIn \in Seq(Messages)
      /\ viewer.room \in RoomIds /\ viewer.requestQ \in Seq(Messages)
      /\ Len(viewer.requestQ) <= QueueBound + 1
      /\ viewer.asked \in 0 .. ViewerAsks
  BY DEF VwrInv, VwrTypeOK, ViewerFields
<1>1. CASE vwrReqRemoteControl
  <2> DEFINE q == Append(viewer.requestQ, Msg("ReqControl", "VncViewer", viewer.room, 1))
  <2>0. viewer.asked + 1 \in 0 .. ViewerAsks
    BY <1>1, <1>t, VncAssumption DEF vwrReqRemoteControl
  <2>1. q \in Seq(Messages) /\ Len(q) <= QueueBound + 1
    BY <1>1, <1>t, <2>0, VwrQueueKept, VwrMessages, Bounds, VncAssumption DEF vwrReqRemoteControl, VwrHasSpace
  <2>2. viewer' = [viewer EXCEPT !.rc = "ReqControling", !.asked = viewer.asked + 1, !.requestQ = q]
    BY <1>1 DEF vwrReqRemoteControl, VwrRequest
  <2> HIDE DEF q
  <2>3. /\ viewer' \in ViewerFields /\ viewer'.requestQ = q
        /\ viewer'.rc = "ReqControling" /\ viewer'.viewOnly = viewer.viewOnly
    BY <1>t, <2>0, <2>1, <2>2, Names DEF ViewerFields
  <2> QED BY <1>1, <1>t, <2>1, <2>3, VwrInvStep DEF vwrReqRemoteControl
<1>2. CASE vwrStopRemoteControl
  <2> DEFINE q == Append(viewer.requestQ, Msg("ReqControl", "VncViewer", viewer.room, 0))
  <2>1. q \in Seq(Messages) /\ Len(q) <= QueueBound + 1
    BY <1>2, <1>t, VwrQueueKept, VwrMessages, Bounds, VncAssumption DEF vwrStopRemoteControl, VwrHasSpace
  <2>2. viewer' = [viewer EXCEPT !.rc = "Normal", !.viewOnly = TRUE, !.requestQ = q]
    BY <1>2 DEF vwrStopRemoteControl, VwrRequest
  <2> HIDE DEF q
  <2>3. /\ viewer' \in ViewerFields /\ viewer'.requestQ = q
        /\ viewer'.rc = "Normal" /\ viewer'.viewOnly = TRUE
    BY <1>t, <2>1, <2>2, Names DEF ViewerFields
  <2> QED BY <1>2, <1>t, <2>1, <2>3, VwrInvStep DEF vwrStopRemoteControl
<1>3. CASE \E r \in RoomIds : vwrAcceptRemoteControl(r)
  <2>0. PICK r \in RoomIds : vwrAcceptRemoteControl(r)
    BY <1>3
  <2> DEFINE q == Append(viewer.requestQ, Msg("ControlRsp", "VncServer", viewer.room, 200))
  <2>1. q \in Seq(Messages) /\ Len(q) <= QueueBound + 1
    BY <2>0, <1>t, VwrQueueKept, VwrMessages, Bounds, VncAssumption DEF vwrAcceptRemoteControl, VwrHasSpace
  <2>2. viewer' = [viewer EXCEPT !.rc = "Controling", !.viewOnly = FALSE, !.requestQ = q]
    BY <2>0 DEF vwrAcceptRemoteControl, VwrRequest
  <2> HIDE DEF q
  <2>3. /\ viewer' \in ViewerFields /\ viewer'.requestQ = q
        /\ viewer'.rc = "Controling" /\ viewer'.viewOnly = FALSE
    BY <1>t, <2>1, <2>2, Names DEF ViewerFields
  <2> QED BY <2>0, <1>t, <2>1, <2>3, VwrInvStep DEF vwrAcceptRemoteControl
<1>4. CASE \E r \in RoomIds : vwrRejectRemoteControl(r)
  <2>0. PICK r \in RoomIds : vwrRejectRemoteControl(r)
    BY <1>4
  <2> DEFINE q == Append(viewer.requestQ, Msg("ControlRsp", "VncServer", viewer.room, 603))
  <2>1. q \in Seq(Messages) /\ Len(q) <= QueueBound + 1
    BY <2>0, <1>t, VwrQueueKept, VwrMessages, Bounds, VncAssumption DEF vwrRejectRemoteControl, VwrHasSpace
  <2>2. viewer' = [viewer EXCEPT !.rc = "Normal", !.viewOnly = TRUE, !.requestQ = q]
    BY <2>0 DEF vwrRejectRemoteControl, VwrRequest
  <2> HIDE DEF q
  <2>3. /\ viewer' \in ViewerFields /\ viewer'.requestQ = q
        /\ viewer'.rc = "Normal" /\ viewer'.viewOnly = TRUE
    BY <1>t, <2>1, <2>2, Names DEF ViewerFields
  <2> QED BY <2>0, <1>t, <2>1, <2>3, VwrInvStep DEF vwrRejectRemoteControl
<1> QED BY <1>1, <1>2, <1>3, <1>4 DEF VwrControlCall

(* The handler of each message. *)
LEMMA VwrHandlerInv == VwrInv /\ VwrHandle => VwrInv'
<1> SUFFICES ASSUME VwrInv, VwrHandle PROVE VwrInv'
  OBVIOUS
<1> USE VwrNames
<1>t. /\ VwrTypeOK /\ viewer \in ViewerFields /\ viewerIn \in Seq(Messages)
      /\ viewer.room \in RoomIds /\ viewer.requestQ \in Seq(Messages)
      /\ Len(viewer.requestQ) <= QueueBound + 1
      /\ viewer.asked \in 0 .. ViewerAsks
  BY DEF VwrInv, VwrTypeOK, ViewerFields
<1> DEFINE m == Head(viewerIn)
<1>m. /\ m \in Messages /\ m.room \in RoomIds
      /\ viewerIn' = Tail(viewerIn) /\ viewerIn' \in Seq(Messages)
  <2>1. viewerIn # << >> /\ viewerIn' = Tail(viewerIn)
    BY DEF VwrHandle
  <2>2. m \in Messages
    BY <1>t, <2>1, HeadTailProperties
  <2> HIDE DEF m
  <2>3. m.room \in RoomIds
    BY <2>2 DEF Messages
  <2> QED BY <1>t, <2>1, <2>2, <2>3, HeadTailProperties
<1>h. \/ VwrOnCreateRoom(m) \/ VwrOnRoomClosed(m) \/ VwrOnJoinRoom(m)
      \/ VwrOnQuitRoom(m) \/ VwrOnExitRoom(m) \/ VwrOnReqInitMsg(m)
      \/ VwrOnReqControl(m) \/ VwrOnControlRsp(m)
  BY DEF VwrHandle
<1> HIDE DEF m
<1> DEFINE Quiet == /\ viewer' \in ViewerFields /\ viewer'.requestQ = viewer.requestQ
                    /\ viewer'.rc = viewer.rc /\ viewer'.viewOnly = viewer.viewOnly
<1>q. Quiet => VwrInv'
  BY <1>t, <1>m, VwrInvStep
<1>1. CASE VwrOnCreateRoom(m)
  <2>1. Quiet
    BY <1>1, <1>t, <1>m, Names, Bounds, VncAssumption DEF VwrOnCreateRoom, ViewerFields
  <2> QED BY <2>1, <1>q
<1>2. CASE VwrOnRoomClosed(m)
  <2>1. Quiet
    BY <1>2, <1>t, <1>m, Names, Bounds, VncAssumption DEF VwrOnRoomClosed, ViewerFields
  <2> QED BY <2>1, <1>q
<1>3. CASE VwrOnJoinRoom(m)
  <2>1. Quiet
    BY <1>3, <1>t, <1>m, Names, Bounds, VncAssumption DEF VwrOnJoinRoom, ViewerFields
  <2> QED BY <2>1, <1>q
<1>4. CASE VwrOnQuitRoom(m)
  <2>1. Quiet
    BY <1>4, <1>t, <1>m, Names, Bounds, VncAssumption DEF VwrOnQuitRoom, ViewerFields
  <2> QED BY <2>1, <1>q
<1>5. CASE VwrOnExitRoom(m)
  <2>1. CASE viewer' = viewer
    BY <2>1, <1>t, <1>q
  <2>2. CASE VwrHasSpace /\ viewer' = [viewer EXCEPT !.state = "Quiting", !.requestQ =
               Append(viewer.requestQ, Msg("QuitRoom", "VncViewer", viewer.room, 0))]
    <3> DEFINE q == Append(viewer.requestQ, Msg("QuitRoom", "VncViewer", viewer.room, 0))
    <3>1. q \in Seq(Messages) /\ Len(q) <= QueueBound + 1
      BY <2>2, <1>t, VwrQueueKept, VwrMessages, Bounds, VncAssumption DEF VwrHasSpace
    <3>2. viewer' = [viewer EXCEPT !.state = "Quiting", !.requestQ = q]
      BY <2>2
    <3> HIDE DEF q
    <3>3. /\ viewer' \in ViewerFields /\ viewer'.requestQ = q
          /\ viewer'.rc = viewer.rc /\ viewer'.viewOnly = viewer.viewOnly
      BY <1>t, <3>1, <3>2 DEF ViewerFields
    <3> QED BY <1>t, <1>m, <3>1, <3>3, VwrInvStep
  <2> QED BY <1>5, <2>1, <2>2 DEF VwrOnExitRoom, VwrRequest
<1>6. CASE VwrOnReqInitMsg(m)
  BY <1>6, <1>t, <1>q DEF VwrOnReqInitMsg
<1>7. CASE VwrOnReqControl(m)
  <2>1. CASE viewer' = [viewer EXCEPT !.rc = "RecvReqControling"]
             /\ viewer.rc = "Normal"
    <3>1. /\ viewer' \in ViewerFields /\ viewer'.requestQ = viewer.requestQ
          /\ viewer'.rc = "RecvReqControling" /\ viewer'.viewOnly = viewer.viewOnly
      BY <2>1, <1>t, <1>m, Names DEF ViewerFields
    <3> QED BY <1>t, <1>m, <2>1, <3>1, VwrInvStep
  <2>2. CASE viewer' = [viewer EXCEPT !.rc = "Normal"] /\ viewer.rc = "RecvReqControling"
    <3>1. /\ viewer' \in ViewerFields /\ viewer'.requestQ = viewer.requestQ
          /\ viewer'.rc = "Normal" /\ viewer'.viewOnly = viewer.viewOnly
      BY <2>2, <1>t, Names DEF ViewerFields
    <3> QED BY <1>t, <1>m, <2>2, <3>1, VwrInvStep
  <2>3. CASE viewer' = [viewer EXCEPT !.rc = "Normal", !.viewOnly = TRUE]
    <3>1. /\ viewer' \in ViewerFields /\ viewer'.requestQ = viewer.requestQ
          /\ viewer'.rc = "Normal" /\ viewer'.viewOnly = TRUE
      BY <2>3, <1>t, Names DEF ViewerFields
    <3> QED BY <1>t, <1>m, <3>1, VwrInvStep
  <2>4. CASE viewer' = viewer
    BY <2>4, <1>t, <1>q
  <2> QED BY <1>7, <2>1, <2>2, <2>3, <2>4 DEF VwrOnReqControl
<1>8. CASE VwrOnControlRsp(m)
  <2>1. CASE viewer' = [viewer EXCEPT !.rc = "Controling", !.viewOnly = FALSE]
    <3>1. /\ viewer' \in ViewerFields /\ viewer'.requestQ = viewer.requestQ
          /\ viewer'.rc = "Controling" /\ viewer'.viewOnly = FALSE
      BY <2>1, <1>t, Names DEF ViewerFields
    <3> QED BY <1>t, <1>m, <3>1, VwrInvStep
  <2>2. CASE viewer' = [viewer EXCEPT !.rc = "Normal", !.viewOnly = TRUE]
    <3>1. /\ viewer' \in ViewerFields /\ viewer'.requestQ = viewer.requestQ
          /\ viewer'.rc = "Normal" /\ viewer'.viewOnly = TRUE
      BY <2>2, <1>t, Names DEF ViewerFields
    <3> QED BY <1>t, <1>m, <3>1, VwrInvStep
  <2>3. CASE viewer' = viewer
    BY <2>3, <1>t, <1>q
  <2> QED BY <1>8, <2>1, <2>2, <2>3 DEF VwrOnControlRsp
<1> QED BY <1>h, <1>1, <1>2, <1>3, <1>4, <1>5, <1>6, <1>7, <1>8

(* The room calls of the plugin.  createShareRoom resets the control state  *)
(* (CCPVncViewer.cpp:214) and not the view-only switch, so it must not come *)
(* to a viewer that is in control: the plugin makes a new one first.        *)
LEMMA VwrRoomCallInv ==
  ASSUME VwrInv, vwrCreateShareRoom => viewer.rc # "Controling",
         initViewer \/ uninitViewer \/ vwrCreateShareRoom \/ vwrQuitShareRoom
  PROVE  VwrInv'
<1> USE VwrNames
<1>t. /\ VwrTypeOK /\ viewer \in ViewerFields /\ viewerIn \in Seq(Messages)
      /\ viewer.room \in RoomIds /\ viewer.requestQ \in Seq(Messages)
      /\ Len(viewer.requestQ) <= QueueBound + 1
      /\ viewer.asked \in 0 .. ViewerAsks
  BY DEF VwrInv, VwrTypeOK, ViewerFields
<1>1. CASE initViewer
  <2>1. -1 \in RoomIds /\ << >> \in Seq(Messages) /\ Len(<< >>) <= QueueBound + 1
    BY Bounds, VncAssumption, Names DEF RoomIds
  <2>2. viewer' = [state |-> "Init", rc |-> "Normal", room |-> -1, reconnecting |-> FALSE,
                   conn |-> "up", requestQ |-> << >>, viewOnly |-> TRUE,
                   asked |-> viewer.asked]
    BY <1>1 DEF initViewer, NewViewer
  <2>3. viewer' \in ViewerFields /\ viewer'.requestQ = << >>
        /\ viewer'.rc = "Normal" /\ viewer'.viewOnly = TRUE
    BY <1>t, <2>1, <2>2, Names DEF ViewerFields
  <2> QED BY <1>1, <2>1, <2>3, VwrInvStep DEF initViewer
<1>2. CASE uninitViewer
  <2>1. << >> \in Seq(Messages) /\ Len(<< >>) <= QueueBound + 1
    BY Bounds, VncAssumption, Names
  <2>2. viewer' = [viewer EXCEPT !.state = "UnInit", !.conn = "none", !.requestQ = << >>]
        /\ viewerIn' = << >>
    BY <1>2 DEF uninitViewer
  <2>3. viewer' \in ViewerFields /\ viewer'.requestQ = << >>
        /\ viewer'.rc = viewer.rc /\ viewer'.viewOnly = viewer.viewOnly
    BY <1>t, <2>1, <2>2, Names DEF ViewerFields
  <2> QED BY <2>1, <2>2, <2>3, VwrInvStep
<1>3. CASE vwrCreateShareRoom
  <2> DEFINE q == Append(viewer.requestQ, Msg("CreateRoom", "VncViewer", 0, 0))
  <2>1. q \in Seq(Messages) /\ Len(q) <= QueueBound + 1
    BY <1>3, <1>t, VwrQueueKept, VwrMessages, Bounds, VncAssumption
       DEF vwrCreateShareRoom, VwrHasSpace
  <2>2. viewer' = [viewer EXCEPT !.state = "RoomCreating", !.rc = "Normal", !.requestQ = q]
    BY <1>3 DEF vwrCreateShareRoom, VwrRequest
  <2> HIDE DEF q
  <2>3. /\ viewer' \in ViewerFields /\ viewer'.requestQ = q
        /\ viewer'.rc = "Normal" /\ viewer'.viewOnly = viewer.viewOnly
    BY <1>t, <2>1, <2>2, Names DEF ViewerFields
  <2> QED BY <1>3, <1>t, <2>1, <2>3, VwrInvStep DEF vwrCreateShareRoom
<1>4. CASE vwrQuitShareRoom
  <2> DEFINE q == Append(viewer.requestQ, Msg("QuitRoom", "VncViewer", viewer.room, 0))
  <2>1. q \in Seq(Messages) /\ Len(q) <= QueueBound + 1
    BY <1>4, <1>t, VwrQueueKept, VwrMessages, Bounds, VncAssumption
       DEF vwrQuitShareRoom, VwrHasSpace
  <2>2. viewer' = [viewer EXCEPT !.state = "Quiting", !.requestQ = q]
    BY <1>4 DEF vwrQuitShareRoom, VwrRequest
  <2> HIDE DEF q
  <2>3. /\ viewer' \in ViewerFields /\ viewer'.requestQ = q
        /\ viewer'.rc = viewer.rc /\ viewer'.viewOnly = viewer.viewOnly
    BY <1>t, <2>1, <2>2 DEF ViewerFields
  <2> QED BY <1>4, <1>t, <2>1, <2>3, VwrInvStep DEF vwrQuitShareRoom
<1> QED BY <1>1, <1>2, <1>3, <1>4

(* RecvDataThreadFunc between messages. *)
LEMMA VwrThreadInv == VwrInv /\ (VwrDisconnected \/ VwrReconnected) => VwrInv'
<1> SUFFICES ASSUME VwrInv, VwrDisconnected \/ VwrReconnected PROVE VwrInv'
  OBVIOUS
<1> USE VwrNames
<1>t. /\ VwrTypeOK /\ viewer \in ViewerFields /\ viewerIn \in Seq(Messages)
      /\ viewer.room \in RoomIds /\ viewer.requestQ \in Seq(Messages)
      /\ Len(viewer.requestQ) <= QueueBound + 1
  BY DEF VwrInv, VwrTypeOK, ViewerFields
<1>1. CASE VwrDisconnected
  <2>1. /\ viewer' \in ViewerFields /\ viewer'.requestQ = viewer.requestQ
        /\ viewer'.rc = viewer.rc /\ viewer'.viewOnly = viewer.viewOnly
    BY <1>1, <1>t, Names DEF VwrDisconnected, ViewerFields
  <2> QED BY <1>1, <1>t, <2>1, Names, VwrInvStep DEF VwrDisconnected
<1>2. CASE VwrReconnected
  <2> DEFINE q == Append(viewer.requestQ, Msg("JoinRoom", "VncViewer", viewer.room, 0))
             v == [viewer EXCEPT !.conn = "up", !.reconnecting = FALSE]
             st == IF viewer.state = "Init" THEN "RoomJoining" ELSE viewer.state
  <2>1. v \in ViewerFields /\ v.state = viewer.state /\ v.requestQ = viewer.requestQ
        /\ v.rc = viewer.rc /\ v.viewOnly = viewer.viewOnly
    BY <1>t, Names DEF ViewerFields
  <2>2. viewer' = VwrJoined(v, viewer.room) /\ viewerIn' = << >>
    BY <1>2 DEF VwrReconnected
  <2>3. CASE viewer.state \in {"Init", "Sharing"}
    <3>1. q \in Seq(Messages) /\ Len(q) <= QueueBound + 1
      BY <1>2, <2>3, <1>t, VwrQueueKept, VwrMessages, Bounds, VncAssumption DEF VwrReconnected
    <3>2. st \in ViewerStates
      BY <1>t DEF ViewerFields
    <3>3. viewer' = [v EXCEPT !.state = st, !.room = viewer.room, !.requestQ = q]
      BY <2>1, <2>2, <2>3 DEF VwrJoined
    <3> HIDE DEF q, v, st
    <3>4. /\ viewer' \in ViewerFields /\ viewer'.requestQ = q
          /\ viewer'.rc = v.rc /\ viewer'.viewOnly = v.viewOnly
      BY <1>t, <2>1, <3>1, <3>2, <3>3, Names DEF ViewerFields
    <3> QED BY <2>1, <2>2, <3>1, <3>4, Names, VwrInvStep
  <2>4. CASE viewer.state \notin {"Init", "Sharing"}
    <3>1. viewer' = v
      BY <2>1, <2>2, <2>4 DEF VwrJoined
    <3> QED BY <1>t, <2>1, <2>2, <3>1, Names, VwrInvStep
  <2> QED BY <2>3, <2>4
<1> QED BY <1>1, <1>2

-----------------------------------------------------------------------------
(* A connection that loses requests, or has sent one: the endpoint is left  *)
(* with a part of its queue.                                                *)
LEMMA Shortened ==
  ASSUME NEW q \in Seq(Messages), NEW lost \in 0 .. Len(q)
  PROVE  /\ SubSeq(q, lost + 1, Len(q)) \in Seq(Messages)
         /\ Len(SubSeq(q, lost + 1, Len(q))) <= Len(q)
<1>1. /\ lost + 1 \in Int /\ Len(q) \in Int
      /\ \A i \in lost + 1 .. Len(q) : q[i] \in Messages
  OBVIOUS
<1> QED BY <1>1, SubSeqProperties

LEMMA SrvShortenedInv ==
  ASSUME SrvInv, NEW q \in Seq(Messages), Len(q) <= Len(server.requestQ),
         NEW c \in Connections, serverIn' \in Seq(Messages),
         server' = [server EXCEPT !.conn = c, !.requestQ = q]
  PROVE  SrvInv'
<1>1. /\ server \in ServerFields /\ server.requestQ \in Seq(Messages)
      /\ Len(server.requestQ) <= QueueBound + 1
  BY DEF SrvInv, SrvTypeOK, ServerFields
<1>2. /\ server' \in ServerFields /\ server'.requestQ = q
      /\ server'.rc = server.rc /\ server'.input = server.input
  BY <1>1 DEF ServerFields
<1>3. Len(q) <= QueueBound + 1
  BY <1>1, Bounds, VncAssumption
<1> QED BY <1>2, <1>3, SrvInvStep

LEMMA VwrShortenedInv ==
  ASSUME VwrInv, NEW q \in Seq(Messages), Len(q) <= Len(viewer.requestQ),
         NEW c \in Connections, viewerIn' \in Seq(Messages),
         viewer' = [viewer EXCEPT !.conn = c, !.requestQ = q]
  PROVE  VwrInv'
<1>1. /\ viewer \in ViewerFields /\ viewer.requestQ \in Seq(Messages)
      /\ Len(viewer.requestQ) <= QueueBound + 1
  BY DEF VwrInv, VwrTypeOK, ViewerFields
<1>2. /\ viewer' \in ViewerFields /\ viewer'.requestQ = q
      /\ viewer'.rc = viewer.rc /\ viewer'.viewOnly = viewer.viewOnly
  BY <1>1 DEF ViewerFields
<1>3. Len(q) <= QueueBound + 1
  BY <1>1, Bounds, VncAssumption
<1> QED BY <1>2, <1>3, VwrInvStep
=============================================================================
