----------------------------- MODULE VncServer ------------------------------
(* The sharer's endpoint: CCPVncServer.  One step is one call of the plugin *)
(* or one turn of the thread that handles a message; that calls and turns   *)
(* may overlap is not modelled here.                                        *)
EXTENDS VncMessages

VARIABLES
  server,     \* the fields of CCPVncServer
  serverIn    \* what the connection has received and Recv has not returned

ServerStates == {"UnInit", "Init", "Creating", "Joining", "Sharing"}

(* What the AppShare server does with input events: it starts with          *)
(* m_enable_remote_inputs TRUE, which is "default" here until the first     *)
(* EnableRemoteInput of this session.                                       *)
InputModes == {"default", "enabled", "disabled"}

SrvInit ==
  /\ server = [state |-> "UnInit", rc |-> "Normal", room |-> -1,
               sending |-> FALSE, reconnecting |-> FALSE, conn |-> "none",
               requestQ |-> << >>, input |-> "default",
               asked |-> 0]
  /\ serverIn = << >>

SrvRunning == server.state # "UnInit"
SrvHasSpace == Len(server.requestQ) < QueueBound

SrvRequest(type, from, room, status) ==
  Append(server.requestQ, Msg(type, from, room, status))

-----------------------------------------------------------------------------
(* Calls of the plugin. *)

(* initServer when every resource can be had; without one it undoes what it *)
(* did and returns.  The reconnect flag and the room of an earlier session  *)
(* are left alone.                                                          *)
initServer ==
  /\ server.state = "UnInit"
  /\ server' = [server EXCEPT !.state = "Init", !.conn = "up"]
  /\ serverIn' = << >>

uninitServer ==
  /\ SrvRunning
  /\ server' = [server EXCEPT !.state = "UnInit", !.rc = "Normal",
                              !.sending = FALSE, !.conn = "none",
                              !.requestQ = << >>, !.input = "default"]
  /\ serverIn' = << >>

createShareRoom ==
  /\ server.state = "Init" /\ SrvHasSpace
  /\ server' = [server EXCEPT
       !.state = "Creating",
       !.requestQ = SrvRequest("CreateRoom", "VncServer", 0, 0)]
  /\ UNCHANGED serverIn

(* joinShareRoom as a function of the endpoint: RecvDataThread calls it too *)
Joined(s, r) ==
  IF s.state \in {"Init", "Sharing"}
    THEN [s EXCEPT !.state = "Joining", !.room = r,
                   !.requestQ = Append(@, Msg("JoinRoom", "VncServer", r, 0))]
    ELSE s

joinShareRoom(r) ==
  /\ server.state \in {"Init", "Sharing"} /\ SrvHasSpace
  /\ server' = Joined(server, r)
  /\ UNCHANGED serverIn

quitShareRoom ==
  /\ server.state = "Sharing" /\ SrvHasSpace
  /\ server' = [server EXCEPT
       !.requestQ = SrvRequest("QuitRoom", "VncServer", server.room, 0)]
  /\ UNCHANGED serverIn

reqRemoteControl ==
  /\ server.state = "Sharing" /\ SrvHasSpace
  /\ server.rc # "ReqControling"
  /\ server.asked < SharerAsks
  /\ server' = [server EXCEPT
       !.rc = "ReqControling", !.asked = @ + 1,
       !.requestQ = SrvRequest("ReqControl", "VncViewer", server.room, 1)]
  /\ UNCHANGED serverIn

stopKeepsInput ==   \* mutant: the sharer's stop leaves its own input on
  /\ server.state = "Sharing" /\ SrvHasSpace
  /\ server.rc \in {"Controling", "ReqControling"}
  /\ server' = [server EXCEPT
       !.rc = "Normal",
       !.requestQ = SrvRequest("ReqControl", "VncViewer", server.room, 0)]
  /\ UNCHANGED serverIn

stopSilently ==   \* mutant: the viewer is not told
  /\ server.state = "Sharing" /\ SrvHasSpace
  /\ server.rc \in {"Controling", "ReqControling"}
  /\ server' = [server EXCEPT !.rc = "Normal", !.input = "disabled"]
  /\ UNCHANGED serverIn

stopRemoteControl ==
  /\ server.state = "Sharing" /\ SrvHasSpace
  /\ server.rc \in {"Controling", "ReqControling"}
  /\ server' = [server EXCEPT
       !.rc = "Normal", !.input = "disabled",
       !.requestQ = SrvRequest("ReqControl", "VncViewer", server.room, 0)]
  /\ UNCHANGED serverIn

acceptRemoteControl(r) ==
  /\ server.rc = "RecvReqControling" /\ SrvHasSpace
  /\ r = server.room
  /\ server' = [server EXCEPT
       !.rc = "Controling", !.input = "enabled",
       !.requestQ = SrvRequest("ControlRsp", "VncServer", server.room, 200)]
  /\ UNCHANGED serverIn

rejectWrongStatus(r) ==   \* mutant: the refusal carries a status the protocol does not have
  /\ server.rc = "RecvReqControling" /\ SrvHasSpace
  /\ r = server.room
  /\ server' = [server EXCEPT
       !.rc = "Normal", !.input = "disabled",
       !.requestQ = SrvRequest("ControlRsp", "VncServer", server.room, 486)]
  /\ UNCHANGED serverIn

rejectRemoteControl(r) ==
  /\ server.rc = "RecvReqControling" /\ SrvHasSpace
  /\ r = server.room
  /\ server' = [server EXCEPT
       !.rc = "Normal", !.input = "disabled",
       !.requestQ = SrvRequest("ControlRsp", "VncServer", server.room, 603)]
  /\ UNCHANGED serverIn

-----------------------------------------------------------------------------
(* The threads. *)

(* SendDataThread: the request at the head is sent and removed *)
SrvSend(m) ==
  /\ SrvRunning /\ server.conn = "up" /\ ~server.reconnecting
  /\ server.requestQ # << >>
  /\ m = Head(server.requestQ)
  /\ server' = [server EXCEPT !.requestQ = Tail(@)]

(* RecvDataThread: Recv returned -1 *)
SrvDisconnected ==
  /\ SrvRunning /\ server.conn = "down" /\ ~server.reconnecting
  /\ server' = [server EXCEPT !.conn = "none", !.reconnecting = TRUE]
  /\ serverIn' = << >>

(* the next turns of RecvDataThread: whatever connection there is is given  *)
(* up, a new one is made, and the room is joined again; joinShareRoom looks *)
(* at the state before it does anything                                     *)
ReconnectedForgets ==   \* mutant: m_bReconnectServering stays set
  /\ SrvRunning /\ server.reconnecting
  /\ server.state \in {"Init", "Sharing"} => Len(server.requestQ) <= QueueBound
  /\ server' = Joined([server EXCEPT !.conn = "up"], server.room)
  /\ serverIn' = << >>

SrvReconnected ==
  /\ SrvRunning /\ server.reconnecting
  /\ server.state \in {"Init", "Sharing"} => Len(server.requestQ) <= QueueBound
  /\ server' = Joined([server EXCEPT !.conn = "up", !.reconnecting = FALSE],
                      server.room)
  /\ serverIn' = << >>

(* HandleVncMsgPacket, case by case *)
RoomClosedIgnored(m) ==   \* mutant: the sharer stays in a room that is closed
  m.type = "RoomClosed" /\ UNCHANGED server

SrvOnRoomClosed(m) ==
  /\ m.type = "RoomClosed"
  /\ server' = [server EXCEPT !.state = "Init", !.room = 0]

RefusalIgnored(m) ==   \* mutant: a refused join is not acted on
  /\ m.type = "JoinRoomRsp"
  /\ server' = IF m.status = 0
                 THEN [server EXCEPT !.sending = TRUE, !.state = "Sharing"]
                 ELSE server

SrvOnJoinRoom(m) ==
  /\ m.type = "JoinRoomRsp"
  /\ server' = IF m.status = 0
                 THEN [server EXCEPT !.sending = TRUE, !.state = "Sharing"]
                 ELSE [server EXCEPT !.state = "Init"]

SrvOnQuitRoom(m) ==
  /\ m.type = "QuitRoomRsp"
  /\ server' = [server EXCEPT !.state = "Init", !.room = 0]

(* The observer's ServerQuitRoom runs on this thread: the plugin quits the  *)
(* room too unless its own session is already over.                         *)
SrvOnExitRoom(m) ==
  /\ m.type = "ExitRoom"
  /\ \/ server.state = "Sharing" /\ SrvHasSpace
        /\ server' = [server EXCEPT
             !.requestQ = SrvRequest("QuitRoom", "VncServer", server.room, 0)]
     \/ UNCHANGED server

SrvOnReqInitMsg(m) ==
  /\ m.type = "ReqInitMsg"
  /\ server' = IF server.state = "Sharing"
                 THEN [server EXCEPT !.sending = TRUE] ELSE server

SrvOnReqControl(m) ==
  /\ m.type = "ReqControl"
  /\ server' =
       IF m.status = 1 /\ server.rc = "Normal"
         THEN [server EXCEPT !.rc = "RecvReqControling"]
       ELSE IF m.status = 0 /\ server.rc = "RecvReqControling"
         THEN [server EXCEPT !.rc = "Normal"]
       ELSE IF m.status = 0 /\ server.rc = "Controling"
         THEN [server EXCEPT !.rc = "Normal", !.input = "disabled"]
       ELSE server

SrvOnControlRsp(m) ==
  /\ m.type = "ControlRsp"
  /\ server' =
       IF server.rc = "ReqControling" /\ m.status = 200
         THEN [server EXCEPT !.rc = "Controling", !.input = "enabled"]
       ELSE IF server.rc = "ReqControling" /\ m.status = 603
         THEN [server EXCEPT !.rc = "Normal", !.input = "disabled"]
       ELSE server

(* the response to createShareRoom: the whole case is commented out *)
SrvOnCreateRoom(m) == m.type = "CreateRoomRsp" /\ UNCHANGED server

SrvHandle ==
  /\ SrvRunning /\ server.conn # "none" /\ ~server.reconnecting
  /\ serverIn # << >>
  /\ LET m == Head(serverIn) IN
       \/ SrvOnCreateRoom(m) \/ SrvOnRoomClosed(m) \/ SrvOnJoinRoom(m)
       \/ SrvOnQuitRoom(m) \/ SrvOnExitRoom(m) \/ SrvOnReqInitMsg(m)
       \/ SrvOnReqControl(m) \/ SrvOnControlRsp(m)
  /\ serverIn' = Tail(serverIn)

SrvRoomCall ==
  \/ initServer \/ uninitServer \/ createShareRoom \/ quitShareRoom
  \/ \E r \in Rooms : joinShareRoom(r)

SrvControlCall ==
  \/ reqRemoteControl \/ stopRemoteControl
  \/ \E r \in RoomIds : acceptRemoteControl(r) \/ rejectRemoteControl(r)

-----------------------------------------------------------------------------
(* The component on its own: any caller, any connection, any peer.  One     *)
(* message at a time may be waiting, which is no restriction where messages *)
(* are arbitrary.                                                           *)
Incoming ==
  [type : {"CreateRoomRsp", "RoomClosed", "JoinRoomRsp", "QuitRoomRsp",
           "ReqInitMsg", "ExitRoom"},
   from : {"Server"}, room : Rooms \cup {0}, status : {0, Failed}]
  \cup
  [type : {"ReqControl", "ControlRsp"}, from : {"VncViewer", "VncServer"},
   room : Rooms, status : {0, 1, 200, 603}]

Arrives ==
  /\ server.conn # "none" /\ serverIn = << >>
  /\ \E m \in Incoming : serverIn' = <<m>>
  /\ UNCHANGED server

Breaks ==
  /\ server.conn = "up"
  /\ server' = [server EXCEPT !.conn = "down"]
  /\ UNCHANGED serverIn

Sends ==
  /\ \E i \in {1} \cap DOMAIN server.requestQ : SrvSend(server.requestQ[i])
  /\ UNCHANGED serverIn

SrvNext ==
  \/ SrvRoomCall \/ SrvControlCall
  \/ Sends \/ SrvHandle \/ SrvDisconnected \/ SrvReconnected
  \/ Arrives \/ Breaks

SrvVars == <<server, serverIn>>
SrvSpec == SrvInit /\ [][SrvNext]_SrvVars

-----------------------------------------------------------------------------
ServerFields ==
  [state : ServerStates, rc : ControlStates, room : RoomIds,
   sending : BOOLEAN, reconnecting : BOOLEAN, conn : Connections,
   requestQ : Seq(Messages), input : InputModes,
   asked : 0 .. SharerAsks]

SrvTypeOK ==
  /\ server \in ServerFields
  /\ Len(server.requestQ) <= QueueBound + 1
  /\ serverIn \in Seq(Messages)

(* From the first call of EnableRemoteInput in a session on, the sharer's   *)
(* machine takes input events only while it is being controlled, or while   *)
(* it asks for control again out of a session it granted before.  Until     *)
(* that call the input is "default", which is on, and nothing is said.      *)
InputOnlyWhileGranted ==
  server.input = "enabled" => server.rc \in {"Controling", "ReqControling"}

(* The switch as vncServer.cpp has it: on unless it was turned off *)
InputOn == server.input # "disabled"

(* What a step may never do, but for the one that ends the session (the     *)
(* next one begins with the input on): turn the input on without being      *)
(* controlled from then on, or leave Controling or ReqControling and leave  *)
(* the input on.                                                            *)
SwitchFollowsControl ==
  LET Granting == server.rc \in {"Controling", "ReqControling"}
  IN  server'.state = "UnInit"
        \/ /\ ~InputOn /\ InputOn' => server'.rc = "Controling"
           /\ Granting /\ ~Granting' => ~InputOn'

(* And the other way round: a sharer that counts as controlled takes input. *)
GrantTakesInput == server.rc = "Controling" => server.input = "enabled"
=============================================================================
