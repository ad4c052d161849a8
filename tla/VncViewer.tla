----------------------------- MODULE VncViewer ------------------------------
(* The viewer's endpoint: CCPVncViewer, at the grain of VncServer. *)
EXTENDS VncMessages

VARIABLES
  viewer,     \* the fields of CCPVncViewer
  viewerIn    \* what the connection has received and Recv has not returned

ViewerStates ==
  {"UnInit", "Init", "RoomCreating", "RoomJoining", "Sharing", "Quiting"}

(* what the constructor leaves *)
NewViewer ==
  [state |-> "UnInit", rc |-> "Normal", room |-> -1,
   reconnecting |-> FALSE, conn |-> "none", requestQ |-> << >>,
   viewOnly |-> TRUE, asked |-> 0]

VwrInit == viewer = NewViewer /\ viewerIn = << >>

VwrRunning == viewer.state # "UnInit"
VwrHasSpace == Len(viewer.requestQ) < QueueBound

VwrRequest(type, from, room, status) ==
  Append(viewer.requestQ, Msg(type, from, room, status))

-----------------------------------------------------------------------------
(* Calls of the plugin. *)
(* initViewer when every resource can be had.  The plugin makes a new       *)
(* CCPVncViewer for every request and deletes the one before, whatever      *)
(* became of it; the number of asks goes on.                                *)
initOldViewer ==   \* mutant: the viewer of the last session is used again
  /\ viewer' = [viewer EXCEPT !.state = "Init", !.conn = "up", !.requestQ = << >>]
  /\ viewerIn' = << >>

initViewer ==
  /\ viewer' = [NewViewer EXCEPT !.state = "Init", !.conn = "up",
                                 !.asked = viewer.asked]
  /\ viewerIn' = << >>

(* neither the control state nor the room nor the reconnect flag is reset *)
uninitViewer ==
  /\ VwrRunning
  /\ viewer' = [viewer EXCEPT !.state = "UnInit", !.conn = "none",
                              !.requestQ = << >>]
  /\ viewerIn' = << >>

vwrCreateShareRoom ==
  /\ viewer.state = "Init" /\ VwrHasSpace
  /\ viewer' = [viewer EXCEPT
       !.state = "RoomCreating", !.rc = "Normal",
       !.requestQ = VwrRequest("CreateRoom", "VncViewer", 0, 0)]
  /\ UNCHANGED viewerIn

(* joinShareRoom as a function of the endpoint; only RecvDataThreadFunc     *)
(* calls it                                                                 *)
VwrJoined(v, r) ==
  IF v.state \in {"Init", "Sharing"}
    THEN [v EXCEPT !.state = IF @ = "Init" THEN "RoomJoining" ELSE @,
                   !.room = r,
                   !.requestQ = Append(@, Msg("JoinRoom", "VncViewer", r, 0))]
    ELSE v

vwrQuitShareRoom ==
  /\ viewer.state = "Sharing" /\ VwrHasSpace
  /\ viewer' = [viewer EXCEPT
       !.state = "Quiting",
       !.requestQ = VwrRequest("QuitRoom", "VncViewer", viewer.room, 0)]
  /\ UNCHANGED viewerIn

vwrReqRemoteControl ==
  /\ viewer.state = "Sharing" /\ VwrHasSpace
  /\ viewer.rc = "Normal"
  /\ viewer.asked < ViewerAsks
  /\ viewer' = [viewer EXCEPT
       !.rc = "ReqControling", !.asked = @ + 1,
       !.requestQ = VwrRequest("ReqControl", "VncViewer", viewer.room, 1)]
  /\ UNCHANGED viewerIn

vwrStopRemoteControl ==
  /\ viewer.state = "Sharing" /\ VwrHasSpace
  /\ viewer.rc \in {"Controling", "ReqControling"}
  /\ viewer' = [viewer EXCEPT
       !.rc = "Normal", !.viewOnly = TRUE,
       !.requestQ = VwrRequest("ReqControl", "VncViewer", viewer.room, 0)]
  /\ UNCHANGED viewerIn

vwrAcceptRemoteControl(r) ==
  /\ viewer.rc = "RecvReqControling" /\ VwrHasSpace
  /\ VwrRunning /\ r = viewer.room
  /\ viewer' = [viewer EXCEPT
       !.rc = "Controling", !.viewOnly = FALSE,
       !.requestQ = VwrRequest("ControlRsp", "VncServer", viewer.room, 200)]
  /\ UNCHANGED viewerIn

vwrRejectRemoteControl(r) ==
  /\ viewer.rc = "RecvReqControling" /\ VwrHasSpace
  /\ VwrRunning /\ r = viewer.room
  /\ viewer' = [viewer EXCEPT
       !.rc = "Normal", !.viewOnly = TRUE,
       !.requestQ = VwrRequest("ControlRsp", "VncServer", viewer.room, 603)]
  /\ UNCHANGED viewerIn

-----------------------------------------------------------------------------
(* RecvDataThreadFunc sends the requests and receives. *)
VwrSend(m) ==
  /\ VwrRunning /\ viewer.conn = "up" /\ ~viewer.reconnecting
  /\ viewer.requestQ # << >>
  /\ m = Head(viewer.requestQ)
  /\ viewer' = [viewer EXCEPT !.requestQ = Tail(@)]

VwrDisconnected ==
  /\ VwrRunning /\ viewer.conn = "down" /\ ~viewer.reconnecting
  /\ viewer' = [viewer EXCEPT !.conn = "none", !.reconnecting = TRUE]
  /\ viewerIn' = << >>

VwrReconnected ==
  /\ VwrRunning /\ viewer.reconnecting
  /\ viewer.state \in {"Init", "Sharing"} => Len(viewer.requestQ) <= QueueBound
  /\ viewer' = VwrJoined([viewer EXCEPT !.conn = "up", !.reconnecting = FALSE],
                         viewer.room)
  /\ viewerIn' = << >>

(* HandleVncMsgPacket, case by case *)
VwrOnCreateRoom(m) ==
  /\ m.type = "CreateRoomRsp"
  /\ viewer' =
       IF viewer.state # "RoomCreating" THEN viewer
       ELSE IF m.status = 0 /\ m.room > 0
         THEN [viewer EXCEPT !.room = m.room, !.state = "Sharing"]
         ELSE [viewer EXCEPT !.state = "Init"]

VwrOnRoomClosed(m) ==
  /\ m.type = "RoomClosed"
  /\ viewer' = [viewer EXCEPT !.state = "Init", !.room = 0]

JoinedAnyway(m) ==   \* mutant: only the room of the answer is looked at
  /\ m.type = "JoinRoomRsp"
  /\ viewer' =
       IF viewer.state # "RoomJoining" THEN viewer
       ELSE IF m.room = viewer.room
         THEN [viewer EXCEPT !.state = "Sharing"]
         ELSE [viewer EXCEPT !.state = "Init", !.room = 0]

VwrOnJoinRoom(m) ==
  /\ m.type = "JoinRoomRsp"
  /\ viewer' =
       IF viewer.state # "RoomJoining" THEN viewer
       ELSE IF m.status = 0 /\ m.room = viewer.room
         THEN [viewer EXCEPT !.state = "Sharing"]
         ELSE [viewer EXCEPT !.state = "Init", !.room = 0]

VwrOnQuitRoom(m) ==
  /\ m.type = "QuitRoomRsp"
  /\ viewer' = IF viewer.state # "Quiting" THEN viewer
               ELSE [viewer EXCEPT !.state = "Init", !.room = 0]

(* the observer's ViewerQuitRoom, on this thread *)
VwrOnExitRoom(m) ==
  /\ m.type = "ExitRoom"
  /\ \/ viewer.state = "Sharing" /\ VwrHasSpace
        /\ viewer' = [viewer EXCEPT
             !.state = "Quiting",
             !.requestQ = VwrRequest("QuitRoom", "VncViewer", viewer.room, 0)]
     \/ UNCHANGED viewer

VwrOnReqControl(m) ==
  /\ m.type = "ReqControl"
  /\ viewer' =
       IF m.status = 1 /\ viewer.rc = "Normal"
         THEN [viewer EXCEPT !.rc = "RecvReqControling"]
       ELSE IF m.status = 0 /\ viewer.rc = "RecvReqControling"
         THEN [viewer EXCEPT !.rc = "Normal"]
       ELSE IF m.status = 0 /\ viewer.rc = "Controling"
         THEN [viewer EXCEPT !.rc = "Normal", !.viewOnly = TRUE]
       ELSE viewer

GrantedAnyway(m) ==   \* mutant: a grant is taken whether or not one is awaited
  /\ m.type = "ControlRsp"
  /\ viewer' =
       IF m.status = 200
         THEN [viewer EXCEPT !.rc = "Controling", !.viewOnly = FALSE]
       ELSE IF viewer.rc = "ReqControling" /\ m.status = 603
         THEN [viewer EXCEPT !.rc = "Normal", !.viewOnly = TRUE]
       ELSE viewer

VwrOnControlRsp(m) ==
  /\ m.type = "ControlRsp"
  /\ viewer' =
       IF viewer.rc = "ReqControling" /\ m.status = 200
         THEN [viewer EXCEPT !.rc = "Controling", !.viewOnly = FALSE]
       ELSE IF viewer.rc = "ReqControling" /\ m.status = 603
         THEN [viewer EXCEPT !.rc = "Normal", !.viewOnly = TRUE]
       ELSE viewer

(* EMsgRspType_ReqInitMsg is not among the cases *)
VwrOnReqInitMsg(m) == m.type = "ReqInitMsg" /\ UNCHANGED viewer

VwrHandle ==
  /\ VwrRunning /\ viewer.conn # "none" /\ ~viewer.reconnecting
  /\ viewerIn # << >>
  /\ LET m == Head(viewerIn) IN
       \/ VwrOnCreateRoom(m) \/ VwrOnRoomClosed(m) \/ VwrOnJoinRoom(m)
       \/ VwrOnQuitRoom(m) \/ VwrOnExitRoom(m) \/ VwrOnReqInitMsg(m)
       \/ VwrOnReqControl(m) \/ VwrOnControlRsp(m)
  /\ viewerIn' = Tail(viewerIn)

VwrControlCall ==
  \/ vwrReqRemoteControl \/ vwrStopRemoteControl
  \/ \E r \in RoomIds : vwrAcceptRemoteControl(r) \/ vwrRejectRemoteControl(r)

-----------------------------------------------------------------------------
ViewerFields ==
  [state : ViewerStates, rc : ControlStates, room : RoomIds,
   reconnecting : BOOLEAN, conn : Connections,
   requestQ : Seq(Messages), viewOnly : BOOLEAN,
   asked : 0 .. ViewerAsks]

VwrTypeOK ==
  /\ viewer \in ViewerFields
  /\ Len(viewer.requestQ) <= QueueBound + 1
  /\ viewerIn \in Seq(Messages)

(* The viewer forwards mouse and keyboard exactly while it holds control:   *)
(* every way in and out of Controling moves the AppShare viewer's view-only *)
(* switch with it, across requests, answers, stops and reconnections.       *)
ViewOnlyUnlessControling == viewer.viewOnly <=> viewer.rc # "Controling"
=============================================================================
