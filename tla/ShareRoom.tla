----------------------------- MODULE ShareRoom ------------------------------
(* A sharer and a viewer that meet in rooms of the share server.            *)
(*                                                                          *)
(* The share server is not in the repository: Relay is what the two         *)
(* endpoints expect of it (external).  The plugin calls the endpoints as    *)
(* ATLECSDK does: init and create, or init and join, in one UI handler;     *)
(* quit while sharing; uninit after an answer, a timeout or OnDestroy, that *)
(* is at any time.  The plugin's own session states are left out, so more   *)
(* calls happen here than it makes.                                         *)
EXTENDS VncServer, VncViewer, FiniteSets

CONSTANTS MaxBreaks,   \* bound: connections that break
          InboxBound   \* bound: messages waiting in one connection

ASSUME ShareRoomAssumption == MaxBreaks \in Nat /\ InboxBound \in Nat \ {0}

VARIABLES
  relay,     \* open rooms, their members, rooms already handed out
  accepting, \* the room of the share request accepted last, or 0
  joining,   \* AcceptShareDesktop has not called joinShareRoom yet
  accepted,  \* rooms whose share request was accepted: one request, one accept
  requesting,\* RequestShareDesktop is about to create a room
  breaks     \* connections broken so far

vars == <<server, serverIn, viewer, viewerIn, relay, accepting, joining,
          accepted, requesting, breaks>>
ui   == <<accepting, joining, accepted, requesting>>

Members == {"S", "V"}
Peer(x) == IF x = "S" THEN "V" ELSE "S"
Inbox(x) == IF x = "S" THEN serverIn ELSE viewerIn
Conn(x)  == IF x = "S" THEN server.conn ELSE viewer.conn

FromRelay(type, room, status) == Msg(type, "Server", room, status)

Init ==
  /\ SrvInit /\ VwrInit
  /\ relay = [members |-> [r \in Rooms |-> {}], used |-> {}]
  /\ accepting = 0 /\ joining = FALSE /\ accepted = {} /\ requesting = FALSE
  /\ breaks = 0

Open(r) == r \in Rooms /\ relay.members[r] # {}

-----------------------------------------------------------------------------
(* The share server's reactions to message m of member x: what becomes of   *)
(* the rooms, what x is sent and what the other member is sent.             *)
Reaction(rel, self, peer) == [relay |-> rel, self |-> self, peer |-> peer]

Leave(x, r) == [relay EXCEPT !.members[r] = @ \ {x}]

OnCreateRoom(x) ==
  {Reaction([relay EXCEPT !.members[r] = {x}, !.used = @ \cup {r}],
            <<FromRelay("CreateRoomRsp", r, 0)>>, << >>) : r \in Rooms \ relay.used}
  \cup {Reaction(relay, <<FromRelay("CreateRoomRsp", 0, Failed)>>, << >>)}

(* ReqInitMsg asks the sharer for a first picture once both are there *)
OnJoinRoom(x, r) ==
  IF ~Open(r)
    THEN {Reaction(relay, <<FromRelay("JoinRoomRsp", r, Failed)>>, << >>)}
    ELSE LET rel == [relay EXCEPT !.members[r] = @ \cup {x}]
             both == rel.members[r] = Members
             ask == <<FromRelay("ReqInitMsg", r, 0)>>
         IN {Reaction(rel,
               <<FromRelay("JoinRoomRsp", r, 0)>> \o IF both /\ x = "S" THEN ask ELSE << >>,
               IF both /\ x = "V" THEN ask ELSE << >>)}

OnQuitRoom(x, r) ==
  IF ~Open(r) \/ x \notin relay.members[r]
    THEN {Reaction(relay, <<FromRelay("QuitRoomRsp", r, Failed)>>, << >>)}
    ELSE LET ok == <<FromRelay("QuitRoomRsp", r, 0)>> IN
         IF Peer(x) \notin relay.members[r]
           THEN {Reaction(Leave(x, r), ok, << >>)}
           ELSE {Reaction(Leave(x, r), ok, <<FromRelay("ExitRoom", r, 0)>>),
                 Reaction([relay EXCEPT !.members[r] = {}], ok,
                          <<FromRelay("RoomClosed", r, 0)>>)}

Forward(x, m) ==
  IF Open(m.room) /\ relay.members[m.room] = Members
    THEN {Reaction(relay, << >>, <<m>>)}
    ELSE {Reaction(relay, << >>, << >>)}

Reactions(x, m) ==
  CASE m.type = "CreateRoom" -> OnCreateRoom(x)
    [] m.type = "JoinRoom"   -> OnJoinRoom(x, m.room)
    [] m.type = "QuitRoom"   -> OnQuitRoom(x, m.room)
    [] OTHER                 -> Forward(x, m)

(* what reaches x over its connection *)
Delivered(x, s) ==
  IF Conn(x) = "up" THEN Inbox(x) \o s ELSE Inbox(x)

(* Room x is a member of, and its leaving when its connection is seen to    *)
(* be gone: the other member may be told                                    *)
RoomsOf(x) == {r \in Rooms : x \in relay.members[r]}
Forgotten(x) == [relay EXCEPT !.members = [r \in Rooms |-> @[r] \ {x}]]
Notices(x) ==
  {<< >>} \cup {<<FromRelay("ExitRoom", r, 0)>> :
                  r \in {q \in RoomsOf(x) : Peer(x) \in relay.members[q]}}

-----------------------------------------------------------------------------
(* AcceptShareDesktop: initServer, and joinShareRoom(m_VncRoomID) whether   *)
(* or not that succeeded.  A new connection ends what the share server has  *)
(* of the old one.                                                          *)
AcceptInit ==
  /\ ~joining /\ joining' = TRUE
  /\ \E r \in relay.used \ accepted :
       accepting' = r /\ accepted' = accepted \cup {r}
  /\ \/ /\ initServer
        /\ \E n \in Notices("S") : viewerIn' = Delivered("V", n)
        /\ relay' = Forgotten("S")
     \/ SrvRunning /\ UNCHANGED <<server, serverIn, viewerIn, relay>>
  /\ UNCHANGED <<viewer, requesting, breaks>>

AcceptJoin ==
  /\ joining /\ joining' = FALSE
  /\ \/ joinShareRoom(accepting)
     \/ server.state \notin {"Init", "Sharing"} /\ UNCHANGED <<server, serverIn>>
  /\ UNCHANGED <<viewer, viewerIn, relay, accepting, accepted, requesting, breaks>>

(* RequestShareDesktop: initViewer, then createShareRoom *)
RequestInit ==
  /\ ~requesting
  /\ requesting' = TRUE
  /\ initViewer
  /\ \E n \in Notices("V") : serverIn' = Delivered("S", n)
  /\ relay' = Forgotten("V")
  /\ UNCHANGED <<server, accepting, joining, accepted, breaks>>

RequestCreate ==
  /\ requesting
  /\ \/ vwrCreateShareRoom
     \/ viewer.state # "Init" /\ UNCHANGED <<viewer, viewerIn>>
  /\ requesting' = FALSE
  /\ UNCHANGED <<server, serverIn, relay, accepting, joining, accepted, breaks>>

ServerQuits ==
  /\ quitShareRoom
  /\ UNCHANGED <<viewer, viewerIn, relay, ui, breaks>>
ViewerQuits ==
  /\ vwrQuitShareRoom
  /\ UNCHANGED <<server, serverIn, relay, ui, breaks>>

ServerUninit ==
  /\ ~joining /\ uninitServer
  /\ UNCHANGED <<viewer, viewerIn, relay, ui, breaks>>
ViewerUninit ==
  /\ ~requesting /\ uninitViewer
  /\ UNCHANGED <<server, serverIn, relay, ui, breaks>>

ServerControl ==
  SrvControlCall /\ UNCHANGED <<viewer, viewerIn, relay, ui, breaks>>
ViewerControl ==
  VwrControlCall /\ UNCHANGED <<server, serverIn, relay, ui, breaks>>

-----------------------------------------------------------------------------
InboxesHaveSpace ==
  Len(serverIn) + 2 <= InboxBound /\ Len(viewerIn) + 2 <= InboxBound

ServerSends ==
  /\ InboxesHaveSpace
  /\ \E m \in {server.requestQ[i] : i \in {1} \cap DOMAIN server.requestQ} :
       /\ SrvSend(m)
       /\ \E re \in Reactions("S", m) :
            /\ relay' = re.relay
            /\ serverIn' = Delivered("S", re.self)
            /\ viewerIn' = Delivered("V", re.peer)
  /\ UNCHANGED <<viewer, ui, breaks>>

ViewerSends ==
  /\ InboxesHaveSpace
  /\ \E m \in {viewer.requestQ[i] : i \in {1} \cap DOMAIN viewer.requestQ} :
       /\ VwrSend(m)
       /\ \E re \in Reactions("V", m) :
            /\ relay' = re.relay
            /\ viewerIn' = Delivered("V", re.self)
            /\ serverIn' = Delivered("S", re.peer)
  /\ UNCHANGED <<server, ui, breaks>>

ServerHandles ==
  SrvHandle /\ UNCHANGED <<viewer, viewerIn, relay, ui, breaks>>
ViewerHandles ==
  VwrHandle /\ UNCHANGED <<server, serverIn, relay, ui, breaks>>

(* A connection breaks: of the requests already sent some never arrived, of *)
(* the answers on their way none will.                                      *)
ServerBreaks ==
  /\ breaks < MaxBreaks /\ server.conn = "up"
  /\ breaks' = breaks + 1
  /\ \E lost \in 0 .. Len(server.requestQ) :
       server' = [server EXCEPT !.conn = "down",
                    !.requestQ = SubSeq(@, lost + 1, Len(@))]
  /\ serverIn' = << >>
  /\ UNCHANGED <<viewer, viewerIn, relay, ui>>

ViewerBreaks ==
  /\ breaks < MaxBreaks /\ viewer.conn = "up"
  /\ breaks' = breaks + 1
  /\ \E lost \in 0 .. Len(viewer.requestQ) :
       viewer' = [viewer EXCEPT !.conn = "down",
                    !.requestQ = SubSeq(@, lost + 1, Len(@))]
  /\ viewerIn' = << >>
  /\ UNCHANGED <<server, serverIn, relay, ui>>

ServerDetects ==
  SrvDisconnected /\ UNCHANGED <<viewer, viewerIn, relay, ui, breaks>>
ViewerDetects ==
  VwrDisconnected /\ UNCHANGED <<server, serverIn, relay, ui, breaks>>

ServerReconnects ==
  /\ SrvReconnected
  /\ \E n \in Notices("S") : viewerIn' = Delivered("V", n)
  /\ relay' = Forgotten("S")
  /\ UNCHANGED <<viewer, ui, breaks>>

ViewerReconnects ==
  /\ VwrReconnected
  /\ \E n \in Notices("V") : serverIn' = Delivered("S", n)
  /\ relay' = Forgotten("V")
  /\ UNCHANGED <<server, ui, breaks>>

(* the share server notices a connection that is gone, or ends a room *)
RelayDrops ==
  /\ InboxesHaveSpace
  /\ \E x \in Members :
       /\ Conn(x) # "up" /\ RoomsOf(x) # {}
       /\ relay' = Forgotten(x)
       /\ \E n \in Notices(x) :
            IF x = "S" THEN viewerIn' = Delivered("V", n) /\ UNCHANGED serverIn
                       ELSE serverIn' = Delivered("S", n) /\ UNCHANGED viewerIn
  /\ UNCHANGED <<server, viewer, ui, breaks>>

RelayCloses ==
  /\ InboxesHaveSpace
  /\ \E r \in Rooms :
       LET told(x) == IF x \in relay.members[r]
                        THEN <<FromRelay("RoomClosed", r, 0)>> ELSE << >>
       IN /\ Open(r)
          /\ relay' = [relay EXCEPT !.members[r] = {}]
          /\ serverIn' = Delivered("S", told("S"))
          /\ viewerIn' = Delivered("V", told("V"))
  /\ UNCHANGED <<server, viewer, ui, breaks>>

Calls ==
  \/ AcceptInit \/ AcceptJoin \/ RequestInit \/ RequestCreate
  \/ ServerQuits \/ ViewerQuits \/ ServerUninit \/ ViewerUninit
  \/ ServerControl \/ ViewerControl

Threads ==
  \/ ServerSends \/ ViewerSends \/ ServerHandles \/ ViewerHandles
  \/ ServerDetects \/ ViewerDetects \/ ServerReconnects \/ ViewerReconnects

Network == ServerBreaks \/ ViewerBreaks \/ RelayDrops \/ RelayCloses

Next == Calls \/ Threads \/ Network

Spec == Init /\ [][Next]_vars

(* The threads of both sides run; a connected connection takes requests and *)
(* delivers answers in the end; a reconnection succeeds in the end; and a   *)
(* UI handler that began is finished.                                       *)
FairSpec ==
  /\ Spec
  /\ WF_vars(ServerSends) /\ WF_vars(ViewerSends)
  /\ WF_vars(ServerHandles) /\ WF_vars(ViewerHandles)
  /\ WF_vars(ServerDetects) /\ WF_vars(ViewerDetects)
  /\ WF_vars(ServerReconnects) /\ WF_vars(ViewerReconnects)
  /\ WF_vars(AcceptJoin) /\ WF_vars(RequestCreate)

-----------------------------------------------------------------------------
TypeOK ==
  /\ SrvTypeOK /\ VwrTypeOK
  /\ relay.members \in [Rooms -> SUBSET Members] /\ relay.used \subseteq Rooms
  /\ accepting \in Rooms \cup {0} /\ accepted \subseteq relay.used
  /\ joining \in BOOLEAN /\ requesting \in BOOLEAN
  /\ breaks \in 0 .. MaxBreaks

AtRest ==
  /\ server.requestQ = << >> /\ viewer.requestQ = << >>
  /\ serverIn = << >> /\ viewerIn = << >>

(* A viewer that counts as sharing is in a room the share server handed     *)
(* out, whatever was refused, closed or left before.                        *)
ViewerSharesRealRoom ==
  viewer.state \in {"Sharing", "Quiting"} => viewer.room \in Rooms

(* When nothing is under way and no connection broke, an endpoint that      *)
(* counts as sharing is a member of a room at the share server, the viewer  *)
(* of the very room it believes in: quits, closed rooms, refused joins and  *)
(* the other side's leaving, in any order, never leave a ghost.             *)
SharingMeansMember ==
  breaks = 0 /\ AtRest =>
    /\ server.state = "Sharing" => RoomsOf("S") # {}
    /\ viewer.state = "Sharing" => viewer.room \in RoomsOf("V")

(* A join that was sent is answered and the answer is acted on, and so is a *)
(* viewer's create or quit; no endpoint waits for ever.  This is with       *)
(* connections that hold; the plugin's 5 s timers are for those that break. *)
WaitsEnd ==
  /\ (server.state = "Joining" /\ breaks = 0)
       ~> (server.state # "Joining" \/ breaks > 0)
  /\ (viewer.state \in {"RoomCreating", "Quiting"} /\ breaks = 0)
       ~> (viewer.state \notin {"RoomCreating", "Quiting"} \/ breaks > 0)

(* In the room of the share request it accepted last, a sharer's desktop is *)
(* driven by the viewer only while its endpoint knows it, over rejoins and  *)
(* sessions one after the other.                                            *)
RoomControlIsConsented ==
  /\ server.state = "Sharing" /\ viewer.state = "Sharing"
  /\ server.room = viewer.room /\ server.room = accepting
  /\ ~viewer.viewOnly /\ server.input # "disabled"
  => server.rc \in {"Controling", "ReqControling"}

(* CCPVncServer.cpp:142 and the plugin, which sets no timer for it, rely on *)
(* a reconnection to repair a session: a sharer that loses its connection   *)
(* while sharing does not end up waiting for a join that nobody answers.    *)
SharerRejoins ==
  (server.state = "Sharing" /\ server.reconnecting)
    ~> (server.state = "UnInit" \/ (server.state # "Joining" /\ ~server.reconnecting))
=============================================================================
