---------------------------- MODULE ShareSession -----------------------------
(* The share sessions of two plugins (CATLECSDK): invitations, answers and  *)
(* stops that travel as text messages of the telephony SDK, the endpoints   *)
(* under them, the callbacks these post to the plugin's window, its timers. *)
(* Three threads change one plugin: the UI thread (page, window messages),  *)
(* the SDK's thread (handleVncCmd) and the endpoints' receive threads       *)
(* (ServerQuitRoom, ViewerQuitRoom).  A timer can be set by the thread that *)
(* owns the window only; elsewhere SetTimer fails and nobody looks.         *)
EXTENDS Naturals, Sequences, FiniteSets, SequencesExt

CONSTANTS Requesters,  \* users whose page asks to see the other's desktop
          Rooms,       \* ids the share server hands out
          MaxRequests, \* bound: requests of one page
          MaxBreaks,   \* bound: connections that break
          QueueBound,  \* bound: commands, and requests of an endpoint, that wait
          InboxBound   \* bound: callbacks, and messages for an endpoint, that wait

Users == {"A", "B"}
Peer(u) == IF u = "A" THEN "B" ELSE "A"
Ends == Users \X {"S", "V"}     \* endpoints, as the share server knows them

ASSUME SessionAssumption ==
  /\ Requesters \subseteq Users
  /\ IsFiniteSet(Rooms) /\ Rooms \subseteq Nat \ {0}
  /\ MaxRequests \in Nat /\ MaxBreaks \in Nat /\ {QueueBound, InboxBound} \subseteq Nat \ {0}

VARIABLES
  plugin,   \* per user: the fields of CATLECSDK and of its two endpoints
  inbox,    \* per endpoint: what the share server has sent it
  members,  \* per room: the endpoints in it
  used,     \* rooms handed out
  breaks    \* connections broken so far

vars == <<plugin, inbox, members, used, breaks>>

Note(type, room) == [type |-> type, room |-> room]
End(state, room, queue) == [state |-> state, room |-> room, queue |-> queue]

(* A plugin whose page has called Initialize, which makes both endpoints    *)
(* (before that the SDK neither sends nor hands over any command).          *)
Fresh ==
  [server |-> "Normal", viewer |-> "Normal", \* m_VncServerState, m_VncViewerState
   room   |-> 0,                             \* m_VncRoomID
   timers |-> {},                            \* WM_TIMER_...ShareRoom
   posted |-> << >>,                         \* callbacks posted to the window
   sent   |-> << >>,                         \* commands on the way to the peer
   S |-> End("UnInit", 0, << >>),            \* *m_VncServer
   V |-> End("UnInit", 0, << >>),            \* *m_VncViewer; "NULL": there is none
   asked |-> FALSE,    \* the page has an invitation it has not answered
   told  |-> FALSE,    \* the page was told last that its desktop is shared
   requests |-> 0,     \* of its page
   crashed  |-> FALSE] \* a NULL endpoint was used

Init ==
  /\ plugin = [u \in Users |-> Fresh]
  /\ inbox = [e \in Ends |-> << >>]
  /\ members = [r \in Rooms |-> {}]
  /\ used = {} /\ breaks = 0

-----------------------------------------------------------------------------
(* What handlers do to their plugin p.                                      *)
Send(p, type, room)      == [p EXCEPT !.sent = Append(@, Note(type, room))]
Post(p, type, room)      == [p EXCEPT !.posted = Append(@, Note(type, room))]
Ask(p, role, type, room) == [p EXCEPT ![role].queue = Append(@, Note(type, room))]
SetTimer(p, timers)      == [p EXCEPT !.timers = @ \cup timers]
KillTimer(p, timer)      == [p EXCEPT !.timers = @ \ {timer}]

uninitServer(p) == [p EXCEPT !.S.state = "UnInit", !.S.queue = << >>]
uninitViewer(p) ==
  IF p.V.state = "NULL" THEN [p EXCEPT !.crashed = TRUE]
  ELSE [p EXCEPT !.V.state = "UnInit", !.V.queue = << >>]
deleteViewer(p) == [p EXCEPT !.V = End("NULL", 0, << >>)]

(* Both endpoints' quitShareRoom succeed only while they share; the viewer  *)
(* remembers that it quits, the server does not.                            *)
serverQuit(p) == Ask(p, "S", "QuitRoom", p.S.room)
viewerQuit(p) == [Ask(p, "V", "QuitRoom", p.V.room) EXCEPT !.V.state = "Quiting"]

StopServer(p, timers) ==
  IF p.S.state = "Sharing"
    THEN SetTimer([serverQuit(p) EXCEPT !.server = "Quiting"], timers)
    ELSE [p EXCEPT !.server = "Normal", !.told = FALSE]

StopViewer(p, timers) ==
  CASE p.V.state = "NULL"    -> [p EXCEPT !.crashed = TRUE]
    [] p.V.state = "Sharing" -> SetTimer([viewerQuit(p) EXCEPT !.viewer = "Quiting"], timers)
    [] OTHER                 -> [p EXCEPT !.viewer = "Normal", !.told = FALSE]

(* mutant: the state that EVncViewerState has and nobody expects *)
EndsInQuited(p) ==
  [CASE p.server = "Quiting" -> [uninitServer(p) EXCEPT !.server = "Normal"]
     [] p.server # "Quiting" /\ p.viewer = "Quiting"
                             -> [uninitViewer(p) EXCEPT !.viewer = "Quited"]
     [] OTHER                -> p
   EXCEPT !.room = 0, !.told = FALSE]

(* the end of a quit, answered or timed out: of one of the two roles *)
Ended(p) ==
  [CASE p.server = "Quiting" -> [uninitServer(p) EXCEPT !.server = "Normal"]
     [] p.server # "Quiting" /\ p.viewer = "Quiting"
                             -> [uninitViewer(p) EXCEPT !.viewer = "Normal"]
     [] OTHER                -> p
   EXCEPT !.room = 0, !.told = FALSE]

-----------------------------------------------------------------------------
(* Connections end with their endpoint: the share server takes its end out  *)
(* of the rooms, and may tell who is left there.                            *)
Leave(gone) ==
  LET shared == {r \in Rooms : members[r] \cap gone # {} /\ members[r] \ gone # {}}
      exits(e, rs) == SetToSeq({Note("ExitRoom", r) : r \in {q \in rs : e \in members[q]}})
  IN /\ members' = [r \in Rooms |-> members[r] \ gone]
     /\ \E heard \in SUBSET shared :
          inbox' = [e \in Ends |-> IF e \in gone THEN << >> ELSE inbox[e] \o exits(e, heard)]
     /\ UNCHANGED used

Gone(u, p) == {e \in Ends : e[1] = u /\ p[e[2]].state \in {"UnInit", "NULL"}}

Becomes(u, p) ==
  /\ plugin' = [plugin EXCEPT ![u] = p]
  /\ Leave(Gone(u, p))
  /\ UNCHANGED breaks

HasSpace(u) ==
  Len(plugin[u].sent) < QueueBound /\ \A x \in {"S", "V"} : Len(plugin[u][x].queue) < QueueBound

-----------------------------------------------------------------------------
(* The page, on the UI thread.                                              *)
RequestShareDesktop(u) ==
  LET p == [plugin[u] EXCEPT !.requests = @ + 1]
      create == [p EXCEPT !.viewer = "Reqing",
                          !.V = End("RoomCreating", 0, <<Note("CreateRoom", 0)>>)]
  IN /\ plugin[u].viewer = "Normal" /\ plugin[u].requests < MaxRequests
     /\ \E q \in {SetTimer(create, {"Create"}), deleteViewer(p)} :   \* initViewer may fail
          plugin' = [plugin EXCEPT ![u] = q]
     /\ Leave({<<u, "V">>})
     /\ UNCHANGED breaks

(* initServer may fail, and does when the last session was not ended;       *)
(* joinShareRoom is called all the same.  (m_VncServer is there since       *)
(* Initialize; the code makes one if it is not.)                            *)
AcceptShareDesktop(u) ==
  LET p == [plugin[u] EXCEPT !.asked = FALSE]
      fails == Send(p, "Failed", p.room)
      inits == {fails} \cup IF p.S.state = "UnInit" THEN {[p EXCEPT !.S.state = "Init"]} ELSE {}
      joinShareRoom(q) ==
        IF q.S.state \in {"Init", "Sharing"}
          THEN [Ask(q, "S", "JoinRoom", q.room) EXCEPT !.S.state = "Joining", !.S.room = q.room]
          ELSE q
  IN /\ plugin[u].server = "RecvReqing" /\ plugin[u].room # 0
     /\ plugin[u].asked /\ HasSpace(u)
     /\ \E q \in inits : Becomes(u, SetTimer(joinShareRoom(q), {"Join"}))

mediaTerminalRejectShareDesktop(u) ==
  LET p == [plugin[u] EXCEPT !.asked = FALSE, !.server = "Normal"] IN
  /\ plugin[u].asked /\ HasSpace(u)
  /\ Becomes(u, Send(p, "Rejected", p.room))

StopShareDesktop(u) ==
  LET p == plugin[u]
      s == IF p.server = "Normal" THEN p
           ELSE Send(StopServer(p, {"Quit"}), "Stop", p.room)
      v == IF s.viewer = "Normal" THEN s
           ELSE Send(StopViewer(s, {"Quit"}), "Stop", s.room)
  IN p.room # 0 /\ HasSpace(u) /\ Becomes(u, v)

(* WM_TIMER comes when no other message waits.                              *)
JoinTimer(p) ==
  KillTimer([Send(uninitServer(p), "Failed", p.room)
               EXCEPT !.server = "Normal", !.room = 0, !.told = FALSE], "Join")
(* mutant: the endpoint goes on *)
QuitTimerForgetsEndpoint(p) ==
  KillTimer([p EXCEPT !.server = "Normal", !.viewer = "Normal", !.room = 0,
                      !.told = FALSE], "Quit")
QuitTimer(p) == KillTimer(Ended(p), "Quit")
CreateTimer(p) ==
  KillTimer([deleteViewer(p) EXCEPT !.viewer = "Normal", !.room = 0], "Create")

(* mutant: a timer overtakes callbacks *)
TimerOvertakes(u) ==
  LET p == plugin[u] IN
  \/ "Join" \in p.timers /\ Becomes(u, JoinTimer(p))
  \/ "Quit" \in p.timers /\ Becomes(u, QuitTimer(p))
  \/ "Create" \in p.timers /\ Becomes(u, CreateTimer(p))

OnTimer(u) ==
  LET p == plugin[u] IN
  /\ p.posted = << >>
  /\ \/ "Join" \in p.timers /\ Becomes(u, JoinTimer(p))
     \/ "Quit" \in p.timers /\ Becomes(u, QuitTimer(p))
     \/ "Create" \in p.timers /\ Becomes(u, CreateTimer(p))

(* mutants: a join that was stopped meanwhile is passed over; the timer runs on *)
JoinedIfAsked(p) ==
  IF p.server # "RecvReqing" THEN KillTimer(p, "Join")
  ELSE Send(KillTimer([p EXCEPT !.server = "Sharing", !.told = TRUE], "Join"), "Accepted", p.room)
JoinedTimerRuns(p) == Send([p EXCEPT !.server = "Sharing", !.told = TRUE], "Accepted", p.room)
(* the JoinRoom callback, whatever status it brings; the window to share,   *)
(* which it tells the sharer's endpoint, is left out                        *)
OnJoined(p) ==
  Send(KillTimer([p EXCEPT !.server = "Sharing", !.told = TRUE], "Join"), "Accepted", p.room)

onVncViewerCallBack(u) ==
  LET p == [plugin[u] EXCEPT !.posted = Tail(@)]
      msg == Head(plugin[u].posted)
  IN /\ plugin[u].posted # << >>
     /\ Becomes(u,
          CASE msg.type = "CreateRoom" /\ msg.room = 0 ->
                 [uninitViewer(p) EXCEPT !.viewer = "Normal", !.room = 0]
            [] msg.type = "CreateRoom" /\ msg.room # 0 ->
                 Send(KillTimer([p EXCEPT !.room = msg.room], "Create"), "Request", msg.room)
            [] msg.type = "RoomClosed" ->
                 [uninitServer(p) EXCEPT !.server = "Normal", !.room = 0, !.told = FALSE]
            [] msg.type = "JoinRoom" -> OnJoined(p)
            [] msg.type = "QuitRoom" -> KillTimer(Ended(p), "Quit"))

-----------------------------------------------------------------------------
(* handleVncCmd, on the SDK's thread.  A stop is handled in one role; the   *)
(* event for a withdrawn invitation is chosen by the viewer's state.        *)
OnStop(p) ==
  LET q == CASE p.server = "Sharing" ->
                  IF p.S.state = "Sharing" THEN [serverQuit(p) EXCEPT !.server = "Quiting"] ELSE p
             [] p.server # "Sharing" /\ p.viewer = "Sharing" ->
                  (CASE p.V.state = "NULL"    -> [p EXCEPT !.crashed = TRUE]
                     [] p.V.state = "Sharing" -> [viewerQuit(p) EXCEPT !.viewer = "Quiting"]
                     [] OTHER                 -> p)
             [] OTHER -> p
  IN [q EXCEPT !.room = 0, !.told = (q.viewer = "Reqing" /\ @)]

handleVncCmd(u) ==
  LET p == plugin[u]
      cmd == Head(plugin[Peer(u)].sent)
      q == CASE cmd.type = "Stop"     -> OnStop(p)
             [] cmd.type = "Request"  -> [p EXCEPT !.room = cmd.room, !.server = "RecvReqing",
                                                   !.asked = TRUE]
             [] cmd.type = "Accepted" -> [p EXCEPT !.viewer = "Sharing"]
             [] cmd.type = "Rejected" -> [deleteViewer(p) EXCEPT !.viewer = "Normal", !.room = 0]
             [] cmd.type = "Failed"   -> p
  IN /\ plugin[Peer(u)].sent # << >>
     /\ plugin' = [plugin EXCEPT ![u] = q, ![Peer(u)].sent = Tail(@)]
     /\ Leave(Gone(u, q))
     /\ UNCHANGED breaks

-----------------------------------------------------------------------------
(* HandleVncMsgPacket of the endpoints, on their receive threads.  ExitRoom *)
(* calls the plugin at once (ServerQuitRoom, ViewerQuitRoom).               *)
ServerHandles(u) ==
  LET p == plugin[u]
      m == Head(inbox[<<u, "S">>])
      post(state, room, type) == Post([p EXCEPT !.S.state = state, !.S.room = room], type, p.S.room)
  IN /\ inbox[<<u, "S">>] # << >> /\ Len(p.posted) < InboxBound /\ HasSpace(u)
     /\ inbox' = [inbox EXCEPT ![<<u, "S">>] = Tail(@)]
     /\ plugin' = [plugin EXCEPT ![u] =
          CASE m.type = "Joined"     -> IF p.S.state = "Sharing" THEN p
                                        ELSE post("Sharing", p.S.room, "JoinRoom")
            [] m.type = "JoinFailed" -> post("Init", p.S.room, "JoinRoom")
            [] m.type = "Quit"       -> post("Init", 0, "QuitRoom")
            [] m.type = "RoomClosed" -> post("Init", 0, "RoomClosed")
            [] m.type = "ExitRoom"   -> IF p.S.room = 0 \/ p.server = "Normal" THEN p
                                        ELSE StopServer(p, {})]
     /\ UNCHANGED <<members, used, breaks>>

ViewerHandles(u) ==
  LET p == plugin[u]
      m == Head(inbox[<<u, "V">>])
      post(state, room, type, told) ==
        Post([p EXCEPT !.V.state = state, !.V.room = room], type, told)
      when(state, q) == IF p.V.state = state THEN q ELSE p
  IN /\ inbox[<<u, "V">>] # << >> /\ Len(p.posted) < InboxBound /\ HasSpace(u)
     /\ inbox' = [inbox EXCEPT ![<<u, "V">>] = Tail(@)]
     /\ plugin' = [plugin EXCEPT ![u] =
          CASE m.type = "Created"    -> when("RoomCreating",
                 IF m.room = 0 THEN post("Init", p.V.room, "CreateRoom", 0)
                 ELSE post("Sharing", m.room, "CreateRoom", m.room))
            [] m.type = "Joined"     -> when("Joining", post("Sharing", p.V.room, "JoinRoom", p.V.room))
            [] m.type = "JoinFailed" -> when("Joining", post("Init", 0, "JoinRoom", p.V.room))
            [] m.type = "Quit"       -> when("Quiting", post("Init", 0, "QuitRoom", p.V.room))
            [] m.type = "RoomClosed" -> post("Init", 0, "RoomClosed", p.V.room)
            [] m.type = "ExitRoom"   -> IF p.V.room = 0 \/ p.viewer = "Normal" THEN p
                                        ELSE StopViewer(p, {})]
     /\ UNCHANGED <<members, used, breaks>>

(* A connection has broken and is made anew: messages are lost, and the     *)
(* room is joined again if the endpoint is idle or shares.  A viewer that   *)
(* shares goes on sharing and does not wait for the answer.                 *)
Reconnects(e) ==
  LET end == plugin[e[1]][e[2]]
      joins == end.state \in {"Init", "Sharing"}
      join == IF joins THEN <<Note("JoinRoom", end.room)>> ELSE << >>
      waits == joins /\ (e[2] = "S" \/ end.state = "Init")
  IN /\ breaks < MaxBreaks /\ end.state \notin {"UnInit", "NULL"}
     /\ breaks' = breaks + 1
     /\ \E left \in {<< >>, end.queue} :
          plugin' = [plugin EXCEPT ![e[1]][e[2]] =
            End(IF waits THEN "Joining" ELSE end.state, end.room, left \o join)]
     /\ Leave({e})

-----------------------------------------------------------------------------
(* The share server (external) answers an endpoint's next request, and      *)
(* tells who is left in a room that one quits; it may close a room.         *)
Delivered(notes) ==
  inbox' = [e \in Ends |-> IF e \in DOMAIN notes THEN Append(inbox[e], notes[e]) ELSE inbox[e]]

CreatesRoom(e) ==
  \/ \E r \in Rooms \ used :
       /\ used' = used \cup {r} /\ members' = [members EXCEPT ![r] = {e}]
       /\ Delivered([x \in {e} |-> Note("Created", r)])
  \/ Delivered([x \in {e} |-> Note("Created", 0)]) /\ UNCHANGED <<used, members>>

JoinsRoom(e, r) ==
  LET open == r \in Rooms /\ members[r] # {} IN
  /\ members' = IF open THEN [members EXCEPT ![r] = @ \cup {e}] ELSE members
  /\ Delivered([x \in {e} |-> Note(IF open THEN "Joined" ELSE "JoinFailed", r)])
  /\ UNCHANGED used

QuitsRoom(e, r) ==
  LET left == IF r \in Rooms /\ e \in members[r] THEN members[r] \ {e} ELSE {} IN
  /\ members' = [q \in Rooms |-> IF q = r THEN members[q] \ {e} ELSE members[q]]
  /\ Delivered([x \in left \cup {e} |-> Note(IF x = e THEN "Quit" ELSE "ExitRoom", r)])
  /\ UNCHANGED used

InboxesHaveSpace == \A e \in Ends : Len(inbox[e]) < InboxBound

ShareServer(e) ==
  LET queue == plugin[e[1]][e[2]].queue
      m == Head(queue)
  IN /\ queue # << >> /\ InboxesHaveSpace
     /\ plugin' = [plugin EXCEPT ![e[1]][e[2]].queue = Tail(@)]
     /\ \/ m.type = "CreateRoom" /\ CreatesRoom(e)
        \/ m.type = "JoinRoom" /\ JoinsRoom(e, m.room)
        \/ m.type = "QuitRoom" /\ QuitsRoom(e, m.room)
     /\ UNCHANGED breaks

RoomCloses ==
  /\ InboxesHaveSpace
  /\ \E r \in Rooms :
       /\ members[r] # {}
       /\ members' = [members EXCEPT ![r] = {}]
       /\ Delivered([x \in members[r] |-> Note("RoomClosed", r)])
  /\ UNCHANGED <<plugin, used, breaks>>

-----------------------------------------------------------------------------
Crashed == \E u \in Users : plugin[u].crashed

PageCalls(u) ==
  \/ u \in Requesters /\ RequestShareDesktop(u)
  \/ AcceptShareDesktop(u) \/ mediaTerminalRejectShareDesktop(u) \/ StopShareDesktop(u)

Window(u) == OnTimer(u) \/ onVncViewerCallBack(u)

Next ==
  /\ ~Crashed
  /\ \/ \E u \in Users : \/ PageCalls(u) \/ Window(u) \/ handleVncCmd(u)
                         \/ ServerHandles(u) \/ ViewerHandles(u)
     \/ \E e \in Ends : ShareServer(e) \/ Reconnects(e)
     \/ RoomCloses

Spec == Init /\ [][Next]_vars

(* Of all this only the window procedures are relied on: no answer, no      *)
(* command has to come.                                                     *)
FairSpec == Spec /\ \A u \in Users : WF_vars(~Crashed /\ Window(u))

-----------------------------------------------------------------------------
Notes(types) == [type : types, room : Rooms \cup {0}]
Commands  == Notes({"Request", "Stop", "Accepted", "Rejected", "Failed"})
Callbacks == Notes({"CreateRoom", "JoinRoom", "QuitRoom", "RoomClosed"})
Requests  == Notes({"CreateRoom", "JoinRoom", "QuitRoom"})
Answers   == Notes({"Created", "Joined", "JoinFailed", "Quit", "ExitRoom", "RoomClosed"})

TypeOK ==
  /\ \A u \in Users : LET p == plugin[u] IN
       /\ p.server \in {"Normal", "RecvReqing", "Sharing", "Quiting"}
       /\ p.viewer \in {"Normal", "Reqing", "Sharing", "Quiting"}
       /\ p.room \in Rooms \cup {0} /\ p.timers \subseteq {"Join", "Quit", "Create"}
       /\ p.posted \in Seq(Callbacks) /\ p.sent \in Seq(Commands)
       /\ p.S.state \in {"UnInit", "Init", "Joining", "Sharing"}
       /\ p.V.state \in {"NULL", "UnInit", "Init", "RoomCreating", "Joining", "Sharing", "Quiting"}
       /\ \A x \in {"S", "V"} : p[x].room \in Rooms \cup {0} /\ p[x].queue \in Seq(Requests)
       /\ {p.asked, p.told, p.crashed} \subseteq BOOLEAN /\ p.requests \in 0 .. MaxRequests
  /\ inbox \in [Ends -> Seq(Answers)] /\ members \in [Rooms -> SUBSET Ends]
  /\ used \subseteq Rooms /\ breaks \in 0 .. MaxBreaks

AtRest ==
  /\ \A u \in Users : LET p == plugin[u] IN
       /\ p.posted = << >> /\ p.sent = << >> /\ p.timers = {}
       /\ p.S.queue = << >> /\ p.V.queue = << >>
  /\ \A e \in Ends : inbox[e] = << >>

(* However an invitation, its answer, both sides' stops, callbacks, timers, *)
(* a closed room and a reconnection cross: when nothing is under way, a     *)
(* desktop that is still shared counts as shared in the plugin, and (unless *)
(* a connection broke) its page was told so last.                           *)
SharedIsKnown ==
  AtRest => \A u \in Users :
    plugin[u].S.state = "Sharing" =>
      plugin[u].server = "Sharing" /\ (breaks = 0 => plugin[u].told)

(* OnTimer, handleVncCmd and RequestShareDesktop delete m_VncViewer while   *)
(* callbacks, stops and timers of its session are still under way; none of  *)
(* these uses the NULL pointer, as long as the page asks once.              *)
NeverNull == ~Crashed

(* The timer of a join does not end a share that has begun, although the    *)
(* answer may come as late as it likes and the handler does not look at the *)
(* session's state: it is killed by the callback it would have to overtake. *)
NoTimerEndsShare ==
  \A u \in Users :
    plugin[u].S.state = "Sharing" /\ "Join" \in plugin[u].timers => plugin[u].posted # << >>

(* A stop of the page ends the capture even if the share server never       *)
(* answers: the timer does it (OnTimer).  The page has been told of the     *)
(* share before: one that is faster than the callback, or a rejoin, has its *)
(* stop undone by the JoinRoom callback (line 3181).                        *)
StopsEnd ==
  \A u \in Users :
    (plugin[u].server = "Quiting" /\ "Quit" \in plugin[u].timers /\ plugin[u].told
       /\ breaks = 0)
      ~> (plugin[u].S.state # "Sharing" \/ breaks > 0)

(* ATLECSDK.htm:130 gives the sharer's page a button that stops the sharing *)
(* and calls StopShareDesktop: when nothing is under way and the desktop is *)
(* shared, pressing it must do something, which takes a room (line 2943).   *)
ShareCanBeStopped ==
  AtRest => \A u \in Users : plugin[u].S.state = "Sharing" => plugin[u].room # 0
=============================================================================
