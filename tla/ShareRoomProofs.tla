--------------------------- MODULE ShareRoomProofs ----------------------------
(* Rooms, broken connections and consecutive sessions, for every number of  *)
(* rooms, of broken connections, of requests for control and of messages    *)
(* that wait.                                                               *)
EXTENDS ShareRoom, VncEndpointProofs

-----------------------------------------------------------------------------
(* The share server *)

Relays == [members : [Rooms -> SUBSET Members], used : SUBSET Rooms]

(* What becomes of the rooms when x leaves one, or all. *)
LEMMA LeaveFacts ==
  ASSUME relay \in Relays, NEW x \in Members, NEW r \in Rooms
  PROVE  /\ Leave(x, r) \in Relays /\ Leave(x, r).used = relay.used
         /\ \A q \in Rooms : Leave(x, r).members[q] =
                               IF q = r THEN relay.members[q] \ {x} ELSE relay.members[q]
BY DEF Leave, Relays

LEMMA ForgottenFacts ==
  ASSUME relay \in Relays, NEW x \in Members
  PROVE  /\ Forgotten(x) \in Relays /\ Forgotten(x).used = relay.used
         /\ \A q \in Rooms : Forgotten(x).members[q] = relay.members[q] \ {x}
BY DEF Forgotten, Relays

LEMMA ClosedFacts ==
  ASSUME relay \in Relays, NEW r \in Rooms, NEW s \in SUBSET Members
  PROVE  /\ [relay EXCEPT !.members[r] = s] \in Relays
         /\ [relay EXCEPT !.members[r] = s].used = relay.used
         /\ \A q \in Rooms : [relay EXCEPT !.members[r] = s].members[q] =
                               IF q = r THEN s ELSE relay.members[q]
BY DEF Relays

-----------------------------------------------------------------------------
(* The inductive invariant: what each queue may hold.  It speaks of the     *)
(* queues as sequences over sets of messages.                               *)

(* What an endpoint asks of the share server. *)
RequestTypes == {"CreateRoom", "JoinRoom", "QuitRoom", "ReqControl", "ControlRsp"}

(* What may give the viewer control: the sharer's request, which the viewer *)
(* can accept, and the sharer's acceptance.                                 *)
Granting(m) ==
  \/ m.type = "ReqControl" /\ m.status = 1
  \/ m.type = "ControlRsp" /\ m.status = 200
Ungranting == {m \in Messages : ~Granting(m)}

(* The rooms the sharer has asked to join in this run or an earlier one. *)
RoomsJoined == accepted \ (IF joining THEN {accepting} ELSE {})

SharerRequests ==
  {m \in Messages : m.type \in RequestTypes /\ m.room \in RoomsJoined \cup {-1, 0}}

(* c is the room the viewer has created, 0 while it has none. *)
ViewerRequests(c) ==
  {m \in Messages : /\ m.type \in RequestTypes
                    /\ m.type = "JoinRoom" => m.room \in {c, 0, -1}}
NotCreating == {m \in Messages : m.type # "CreateRoom"}
Answers(c) ==
  {m \in Messages :
     m.status = 0 => /\ m.type = "JoinRoomRsp" => m.room \in Rooms
                     /\ m.type = "CreateRoomRsp" => m.room = c /\ c \in Rooms}

OneCreate(q) ==
  \A i, j \in 1 .. Len(q) :
    q[i].type = "CreateRoom" /\ q[j].type = "CreateRoom" => i = j

(* What the share server notes of its rooms. *)
Handed == \A r \in Rooms : relay.members[r] # {} => r \in relay.used

(* The sharer: it names rooms of the requests it accepted, and what grants  *)
(* control leaves it only with a decision about its input.                  *)
SharerInv ==
  /\ server.requestQ \in Seq(SharerRequests)
  /\ server.room \in RoomsJoined \cup {-1, 0}
  /\ joining => accepting \in accepted
  /\ server.input = "default" /\ server.rc # "ReqControling"
       => server.requestQ \in Seq(Ungranting)

Untouched == viewer.rc \in {"Normal", "ReqControling"} /\ viewerIn \in Seq(Ungranting)

(* The viewer has one room per endpoint it makes; until the sharer has      *)
(* asked to join it, and in the sharer's last session until the sharer has  *)
(* decided about control, nothing has given the viewer control.             *)
Session(c) ==
  /\ \A r \in Rooms : "V" \in relay.members[r] => r = c
  /\ viewer.room \in {c, 0, -1}
  /\ viewerIn \in Seq(Answers(c))
  /\ viewer.requestQ \in Seq(ViewerRequests(c))
  /\ c # 0 \/ requesting => viewer.requestQ \in Seq(NotCreating)
  /\ requesting => c = 0
  /\ c \notin RoomsJoined => Untouched
  /\ /\ c = server.room /\ c = accepting /\ server.state # "UnInit"
     /\ server.input = "default" /\ server.rc # "ReqControling"
     => Untouched

Typed ==
  /\ SrvInv /\ VwrInv /\ relay \in Relays /\ Handed
  /\ accepting \in Rooms \cup {0} /\ accepted \subseteq relay.used
  /\ joining \in BOOLEAN /\ requesting \in BOOLEAN
  /\ breaks \in 0 .. MaxBreaks

RoomInv ==
  /\ Typed /\ SharerInv /\ ViewerSharesRealRoom
  /\ OneCreate(viewer.requestQ)
  /\ \E c \in Rooms \cup {0} : Session(c)

(* While no connection broke: the deciding message that waits last, or the  *)
(* state if none waits, says whether the sharer will count as sharing.      *)
DecidingTypes == {"RoomClosed", "JoinRoomRsp", "QuitRoomRsp"}
Undecided == {m \in Messages : m.type \notin DecidingTypes}

WillShare(st, q) ==
  \/ st = "Sharing" /\ q \in Seq(Undecided)
  \/ \E i \in 1 .. Len(q) : /\ q[i].type = "JoinRoomRsp" /\ q[i].status = 0
                           /\ \A j \in i + 1 .. Len(q) : q[j] \in Undecided

NotClosing == {m \in Messages : m.type # "RoomClosed"}
NotQuitting == {m \in Messages : m.type # "QuitRoom"}
Entered == {m \in Messages :
              m.type = "CreateRoomRsp" /\ m.status = 0 => m.room \in RoomsOf("V")}

SharerSteady ==
  /\ server.conn = IF server.state = "UnInit" THEN "none" ELSE "up"
  /\ ~server.reconnecting
  /\ server.state = "UnInit" => serverIn = << >>
  /\ WillShare(server.state, serverIn) => RoomsOf("S") # {}

ViewerSteady ==
  /\ viewer.conn = IF viewer.state = "UnInit" THEN "none" ELSE "up"
  /\ ~viewer.reconnecting
  /\ viewer.state # "RoomJoining"
  /\ requesting => viewer.state = "Init"
  /\ viewer.state = "Sharing" /\ viewerIn \in Seq(NotClosing)
       => viewer.room \in RoomsOf("V")
  /\ viewer.state = "RoomCreating" /\ viewerIn \in Seq(NotClosing)
       => viewerIn \in Seq(Entered)
  /\ \/ viewer.requestQ \in Seq(NotQuitting)
     \/ viewer.state \notin {"Sharing", "RoomCreating"} /\ ~requesting

SteadyInv == breaks = 0 => SharerSteady /\ ViewerSteady

-----------------------------------------------------------------------------
(* Sequences *)

(* A queue over a set of messages stays one when its head is removed, when  *)
(* a broken connection loses a part, when a message of the set is added.    *)
LEMMA TailKept ==
  ASSUME NEW M, NEW q \in Seq(M), q # << >>
  PROVE  /\ Tail(q) \in Seq(M) /\ Head(q) \in M /\ Head(q) = q[1] /\ Len(q) \in Nat \ {0}
         /\ Len(Tail(q)) = Len(q) - 1 /\ \A i \in 1 .. Len(q) - 1 : Tail(q)[i] = q[i + 1]
<1>1. Len(q) \in Nat \ {0}
  BY EmptySeq
<1> QED BY <1>1, HeadTailProperties

LEMMA CutKept ==
  ASSUME NEW M, NEW q \in Seq(M), NEW lost \in 0 .. Len(q)
  PROVE  /\ SubSeq(q, lost + 1, Len(q)) \in Seq(M)
         /\ Len(SubSeq(q, lost + 1, Len(q))) = Len(q) - lost
         /\ \A i \in 1 .. Len(q) - lost : SubSeq(q, lost + 1, Len(q))[i] = q[lost + i]
<1>1. /\ lost + 1 \in Int /\ Len(q) \in Int /\ lost \in Nat /\ Len(q) \in Nat
      /\ \A i \in lost + 1 .. Len(q) : q[i] \in M
  BY ElementOfSeq, LenProperties
<1>2. /\ SubSeq(q, lost + 1, Len(q)) \in Seq(M)
      /\ Len(SubSeq(q, lost + 1, Len(q))) = IF lost + 1 <= Len(q) THEN Len(q) - (lost + 1) + 1 ELSE 0
      /\ \A i \in 1 .. Len(q) - (lost + 1) + 1 :
            SubSeq(q, lost + 1, Len(q))[i] = q[lost + 1 + i - 1]
  BY <1>1, SubSeqProperties
<1> QED BY <1>1, <1>2

LEMMA SeqOver ==
  ASSUME NEW M, NEW T, NEW q \in Seq(M), \A i \in 1 .. Len(q) : q[i] \in T
  PROVE  q \in Seq(T)
<1>1. q \in [1 .. Len(q) -> M] /\ Len(q) \in Nat
  BY LenProperties
<1>2. q \in [1 .. Len(q) -> T]
  BY <1>1
<1> QED BY <1>1, <1>2

LEMMA AppendKept ==
  ASSUME NEW M, NEW q \in Seq(M), NEW m \in M
  PROVE  Append(q, m) \in Seq(M)
OBVIOUS

LEMMA DeliveredKept ==
  ASSUME NEW M, NEW x \in Members, Inbox(x) \in Seq(M), NEW s \in Seq(M)
  PROVE  Delivered(x, s) \in Seq(M)
BY ConcatProperties DEF Delivered

(* One request to create a room: it stays the only one, and once it is sent *)
(* there is none.                                                           *)
LEMMA OneCreateTail ==
  ASSUME NEW q \in Seq(Messages), q # << >>, OneCreate(q)
  PROVE  /\ OneCreate(Tail(q))
         /\ Head(q).type = "CreateRoom" => Tail(q) \in Seq(NotCreating)
<1>1. /\ Head(q) = q[1] /\ Len(q) \in Nat \ {0} /\ Len(Tail(q)) = Len(q) - 1
      /\ \A i \in 1 .. Len(q) - 1 : Tail(q)[i] = q[i + 1]
      /\ Tail(q) \in Seq(Messages)
  BY TailKept
<1>2. OneCreate(Tail(q))
  BY <1>1 DEF OneCreate
<1>3. ASSUME Head(q).type = "CreateRoom" PROVE Tail(q) \in Seq(NotCreating)
  <2>1. \A i \in 1 .. Len(Tail(q)) : Tail(q)[i].type # "CreateRoom"
    BY <1>1, <1>3 DEF OneCreate
  <2>2. \A i \in 1 .. Len(Tail(q)) : Tail(q)[i] \in NotCreating
    BY <1>1, <2>1, ElementOfSeq DEF NotCreating
  <2> QED BY <1>1, <2>2, SeqOver
<1> QED BY <1>2, <1>3

LEMMA OneCreateCut ==
  ASSUME NEW q \in Seq(Messages), NEW lost \in 0 .. Len(q), OneCreate(q)
  PROVE  OneCreate(SubSeq(q, lost + 1, Len(q)))
<1>1. /\ Len(q) \in Nat /\ Len(SubSeq(q, lost + 1, Len(q))) = Len(q) - lost
      /\ \A i \in 1 .. Len(q) - lost : SubSeq(q, lost + 1, Len(q))[i] = q[lost + i]
  BY CutKept, LenProperties
<1> DEFINE p == SubSeq(q, lost + 1, Len(q))
<1> HIDE DEF p
<1>2. Len(p) = Len(q) - lost /\ \A i \in 1 .. Len(q) - lost : p[i] = q[lost + i]
  BY <1>1 DEF p
<1>3. ASSUME NEW i \in 1 .. Len(p), NEW j \in 1 .. Len(p),
             p[i].type = "CreateRoom", p[j].type = "CreateRoom"
      PROVE  i = j
  <2>1. /\ lost \in Nat /\ lost + i \in 1 .. Len(q) /\ lost + j \in 1 .. Len(q)
        /\ p[i] = q[lost + i] /\ p[j] = q[lost + j]
    BY <1>1, <1>2
  <2>2. lost + i = lost + j
    BY <1>3, <2>1 DEF OneCreate
  <2> QED BY <2>1, <2>2
<1>4. OneCreate(p)
  BY <1>3 DEF OneCreate
<1> QED BY <1>4 DEF p

LEMMA OneCreateAppend ==
  ASSUME NEW q \in Seq(Messages), NEW m \in Messages, OneCreate(q),
         m.type # "CreateRoom" \/ q \in Seq(NotCreating)
  PROVE  OneCreate(Append(q, m))
<1>1. /\ Len(q) \in Nat /\ Len(Append(q, m)) = Len(q) + 1
      /\ \A i \in 1 .. Len(q) : Append(q, m)[i] = q[i]
      /\ Append(q, m)[Len(q) + 1] = m
  BY LenProperties, AppendProperties
<1>2. CASE m.type # "CreateRoom"
  BY <1>1, <1>2 DEF OneCreate
<1>3. CASE q \in Seq(NotCreating)
  <2>1. \A i \in 1 .. Len(q) : q[i].type # "CreateRoom"
    BY <1>3, ElementOfSeq DEF NotCreating
  <2> QED BY <1>1, <2>1 DEF OneCreate
<1> QED BY <1>2, <1>3

-----------------------------------------------------------------------------
(* The share server's reactions *)

LEMMA CreatedFacts ==
  ASSUME relay \in Relays, NEW x \in Members, NEW r \in Rooms
  PROVE  LET rel == [relay EXCEPT !.members[r] = {x}, !.used = @ \cup {r}] IN
         /\ rel \in Relays /\ rel.used = relay.used \cup {r}
         /\ \A q \in Rooms : rel.members[q] = IF q = r THEN {x} ELSE relay.members[q]
BY DEF Relays

LEMMA EnteredFacts ==
  ASSUME relay \in Relays, NEW x \in Members, NEW r \in Rooms
  PROVE  LET rel == [relay EXCEPT !.members[r] = @ \cup {x}] IN
         /\ rel \in Relays /\ rel.used = relay.used
         /\ \A q \in Rooms : rel.members[q] =
                IF q = r THEN relay.members[q] \cup {x} ELSE relay.members[q]
BY DEF Relays

(* What the share server tells of others: who came, who left; and that a    *)
(* room is closed.                                                          *)
Notes == {m \in Messages : m.type \in {"ReqInitMsg", "ExitRoom"}}
Closing(s) == \E r \in Rooms : s = <<FromRelay("RoomClosed", r, 0)>>

(* An answer alone, and with a message after it. *)
LEMMA AnswerAnd ==
  ASSUME NEW a, NEW b
  PROVE  <<a>> \o << >> = <<a>> /\ <<a>> \o <<b>> = <<a, b>>
<1> DEFINE M == {a, b}
<1>1. <<a>> \in Seq(M) /\ <<b>> \in Seq(M) /\ <<a, b>> \in Seq(M)
  OBVIOUS
<1>2. <<a>> \o << >> = <<a>>
  BY <1>1, ConcatEmptySeq
<1>3. /\ <<a>> \o <<b>> \in Seq(M) /\ Len(<<a>> \o <<b>>) = 2
      /\ (<<a>> \o <<b>>)[1] = a /\ (<<a>> \o <<b>>)[2] = b
  <2>1. Len(<<a>>) = 1 /\ Len(<<b>>) = 1 /\ <<a>>[1] = a /\ <<b>>[1] = b
    OBVIOUS
  <2> HIDE DEF M
  <2> QED BY <1>1, <2>1, ConcatProperties
<1>4. /\ Len(<<a, b>>) = 2 /\ <<a, b>>[1] = a /\ <<a, b>>[2] = b
  OBVIOUS
<1> DEFINE p == <<a>> \o <<b>>
           q == <<a, b>>
<1>5. /\ p \in Seq(M) /\ q \in Seq(M) /\ Len(p) = Len(q)
      /\ \A i \in 1 .. Len(p) : p[i] = q[i]
  <2>1. \A i \in 1 .. 2 : i = 1 \/ i = 2
    OBVIOUS
  <2> QED BY <1>1, <1>3, <1>4, <2>1
<1> HIDE DEF p, q, M
<1>6. p = q
  BY <1>5, SeqEqual
<1> QED BY <1>2, <1>6 DEF p, q

LEMMA RelayMessages ==
  /\ \A r \in RoomIds : \A st \in {0, Failed} :
       /\ FromRelay("CreateRoomRsp", r, st) \in Messages
       /\ FromRelay("JoinRoomRsp", r, st) \in Messages
       /\ FromRelay("QuitRoomRsp", r, st) \in Messages
       /\ FromRelay("RoomClosed", r, st) \in Messages
       /\ FromRelay("ReqInitMsg", r, st) \in Notes
       /\ FromRelay("ExitRoom", r, st) \in Notes
  /\ 0 \in RoomIds /\ Rooms \subseteq RoomIds
<1>1. /\ {"CreateRoomRsp", "JoinRoomRsp", "QuitRoomRsp", "RoomClosed", "ReqInitMsg",
          "ExitRoom"} \subseteq MsgTypes
      /\ "Server" \in ClientTypes /\ {0, Failed} \subseteq Statuses
  BY DEF MsgTypes, ClientTypes, Statuses
<1>2. 0 \in RoomIds /\ Rooms \subseteq RoomIds
  BY DEF RoomIds
<1> QED BY <1>1, <1>2 DEF FromRelay, Msg, Messages, Notes

(* Its fields. *)
LEMMA RelayFields ==
  ASSUME NEW type, NEW r, NEW st
  PROVE  /\ FromRelay(type, r, st).type = type /\ FromRelay(type, r, st).room = r
         /\ FromRelay(type, r, st).status = st
BY DEF FromRelay, Msg

(* The rooms after any reaction are rooms, and only rooms handed out have   *)
(* members.                                                                 *)
RelayKept(rel) ==
  /\ rel \in Relays /\ relay.used \subseteq rel.used
  /\ \A r \in Rooms : rel.members[r] # {} => r \in rel.used

(* A member of a room before is a member of it after. *)
Stays(x, rel) == \A r \in Rooms : x \in relay.members[r] => x \in rel.members[r]
(* And the other way round: it did not enter one. *)
NotEntered(x, rel) == \A r \in Rooms : x \in rel.members[r] => x \in relay.members[r]

(* What a request of member x may come to, case by case.                    *)
ReactionCase(x, m, re) ==
  \/ /\ m.type = "CreateRoom"
     /\ \E r \in Rooms \ relay.used :
          /\ re.relay.used = relay.used \cup {r}
          /\ \A q \in Rooms : re.relay.members[q] = IF q = r THEN {x} ELSE relay.members[q]
          /\ re.self = <<FromRelay("CreateRoomRsp", r, 0)>>
     /\ re.peer = << >>
  \/ /\ m.type = "CreateRoom" /\ re.relay = relay
     /\ re.self = <<FromRelay("CreateRoomRsp", 0, Failed)>> /\ re.peer = << >>
  \/ /\ m.type = "JoinRoom" /\ re.relay = relay
     /\ re.self = <<FromRelay("JoinRoomRsp", m.room, Failed)>> /\ re.peer = << >>
  \/ /\ m.type = "JoinRoom" /\ m.room \in Rooms /\ relay.members[m.room] # {}
     /\ re.relay.used = relay.used
     /\ \A q \in Rooms : re.relay.members[q] =
           IF q = m.room THEN relay.members[q] \cup {x} ELSE relay.members[q]
     /\ \/ re.self = <<FromRelay("JoinRoomRsp", m.room, 0)>>
        \/ x = "S" /\ re.self = <<FromRelay("JoinRoomRsp", m.room, 0),
                                  FromRelay("ReqInitMsg", m.room, 0)>>
     /\ \/ re.peer = << >>
        \/ re.peer = <<FromRelay("ReqInitMsg", m.room, 0)>>
  \/ /\ m.type = "QuitRoom" /\ re.relay = relay
     /\ re.self = <<FromRelay("QuitRoomRsp", m.room, Failed)>> /\ re.peer = << >>
  \/ /\ m.type = "QuitRoom" /\ m.room \in Rooms
     /\ re.relay.used = relay.used
     /\ re.self = <<FromRelay("QuitRoomRsp", m.room, 0)>>
     /\ \/ /\ \A q \in Rooms : re.relay.members[q] =
                 IF q = m.room THEN relay.members[q] \ {x} ELSE relay.members[q]
           /\ re.peer = << >> \/ re.peer = <<FromRelay("ExitRoom", m.room, 0)>>
        \/ /\ \A q \in Rooms : re.relay.members[q] =
                 IF q = m.room THEN {} ELSE relay.members[q]
           /\ re.peer = <<FromRelay("RoomClosed", m.room, 0)>>
  \/ /\ m.type \in {"ReqControl", "ControlRsp"} /\ re.relay = relay /\ re.self = << >>
     /\ \/ re.peer = << >>
        \/ re.peer = <<m>> /\ m.room \in Rooms /\ relay.members[m.room] = Members

LEMMA ReactionCases ==
  ASSUME relay \in Relays, NEW x \in Members, NEW m \in Messages, m.type \in RequestTypes,
         NEW re \in Reactions(x, m)
  PROVE  re.relay \in Relays /\ ReactionCase(x, m, re)
<1>1. CASE m.type = "CreateRoom"
  <2>1. re \in OnCreateRoom(x)
    BY <1>1 DEF Reactions
  <2>2. CASE re = Reaction(relay, <<FromRelay("CreateRoomRsp", 0, Failed)>>, << >>)
    BY <1>1, <2>2 DEF ReactionCase, Reaction
  <2>3. CASE \E r \in Rooms \ relay.used :
               re = Reaction([relay EXCEPT !.members[r] = {x}, !.used = @ \cup {r}],
                             <<FromRelay("CreateRoomRsp", r, 0)>>, << >>)
    <3>1. PICK r \in Rooms \ relay.used :
               re = Reaction([relay EXCEPT !.members[r] = {x}, !.used = @ \cup {r}],
                             <<FromRelay("CreateRoomRsp", r, 0)>>, << >>)
      BY <2>3
    <3> DEFINE rel == [relay EXCEPT !.members[r] = {x}, !.used = @ \cup {r}]
    <3>2. /\ rel \in Relays /\ rel.used = relay.used \cup {r}
          /\ \A q \in Rooms : rel.members[q] = IF q = r THEN {x} ELSE relay.members[q]
      BY CreatedFacts
    <3>3. re.relay = rel /\ re.self = <<FromRelay("CreateRoomRsp", r, 0)>> /\ re.peer = << >>
      BY <3>1 DEF Reaction
    <3> HIDE DEF rel
    <3> QED BY <1>1, <3>2, <3>3 DEF ReactionCase
  <2> QED BY <2>1, <2>2, <2>3 DEF OnCreateRoom
<1>2. CASE m.type = "JoinRoom"
  <2>1. re \in OnJoinRoom(x, m.room)
    BY <1>2 DEF Reactions
  <2>2. CASE ~Open(m.room)
    <3>1. re = Reaction(relay, <<FromRelay("JoinRoomRsp", m.room, Failed)>>, << >>)
      BY <2>1, <2>2 DEF OnJoinRoom
    <3> QED BY <1>2, <3>1 DEF ReactionCase, Reaction
  <2>3. CASE Open(m.room)
    <3> DEFINE r == m.room
               rel == [relay EXCEPT !.members[r] = @ \cup {x}]
               both == rel.members[r] = Members
               ask == <<FromRelay("ReqInitMsg", r, 0)>>
    <3>1. re = Reaction(rel,
                 <<FromRelay("JoinRoomRsp", r, 0)>> \o IF both /\ x = "S" THEN ask ELSE << >>,
                 IF both /\ x = "V" THEN ask ELSE << >>)
      BY <2>1, <2>3 DEF OnJoinRoom
    <3>2. r \in Rooms /\ relay.members[r] # {}
      BY <2>3 DEF Open
    <3>3. /\ rel \in Relays /\ rel.used = relay.used
          /\ \A q \in Rooms : rel.members[q] =
                IF q = r THEN relay.members[q] \cup {x} ELSE relay.members[q]
      BY <3>2, EnteredFacts
    <3> HIDE DEF rel, both
    <3>4. /\ re.relay = rel
          /\ re.self = <<FromRelay("JoinRoomRsp", r, 0)>> \o IF both /\ x = "S" THEN ask ELSE << >>
          /\ re.peer = IF both /\ x = "V" THEN ask ELSE << >>
      BY <3>1 DEF Reaction
    <3>5. \/ re.self = <<FromRelay("JoinRoomRsp", r, 0)>>
          \/ x = "S" /\ re.self = <<FromRelay("JoinRoomRsp", r, 0), FromRelay("ReqInitMsg", r, 0)>>
      BY <3>4, AnswerAnd
    <3> QED BY <1>2, <3>2, <3>3, <3>4, <3>5 DEF ReactionCase
  <2> QED BY <2>2, <2>3
<1>3. CASE m.type = "QuitRoom"
  <2>1. re \in OnQuitRoom(x, m.room)
    BY <1>3 DEF Reactions
  <2> DEFINE r == m.room
             ok == <<FromRelay("QuitRoomRsp", r, 0)>>
  <2>2. CASE ~Open(r) \/ x \notin relay.members[r]
    <3>1. re = Reaction(relay, <<FromRelay("QuitRoomRsp", r, Failed)>>, << >>)
      BY <2>1, <2>2 DEF OnQuitRoom
    <3> QED BY <1>3, <3>1 DEF ReactionCase, Reaction
  <2>3. CASE Open(r) /\ x \in relay.members[r]
    <3>1. r \in Rooms
      BY <2>3 DEF Open
    <3>2. \/ re = Reaction(Leave(x, r), ok, << >>)
          \/ re = Reaction(Leave(x, r), ok, <<FromRelay("ExitRoom", r, 0)>>)
          \/ re = Reaction([relay EXCEPT !.members[r] = {}], ok,
                           <<FromRelay("RoomClosed", r, 0)>>)
      BY <2>1, <2>3 DEF OnQuitRoom
    <3>3. /\ Leave(x, r) \in Relays /\ Leave(x, r).used = relay.used
          /\ \A q \in Rooms : Leave(x, r).members[q] =
               IF q = r THEN relay.members[q] \ {x} ELSE relay.members[q]
      BY <3>1, LeaveFacts
    <3>4. /\ [relay EXCEPT !.members[r] = {}] \in Relays
          /\ [relay EXCEPT !.members[r] = {}].used = relay.used
          /\ \A q \in Rooms : [relay EXCEPT !.members[r] = {}].members[q] =
               IF q = r THEN {} ELSE relay.members[q]
      <4>1. {} \in SUBSET Members
        OBVIOUS
      <4> QED BY <3>1, <4>1, ClosedFacts
    <3> DEFINE closed == [relay EXCEPT !.members[r] = {}]
    <3> HIDE DEF closed
    <3>5. CASE re = Reaction(Leave(x, r), ok, << >>)
      BY <1>3, <3>1, <3>3, <3>5 DEF ReactionCase, Reaction
    <3>6. CASE re = Reaction(Leave(x, r), ok, <<FromRelay("ExitRoom", r, 0)>>)
      BY <1>3, <3>1, <3>3, <3>6 DEF ReactionCase, Reaction
    <3>7. CASE re = Reaction(closed, ok, <<FromRelay("RoomClosed", r, 0)>>)
      <4>1. /\ re.relay = closed /\ re.self = ok
            /\ re.peer = <<FromRelay("RoomClosed", r, 0)>>
        BY <3>7 DEF Reaction
      <4>2. /\ closed \in Relays /\ closed.used = relay.used
            /\ \A q \in Rooms : closed.members[q] = IF q = r THEN {} ELSE relay.members[q]
        BY <3>4 DEF closed
      <4> QED BY <1>3, <3>1, <4>1, <4>2 DEF ReactionCase
    <3> QED BY <3>2, <3>5, <3>6, <3>7 DEF closed
  <2> QED BY <2>2, <2>3
<1>4. CASE m.type \in {"ReqControl", "ControlRsp"}
  <2>1. re \in Forward(x, m)
    BY <1>4 DEF Reactions
  <2>2. \/ re = Reaction(relay, << >>, <<m>>) /\ Open(m.room) /\ relay.members[m.room] = Members
        \/ re = Reaction(relay, << >>, << >>)
    BY <2>1 DEF Forward
  <2> QED BY <1>4, <2>2 DEF ReactionCase, Reaction, Open
<1> QED BY <1>1, <1>2, <1>3, <1>4 DEF RequestTypes

Refusing(s) ==
  \E d \in Messages : /\ s = <<d>> /\ d.type \in DecidingTypes
                      /\ ~(d.type = "JoinRoomRsp" /\ d.status = 0)

PlainAnswers ==
  {m \in Messages : /\ m.type \in {"CreateRoomRsp", "JoinRoomRsp", "QuitRoomRsp"}
                    /\ m.status = 0 => /\ m.type # "CreateRoomRsp"
                                       /\ m.type = "JoinRoomRsp" => m.room \in Rooms}

(* What a request of the sharer does to the rooms, to the sharer and to the *)
(* viewer: nothing takes the viewer into a room, and what reaches it are    *)
(* notes, the end of a room or the very request, in a room it is in.        *)
LEMMA SharerReaction ==
  ASSUME relay \in Relays, Handed, NEW m \in Messages, m.type \in RequestTypes,
         NEW re \in Reactions("S", m)
  PROVE  /\ RelayKept(re.relay) /\ NotEntered("V", re.relay)
         /\ re.self \in Seq(Messages)
         /\ \/ re.peer \in Seq(Notes) /\ Stays("V", re.relay)
            \/ Closing(re.peer)
            \/ /\ re.peer = <<m>> /\ m.type \in {"ReqControl", "ControlRsp"}
               /\ m.room \in Rooms /\ "V" \in relay.members[m.room]
               /\ Stays("V", re.relay)
         /\ \/ re.self \in Seq(Undecided) /\ Stays("S", re.relay)
            \/ \E r \in Rooms : "S" \in re.relay.members[r]
            \/ Refusing(re.self)
<1>1. re.relay \in Relays /\ ReactionCase("S", m, re)
  <2>1. "S" \in Members
    BY DEF Members
  <2> QED BY <2>1, ReactionCases
<1>2. m.room \in RoomIds
  BY DEF Messages
<1>3. /\ \A M : \A d \in M : <<d>> \in Seq(M)
      /\ \A M : << >> \in Seq(M)
      /\ \A M : \A d, e \in M : <<d, e>> \in Seq(M)
  OBVIOUS
<1> USE <1>1, <1>2
<1>4. CASE m.type = "CreateRoom"
  <2>1. CASE re.relay = relay /\ re.self = <<FromRelay("CreateRoomRsp", 0, Failed)>> /\ re.peer = << >>
    <3>1. FromRelay("CreateRoomRsp", 0, Failed) \in Undecided
      BY RelayMessages, RelayFields DEF Undecided, DecidingTypes
    <3>2. FromRelay("CreateRoomRsp", 0, Failed) \in Messages
      BY RelayMessages
    <3> QED BY <1>3, <2>1, <3>1, <3>2 DEF RelayKept, Handed, NotEntered, Stays
  <2>2. CASE /\ \E r \in Rooms \ relay.used :
                  /\ re.relay.used = relay.used \cup {r}
                  /\ \A q \in Rooms : re.relay.members[q] = IF q = r THEN {"S"} ELSE relay.members[q]
                  /\ re.self = <<FromRelay("CreateRoomRsp", r, 0)>>
             /\ re.peer = << >>
    <3>1. PICK r \in Rooms \ relay.used :
                  /\ re.relay.used = relay.used \cup {r}
                  /\ \A q \in Rooms : re.relay.members[q] = IF q = r THEN {"S"} ELSE relay.members[q]
                  /\ re.self = <<FromRelay("CreateRoomRsp", r, 0)>>
      BY <2>2
    <3>2. FromRelay("CreateRoomRsp", r, 0) \in Messages
      BY RelayMessages
    <3>3. relay.members[r] = {}
      BY <3>1 DEF Handed
    <3>4. RelayKept(re.relay) /\ NotEntered("V", re.relay) /\ Stays("V", re.relay)
      BY <3>1, <3>3 DEF RelayKept, Handed, NotEntered, Stays
    <3>5. "S" \in re.relay.members[r]
      BY <3>1
    <3> QED BY <1>3, <2>2, <3>1, <3>2, <3>4, <3>5
  <2> QED BY <1>4, <2>1, <2>2 DEF ReactionCase
<1>5. CASE m.type = "JoinRoom"
  <2>1. CASE re.relay = relay /\ re.self = <<FromRelay("JoinRoomRsp", m.room, Failed)>> /\ re.peer = << >>
    <3>1. FromRelay("JoinRoomRsp", m.room, Failed) \in Messages
      BY RelayMessages
    <3>2. Failed # 0
      BY DEF Failed
    <3>3. Refusing(re.self)
      BY <2>1, <3>1, <3>2, RelayFields DEF Refusing, DecidingTypes
    <3> QED BY <1>3, <2>1, <3>1, <3>3 DEF RelayKept, Handed, NotEntered, Stays
  <2>2. CASE /\ m.room \in Rooms /\ relay.members[m.room] # {}
             /\ re.relay.used = relay.used
             /\ \A q \in Rooms : re.relay.members[q] =
                   IF q = m.room THEN relay.members[q] \cup {"S"} ELSE relay.members[q]
             /\ \/ re.self = <<FromRelay("JoinRoomRsp", m.room, 0)>>
                \/ re.self = <<FromRelay("JoinRoomRsp", m.room, 0),
                               FromRelay("ReqInitMsg", m.room, 0)>>
             /\ re.peer = << >> \/ re.peer = <<FromRelay("ReqInitMsg", m.room, 0)>>
    <3>1. /\ FromRelay("JoinRoomRsp", m.room, 0) \in Messages
          /\ FromRelay("ReqInitMsg", m.room, 0) \in Notes
          /\ FromRelay("ReqInitMsg", m.room, 0) \in Messages
      BY RelayMessages DEF Notes
    <3>2. RelayKept(re.relay) /\ NotEntered("V", re.relay) /\ Stays("V", re.relay)
      <4>1. m.room \in relay.used
        BY <2>2 DEF Handed
      <4>2. RelayKept(re.relay)
        BY <2>2, <4>1 DEF RelayKept, Handed
      <4>3. ASSUME NEW q \in Rooms, "V" \in re.relay.members[q]
            PROVE  "V" \in relay.members[q]
        <5>1. CASE q = m.room
          <6>1. re.relay.members[q] = relay.members[q] \cup {"S"}
            BY <2>2, <5>1
          <6> QED BY <4>3, <6>1
        <5>2. CASE q # m.room
          BY <2>2, <4>3, <5>2
        <5> QED BY <5>1, <5>2
      <4>4. Stays("V", re.relay)
        BY <2>2 DEF Stays
      <4> QED BY <4>2, <4>3, <4>4 DEF NotEntered
    <3>3. "S" \in re.relay.members[m.room]
      BY <2>2
    <3>4. re.self \in Seq(Messages)
      BY <1>3, <2>2, <3>1
    <3>5. re.peer \in Seq(Notes)
      BY <1>3, <2>2, <3>1
    <3> QED BY <2>2, <3>2, <3>3, <3>4, <3>5
  <2> QED BY <1>5, <2>1, <2>2 DEF ReactionCase
<1>6. CASE m.type = "QuitRoom"
  <2>1. CASE re.relay = relay /\ re.self = <<FromRelay("QuitRoomRsp", m.room, Failed)>> /\ re.peer = << >>
    <3>1. FromRelay("QuitRoomRsp", m.room, Failed) \in Messages
      BY RelayMessages
    <3>3. Refusing(re.self)
      BY <2>1, <3>1, RelayFields DEF Refusing, DecidingTypes
    <3> QED BY <1>3, <2>1, <3>1, <3>3 DEF RelayKept, Handed, NotEntered, Stays
  <2>2. CASE /\ m.room \in Rooms /\ re.relay.used = relay.used
             /\ re.self = <<FromRelay("QuitRoomRsp", m.room, 0)>>
             /\ \/ /\ \A q \in Rooms : re.relay.members[q] =
                         IF q = m.room THEN relay.members[q] \ {"S"} ELSE relay.members[q]
                   /\ re.peer = << >> \/ re.peer = <<FromRelay("ExitRoom", m.room, 0)>>
                \/ /\ \A q \in Rooms : re.relay.members[q] =
                         IF q = m.room THEN {} ELSE relay.members[q]
                   /\ re.peer = <<FromRelay("RoomClosed", m.room, 0)>>
    <3>1. /\ FromRelay("QuitRoomRsp", m.room, 0) \in Messages
          /\ FromRelay("ExitRoom", m.room, 0) \in Notes
      BY RelayMessages
    <3>2. Refusing(re.self)
      BY <2>2, <3>1, RelayFields DEF Refusing, DecidingTypes
    <3>3. RelayKept(re.relay) /\ NotEntered("V", re.relay)
      BY <2>2 DEF RelayKept, Handed, NotEntered
    <3>4. re.self \in Seq(Messages)
      BY <1>3, <2>2, <3>1
    <3>5. (re.peer \in Seq(Notes) /\ Stays("V", re.relay)) \/ Closing(re.peer)
      BY <1>3, <2>2, <3>1 DEF Stays, Closing
    <3> QED BY <3>2, <3>3, <3>4, <3>5
  <2> QED BY <1>6, <2>1, <2>2 DEF ReactionCase
<1>7. CASE m.type \in {"ReqControl", "ControlRsp"}
  <2>1. /\ re.relay = relay /\ re.self = << >>
        /\ \/ re.peer = << >>
           \/ re.peer = <<m>> /\ m.room \in Rooms /\ relay.members[m.room] = Members
    BY <1>7 DEF ReactionCase
  <2>2. "V" \in Members
    BY DEF Members
  <2> QED BY <1>3, <1>7, <2>1, <2>2 DEF RelayKept, Handed, NotEntered, Stays
<1> QED BY <1>4, <1>5, <1>6, <1>7 DEF RequestTypes

(* What a request of the viewer does: it makes one new room, or it enters   *)
(* the one it names; what reaches the sharer does not decide whether it     *)
(* shares, but for the end of its room.                                     *)
LEMMA ViewerReaction ==
  ASSUME relay \in Relays, Handed, NEW m \in Messages, m.type \in RequestTypes,
         NEW re \in Reactions("V", m)
  PROVE  /\ RelayKept(re.relay)
         /\ m.type # "QuitRoom" => Stays("V", re.relay)
         /\ \/ /\ m.type = "CreateRoom"
               /\ \E r \in Rooms \ relay.used :
                    /\ re.self = <<FromRelay("CreateRoomRsp", r, 0)>>
                    /\ "V" \in re.relay.members[r]
                    /\ \A q \in Rooms : "V" \in re.relay.members[q]
                         => q = r \/ "V" \in relay.members[q]
            \/ /\ re.self \in Seq(PlainAnswers)
               /\ \A q \in Rooms : "V" \in re.relay.members[q]
                    => "V" \in relay.members[q] \/ (m.type = "JoinRoom" /\ q = m.room)
         /\ \/ re.peer \in Seq(Undecided) /\ Stays("S", re.relay)
            \/ Closing(re.peer)
<1>1. re.relay \in Relays /\ ReactionCase("V", m, re)
  <2>1. "V" \in Members
    BY DEF Members
  <2> QED BY <2>1, ReactionCases
<1>2. m.room \in RoomIds
  BY DEF Messages
<1>3. /\ \A M : \A d \in M : <<d>> \in Seq(M)
      /\ \A M : << >> \in Seq(M)
  OBVIOUS
<1>n. Notes \subseteq Undecided
  BY DEF Notes, Undecided, DecidingTypes
<1>f. Failed # 0
  BY DEF Failed
<1> USE <1>1, <1>2
<1>4. CASE m.type = "CreateRoom"
  <2>1. CASE re.relay = relay /\ re.self = <<FromRelay("CreateRoomRsp", 0, Failed)>> /\ re.peer = << >>
    <3>1. FromRelay("CreateRoomRsp", 0, Failed) \in PlainAnswers
      BY RelayMessages, RelayFields, <1>f DEF PlainAnswers
    <3>2. re.self \in Seq(PlainAnswers) /\ re.peer \in Seq(Undecided)
      BY <1>3, <2>1, <3>1
    <3> QED BY <2>1, <3>2 DEF RelayKept, Handed, Stays
  <2>2. CASE /\ \E r \in Rooms \ relay.used :
                  /\ re.relay.used = relay.used \cup {r}
                  /\ \A q \in Rooms : re.relay.members[q] = IF q = r THEN {"V"} ELSE relay.members[q]
                  /\ re.self = <<FromRelay("CreateRoomRsp", r, 0)>>
             /\ re.peer = << >>
    <3>1. PICK r \in Rooms \ relay.used :
                  /\ re.relay.used = relay.used \cup {r}
                  /\ \A q \in Rooms : re.relay.members[q] = IF q = r THEN {"V"} ELSE relay.members[q]
                  /\ re.self = <<FromRelay("CreateRoomRsp", r, 0)>>
      BY <2>2
    <3>2. relay.members[r] = {}
      BY <3>1 DEF Handed
    <3>3. RelayKept(re.relay) /\ Stays("V", re.relay) /\ Stays("S", re.relay)
      BY <3>1, <3>2 DEF RelayKept, Handed, Stays
    <3>4. /\ "V" \in re.relay.members[r]
          /\ \A q \in Rooms : "V" \in re.relay.members[q] => q = r \/ "V" \in relay.members[q]
      BY <3>1
    <3>5. re.peer \in Seq(Undecided)
      BY <1>3, <2>2
    <3> QED BY <1>4, <3>1, <3>3, <3>4, <3>5
  <2> QED BY <1>4, <2>1, <2>2 DEF ReactionCase
<1>5. CASE m.type = "JoinRoom"
  <2>1. CASE re.relay = relay /\ re.self = <<FromRelay("JoinRoomRsp", m.room, Failed)>> /\ re.peer = << >>
    <3>1. FromRelay("JoinRoomRsp", m.room, Failed) \in PlainAnswers
      BY RelayMessages, RelayFields, <1>f DEF PlainAnswers
    <3>2. re.self \in Seq(PlainAnswers) /\ re.peer \in Seq(Undecided)
      BY <1>3, <2>1, <3>1
    <3> QED BY <2>1, <3>2 DEF RelayKept, Handed, Stays
  <2>2. CASE /\ m.room \in Rooms /\ relay.members[m.room] # {}
             /\ re.relay.used = relay.used
             /\ \A q \in Rooms : re.relay.members[q] =
                   IF q = m.room THEN relay.members[q] \cup {"V"} ELSE relay.members[q]
             /\ re.self = <<FromRelay("JoinRoomRsp", m.room, 0)>>
             /\ re.peer = << >> \/ re.peer = <<FromRelay("ReqInitMsg", m.room, 0)>>
    <3>1. /\ FromRelay("JoinRoomRsp", m.room, 0) \in PlainAnswers
          /\ FromRelay("ReqInitMsg", m.room, 0) \in Undecided
      BY <1>n, <2>2, RelayMessages, RelayFields DEF PlainAnswers
    <3>2. m.room \in relay.used
      BY <2>2 DEF Handed
    <3>3. RelayKept(re.relay)
      BY <2>2, <3>2 DEF RelayKept, Handed
    <3>4. Stays("V", re.relay) /\ Stays("S", re.relay)
      BY <2>2 DEF Stays
    <3>5. \A q \in Rooms : "V" \in re.relay.members[q] => "V" \in relay.members[q] \/ q = m.room
      BY <2>2
    <3>6. re.self \in Seq(PlainAnswers) /\ re.peer \in Seq(Undecided)
      BY <1>3, <2>2, <3>1
    <3> QED BY <1>5, <3>3, <3>4, <3>5, <3>6
  <2>3. "V" # "S"
    OBVIOUS
  <2> QED BY <1>5, <2>1, <2>2, <2>3 DEF ReactionCase
<1>6. CASE m.type = "QuitRoom"
  <2>1. CASE re.relay = relay /\ re.self = <<FromRelay("QuitRoomRsp", m.room, Failed)>> /\ re.peer = << >>
    <3>1. FromRelay("QuitRoomRsp", m.room, Failed) \in PlainAnswers
      BY RelayMessages, RelayFields, <1>f DEF PlainAnswers
    <3>2. re.self \in Seq(PlainAnswers) /\ re.peer \in Seq(Undecided)
      BY <1>3, <2>1, <3>1
    <3> QED BY <1>6, <2>1, <3>2 DEF RelayKept, Handed, Stays
  <2>2. CASE /\ m.room \in Rooms /\ re.relay.used = relay.used
             /\ re.self = <<FromRelay("QuitRoomRsp", m.room, 0)>>
             /\ \/ /\ \A q \in Rooms : re.relay.members[q] =
                         IF q = m.room THEN relay.members[q] \ {"V"} ELSE relay.members[q]
                   /\ re.peer = << >> \/ re.peer = <<FromRelay("ExitRoom", m.room, 0)>>
                \/ /\ \A q \in Rooms : re.relay.members[q] =
                         IF q = m.room THEN {} ELSE relay.members[q]
                   /\ re.peer = <<FromRelay("RoomClosed", m.room, 0)>>
    <3>1. /\ FromRelay("QuitRoomRsp", m.room, 0) \in PlainAnswers
          /\ FromRelay("ExitRoom", m.room, 0) \in Undecided
      BY <1>n, RelayMessages, RelayFields DEF PlainAnswers
    <3>2. re.self \in Seq(PlainAnswers)
      BY <1>3, <2>2, <3>1
    <3>3. RelayKept(re.relay)
      BY <2>2 DEF RelayKept, Handed
    <3>4. \A q \in Rooms : "V" \in re.relay.members[q] => "V" \in relay.members[q]
      BY <2>2
    <3>5. (re.peer \in Seq(Undecided) /\ Stays("S", re.relay)) \/ Closing(re.peer)
      BY <1>3, <2>2, <3>1 DEF Stays, Closing
    <3> QED BY <1>6, <3>2, <3>3, <3>4, <3>5
  <2> QED BY <1>6, <2>1, <2>2 DEF ReactionCase
<1>7. CASE m.type \in {"ReqControl", "ControlRsp"}
  <2>1. /\ re.relay = relay /\ re.self = << >>
        /\ re.peer = << >> \/ re.peer = <<m>>
    BY <1>7 DEF ReactionCase
  <2>2. m \in Undecided
    BY <1>7 DEF Undecided, DecidingTypes
  <2>3. re.self \in Seq(PlainAnswers) /\ re.peer \in Seq(Undecided)
    BY <1>3, <2>1, <2>2
  <2> QED BY <2>1, <2>3 DEF RelayKept, Handed, Stays
<1> QED BY <1>4, <1>5, <1>6, <1>7 DEF RequestTypes

-----------------------------------------------------------------------------
(* The steps of the endpoints, as far as rooms and grants are concerned *)

(* A control call of the sharer sends one message in the sharer's room, and *)
(* after it the input was decided about, or the sharer waits for an answer. *)
LEMMA SharerControlFacts ==
  ASSUME SrvInv, SrvControlCall
  PROVE  /\ server'.state = server.state /\ server'.conn = server.conn
         /\ server'.reconnecting = server.reconnecting /\ server'.room = server.room
         /\ serverIn' = serverIn
         /\ server'.input # "default" \/ server'.rc = "ReqControling"
         /\ \E m \in Messages : /\ server'.requestQ = Append(server.requestQ, m)
                                /\ m.room = server.room
                                /\ m.type \in {"ReqControl", "ControlRsp"}
<1>t. server \in ServerFields /\ SrvTypeOK /\ server.room \in RoomIds
  BY DEF SrvInv, SrvTypeOK, ServerFields
<1>m. \A type \in {"ReqControl", "ControlRsp"} : \A from : \A st :
        /\ Msg(type, from, server.room, st).room = server.room
        /\ Msg(type, from, server.room, st).type \in {"ReqControl", "ControlRsp"}
  BY DEF Msg
<1>1. CASE reqRemoteControl
  <2> DEFINE m == Msg("ReqControl", "VncViewer", server.room, 1)
  <2>1. m \in Messages /\ m.room = server.room /\ m.type \in {"ReqControl", "ControlRsp"}
    BY <1>t, <1>m, SrvMessages
  <2>2. /\ server' = [server EXCEPT !.rc = "ReqControling", !.asked = server.asked + 1,
                                    !.requestQ = Append(server.requestQ, m)]
        /\ serverIn' = serverIn
    BY <1>1 DEF reqRemoteControl, SrvRequest
  <2> HIDE DEF m
  <2> QED BY <1>t, <2>1, <2>2 DEF ServerFields
<1>2. CASE stopRemoteControl
  <2> DEFINE m == Msg("ReqControl", "VncViewer", server.room, 0)
  <2>1. m \in Messages /\ m.room = server.room /\ m.type \in {"ReqControl", "ControlRsp"}
    BY <1>t, <1>m, SrvMessages
  <2>2. /\ server' = [server EXCEPT !.rc = "Normal", !.input = "disabled",
                                    !.requestQ = Append(server.requestQ, m)]
        /\ serverIn' = serverIn
    BY <1>2 DEF stopRemoteControl, SrvRequest
  <2> HIDE DEF m
  <2> QED BY <1>t, <2>1, <2>2 DEF ServerFields
<1>3. CASE \E r \in RoomIds : acceptRemoteControl(r)
  <2> DEFINE m == Msg("ControlRsp", "VncServer", server.room, 200)
  <2>1. m \in Messages /\ m.room = server.room /\ m.type \in {"ReqControl", "ControlRsp"}
    BY <1>t, <1>m, SrvMessages
  <2>2. /\ server' = [server EXCEPT !.rc = "Controling", !.input = "enabled",
                                    !.requestQ = Append(server.requestQ, m)]
        /\ serverIn' = serverIn
    BY <1>3 DEF acceptRemoteControl, SrvRequest
  <2> HIDE DEF m
  <2> QED BY <1>t, <2>1, <2>2 DEF ServerFields
<1>4. CASE \E r \in RoomIds : rejectRemoteControl(r)
  <2> DEFINE m == Msg("ControlRsp", "VncServer", server.room, 603)
  <2>1. m \in Messages /\ m.room = server.room /\ m.type \in {"ReqControl", "ControlRsp"}
    BY <1>t, <1>m, SrvMessages
  <2>2. /\ server' = [server EXCEPT !.rc = "Normal", !.input = "disabled",
                                    !.requestQ = Append(server.requestQ, m)]
        /\ serverIn' = serverIn
    BY <1>4 DEF rejectRemoteControl, SrvRequest
  <2> HIDE DEF m
  <2> QED BY <1>t, <2>1, <2>2 DEF ServerFields
<1> QED BY <1>1, <1>2, <1>3, <1>4 DEF SrvControlCall

(* Handling a message: the sharer forgets its room or keeps it, may ask to  *)
(* quit, and counts as sharing by the deciding messages alone.              *)
LEMMA SharerHandleFacts ==
  ASSUME SrvInv, SrvHandle, NEW m, m = Head(serverIn)
  PROVE  /\ serverIn # << >> /\ serverIn' = Tail(serverIn)
         /\ server.state # "UnInit" /\ server'.state # "UnInit"
         /\ server'.conn = server.conn /\ server'.reconnecting = server.reconnecting
         /\ server'.room \in {server.room, 0}
         /\ \/ server'.requestQ = server.requestQ
            \/ server'.requestQ =
                 Append(server.requestQ, Msg("QuitRoom", "VncServer", server.room, 0))
         /\ server'.input = "default" /\ server'.rc # "ReqControling"
              => server.input = "default" /\ server.rc # "ReqControling"
         /\ m.type \notin DecidingTypes => server'.state = server.state
         /\ m.type \in DecidingTypes /\ server'.state = "Sharing"
              => m.type = "JoinRoomRsp" /\ m.status = 0
<1>t. server \in ServerFields
  BY DEF SrvInv, SrvTypeOK
<1>h. /\ \/ SrvOnCreateRoom(m) \/ SrvOnRoomClosed(m) \/ SrvOnJoinRoom(m)
         \/ SrvOnQuitRoom(m) \/ SrvOnExitRoom(m) \/ SrvOnReqInitMsg(m)
         \/ SrvOnReqControl(m) \/ SrvOnControlRsp(m)
      /\ serverIn # << >> /\ serverIn' = Tail(serverIn) /\ server.state # "UnInit"
  BY DEF SrvHandle, SrvRunning
<1>1. CASE SrvOnCreateRoom(m)
  BY <1>t, <1>h, <1>1 DEF SrvOnCreateRoom, DecidingTypes
<1>2. CASE SrvOnRoomClosed(m)
  BY <1>t, <1>h, <1>2 DEF SrvOnRoomClosed, DecidingTypes, ServerFields
<1>3. CASE SrvOnJoinRoom(m)
  BY <1>t, <1>h, <1>3 DEF SrvOnJoinRoom, DecidingTypes, ServerFields
<1>4. CASE SrvOnQuitRoom(m)
  BY <1>t, <1>h, <1>4 DEF SrvOnQuitRoom, DecidingTypes, ServerFields
<1>5. CASE SrvOnExitRoom(m)
  <2> DEFINE q == Append(server.requestQ, Msg("QuitRoom", "VncServer", server.room, 0))
  <2>1. m.type \notin DecidingTypes
    BY <1>5 DEF SrvOnExitRoom, DecidingTypes
  <2>2. server' = server \/ server' = [server EXCEPT !.requestQ = q]
    BY <1>5 DEF SrvOnExitRoom, SrvRequest
  <2> QED BY <1>t, <1>h, <2>1, <2>2 DEF ServerFields
<1>6. CASE SrvOnReqInitMsg(m)
  BY <1>t, <1>h, <1>6 DEF SrvOnReqInitMsg, DecidingTypes, ServerFields
<1>7. CASE SrvOnReqControl(m)
  BY <1>t, <1>h, <1>7 DEF SrvOnReqControl, DecidingTypes, ServerFields
<1>8. CASE SrvOnControlRsp(m)
  BY <1>t, <1>h, <1>8 DEF SrvOnControlRsp, DecidingTypes, ServerFields
<1> QED BY <1>h, <1>1, <1>2, <1>3, <1>4, <1>5, <1>6, <1>7, <1>8

(* A control call of the viewer sends one message, and does not put it in   *)
(* control unless the sharer has asked it.                                  *)
LEMMA ViewerControlFacts ==
  ASSUME VwrInv, VwrControlCall
  PROVE  /\ viewer'.state = viewer.state /\ viewer'.conn = viewer.conn
         /\ viewer'.reconnecting = viewer.reconnecting /\ viewer'.room = viewer.room
         /\ viewerIn' = viewerIn
         /\ viewer.rc \in {"Normal", "ReqControling"} => viewer'.rc \in {"Normal", "ReqControling"}
         /\ \E m \in Messages : /\ viewer'.requestQ = Append(viewer.requestQ, m)
                                /\ m.type \in {"ReqControl", "ControlRsp"}
<1>t. viewer \in ViewerFields /\ VwrTypeOK /\ viewer.room \in RoomIds
  BY DEF VwrInv, VwrTypeOK, ViewerFields
<1>m. \A type \in {"ReqControl", "ControlRsp"} : \A from : \A st :
        Msg(type, from, viewer.room, st).type \in {"ReqControl", "ControlRsp"}
  BY DEF Msg
<1>1. CASE vwrReqRemoteControl
  <2> DEFINE m == Msg("ReqControl", "VncViewer", viewer.room, 1)
  <2>1. m \in Messages /\ m.type \in {"ReqControl", "ControlRsp"}
    BY <1>t, <1>m, VwrMessages
  <2>2. /\ viewer' = [viewer EXCEPT !.rc = "ReqControling", !.asked = viewer.asked + 1,
                                    !.requestQ = Append(viewer.requestQ, m)]
        /\ viewerIn' = viewerIn
    BY <1>1 DEF vwrReqRemoteControl, VwrRequest
  <2> HIDE DEF m
  <2> QED BY <1>t, <2>1, <2>2 DEF ViewerFields
<1>2. CASE vwrStopRemoteControl
  <2> DEFINE m == Msg("ReqControl", "VncViewer", viewer.room, 0)
  <2>1. m \in Messages /\ m.type \in {"ReqControl", "ControlRsp"}
    BY <1>t, <1>m, VwrMessages
  <2>2. /\ viewer' = [viewer EXCEPT !.rc = "Normal", !.viewOnly = TRUE,
                                    !.requestQ = Append(viewer.requestQ, m)]
        /\ viewerIn' = viewerIn
    BY <1>2 DEF vwrStopRemoteControl, VwrRequest
  <2> HIDE DEF m
  <2> QED BY <1>t, <2>1, <2>2 DEF ViewerFields
<1>3. CASE \E r \in RoomIds : vwrAcceptRemoteControl(r)
  <2> DEFINE m == Msg("ControlRsp", "VncServer", viewer.room, 200)
  <2>1. m \in Messages /\ m.type \in {"ReqControl", "ControlRsp"}
    BY <1>t, <1>m, VwrMessages
  <2>2. /\ viewer' = [viewer EXCEPT !.rc = "Controling", !.viewOnly = FALSE,
                                    !.requestQ = Append(viewer.requestQ, m)]
        /\ viewerIn' = viewerIn /\ viewer.rc = "RecvReqControling"
    BY <1>3 DEF vwrAcceptRemoteControl, VwrRequest
  <2> HIDE DEF m
  <2> QED BY <1>t, <2>1, <2>2 DEF ViewerFields
<1>4. CASE \E r \in RoomIds : vwrRejectRemoteControl(r)
  <2> DEFINE m == Msg("ControlRsp", "VncServer", viewer.room, 603)
  <2>1. m \in Messages /\ m.type \in {"ReqControl", "ControlRsp"}
    BY <1>t, <1>m, VwrMessages
  <2>2. /\ viewer' = [viewer EXCEPT !.rc = "Normal", !.viewOnly = TRUE,
                                    !.requestQ = Append(viewer.requestQ, m)]
        /\ viewerIn' = viewerIn /\ viewer.rc = "RecvReqControling"
    BY <1>4 DEF vwrRejectRemoteControl, VwrRequest
  <2> HIDE DEF m
  <2> QED BY <1>t, <2>1, <2>2 DEF ViewerFields
<1> QED BY <1>1, <1>2, <1>3, <1>4 DEF VwrControlCall

(* Handling a message: what room the viewer then believes it is in, and     *)
(* from where.                                                              *)
LEMMA ViewerHandleFacts ==
  ASSUME VwrInv, VwrHandle, NEW m, m = Head(viewerIn)
  PROVE  /\ viewerIn # << >> /\ viewerIn' = Tail(viewerIn)
         /\ viewer.state # "UnInit" /\ viewer'.state # "UnInit"
         /\ viewer'.conn = viewer.conn /\ viewer'.reconnecting = viewer.reconnecting
         /\ \/ viewer'.room \in {viewer.room, 0}
            \/ m.type = "CreateRoomRsp" /\ m.status = 0 /\ viewer'.room = m.room
         /\ \/ viewer'.requestQ = viewer.requestQ
            \/ /\ viewer'.requestQ =
                    Append(viewer.requestQ, Msg("QuitRoom", "VncViewer", viewer.room, 0))
               /\ viewer.state = "Sharing" /\ viewer'.state = "Quiting"
         /\ viewer.rc \in {"Normal", "ReqControling"} /\ ~Granting(m)
              => viewer'.rc \in {"Normal", "ReqControling"}
         /\ viewer'.state \in {"Sharing", "Quiting"} =>
              \/ /\ viewer.state \in {"Sharing", viewer'.state}
                 /\ viewer'.room = viewer.room /\ m.type # "RoomClosed"
              \/ /\ viewer.state = "RoomCreating" /\ m.type = "CreateRoomRsp"
                 /\ m.status = 0 /\ viewer'.room = m.room
              \/ /\ viewer.state = "RoomJoining" /\ m.type = "JoinRoomRsp"
                 /\ m.status = 0 /\ viewer'.room = m.room
         /\ viewer'.state = "RoomCreating"
              => viewer.state = "RoomCreating" /\ m.type # "RoomClosed"
         /\ viewer'.state = "RoomJoining" => viewer.state = "RoomJoining"
         /\ viewer.state = "Init" => viewer'.state = "Init"
<1>t. viewer \in ViewerFields
  BY DEF VwrInv, VwrTypeOK
<1>h. /\ \/ VwrOnCreateRoom(m) \/ VwrOnRoomClosed(m) \/ VwrOnJoinRoom(m)
         \/ VwrOnQuitRoom(m) \/ VwrOnExitRoom(m) \/ VwrOnReqInitMsg(m)
         \/ VwrOnReqControl(m) \/ VwrOnControlRsp(m)
      /\ viewerIn # << >> /\ viewerIn' = Tail(viewerIn) /\ viewer.state # "UnInit"
  BY DEF VwrHandle, VwrRunning
<1>1. CASE VwrOnCreateRoom(m)
  BY <1>t, <1>h, <1>1 DEF VwrOnCreateRoom, ViewerFields
<1>2. CASE VwrOnRoomClosed(m)
  BY <1>t, <1>h, <1>2 DEF VwrOnRoomClosed, ViewerFields
<1>3. CASE VwrOnJoinRoom(m)
  BY <1>t, <1>h, <1>3 DEF VwrOnJoinRoom, ViewerFields
<1>4. CASE VwrOnQuitRoom(m)
  BY <1>t, <1>h, <1>4 DEF VwrOnQuitRoom, ViewerFields
<1>5. CASE VwrOnExitRoom(m)
  <2> DEFINE q == Append(viewer.requestQ, Msg("QuitRoom", "VncViewer", viewer.room, 0))
  <2>1. m.type = "ExitRoom"
    BY <1>5 DEF VwrOnExitRoom
  <2>2. \/ viewer' = viewer
        \/ viewer.state = "Sharing" /\ viewer' = [viewer EXCEPT !.state = "Quiting", !.requestQ = q]
    BY <1>5 DEF VwrOnExitRoom, VwrRequest
  <2>3. CASE viewer' = viewer
    BY <1>h, <2>1, <2>3
  <2>4. CASE viewer.state = "Sharing" /\ viewer' = [viewer EXCEPT !.state = "Quiting", !.requestQ = q]
    BY <1>t, <1>h, <2>1, <2>4 DEF ViewerFields
  <2> QED BY <2>2, <2>3, <2>4
<1>6. CASE VwrOnReqInitMsg(m)
  BY <1>t, <1>h, <1>6 DEF VwrOnReqInitMsg
<1>7. CASE VwrOnReqControl(m)
  BY <1>t, <1>h, <1>7 DEF VwrOnReqControl, ViewerFields, Granting
<1>8. CASE VwrOnControlRsp(m)
  BY <1>t, <1>h, <1>8 DEF VwrOnControlRsp, ViewerFields, Granting
<1> QED BY <1>h, <1>1, <1>2, <1>3, <1>4, <1>5, <1>6, <1>7, <1>8

(* Making the connection again: the room is asked for again, the control    *)
(* state and the input are as they were.                                    *)
LEMMA SharerReconnectFacts ==
  ASSUME SrvInv, SrvReconnected
  PROVE  /\ serverIn' = << >> /\ server.reconnecting
         /\ server.state # "UnInit" /\ server'.state # "UnInit"
         /\ server'.rc = server.rc /\ server'.input = server.input
         /\ server'.room = server.room
         /\ \/ server'.requestQ = server.requestQ
            \/ server'.requestQ =
                 Append(server.requestQ, Msg("JoinRoom", "VncServer", server.room, 0))
<1>t. server \in ServerFields
  BY DEF SrvInv, SrvTypeOK
<1> DEFINE q == Append(server.requestQ, Msg("JoinRoom", "VncServer", server.room, 0))
           s == [server EXCEPT !.conn = "up", !.reconnecting = FALSE]
<1>1. /\ s.state = server.state /\ s.requestQ = server.requestQ /\ s.room = server.room
      /\ s.rc = server.rc /\ s.input = server.input /\ s \in ServerFields
  BY <1>t, Names DEF ServerFields
<1>2. /\ server' = Joined(s, server.room) /\ serverIn' = << >>
      /\ server.state # "UnInit" /\ server.reconnecting
  BY DEF SrvReconnected, SrvRunning
<1>3. CASE server.state \in {"Init", "Sharing"}
  <2>1. server' = [s EXCEPT !.state = "Joining", !.room = server.room, !.requestQ = q]
    BY <1>1, <1>2, <1>3 DEF Joined
  <2> HIDE DEF s, q
  <2>2. /\ server'.state = "Joining" /\ server'.room = server.room /\ server'.requestQ = q
        /\ server'.rc = s.rc /\ server'.input = s.input
    BY <1>1, <2>1 DEF ServerFields
  <2> QED BY <1>1, <1>2, <2>2 DEF q
<1>4. CASE server.state \notin {"Init", "Sharing"}
  <2>1. server' = s
    BY <1>1, <1>2, <1>4 DEF Joined
  <2> HIDE DEF s
  <2> QED BY <1>1, <1>2, <2>1
<1> QED BY <1>3, <1>4

LEMMA ViewerReconnectFacts ==
  ASSUME VwrInv, VwrReconnected
  PROVE  /\ viewerIn' = << >> /\ viewer.reconnecting
         /\ viewer.state # "UnInit" /\ viewer'.state # "UnInit"
         /\ viewer'.rc = viewer.rc /\ viewer'.room = viewer.room
         /\ \/ viewer'.requestQ = viewer.requestQ
            \/ viewer'.requestQ =
                 Append(viewer.requestQ, Msg("JoinRoom", "VncViewer", viewer.room, 0))
         /\ viewer'.state \in {viewer.state, "RoomJoining"}
<1>t. viewer \in ViewerFields
  BY DEF VwrInv, VwrTypeOK
<1> DEFINE q == Append(viewer.requestQ, Msg("JoinRoom", "VncViewer", viewer.room, 0))
           v == [viewer EXCEPT !.conn = "up", !.reconnecting = FALSE]
           st == IF viewer.state = "Init" THEN "RoomJoining" ELSE viewer.state
<1>1. /\ v.state = viewer.state /\ v.requestQ = viewer.requestQ /\ v.room = viewer.room
      /\ v.rc = viewer.rc /\ v \in ViewerFields
  BY <1>t, Names DEF ViewerFields
<1>2. /\ viewer' = VwrJoined(v, viewer.room) /\ viewerIn' = << >>
      /\ viewer.state # "UnInit" /\ viewer.reconnecting
  BY DEF VwrReconnected, VwrRunning
<1>3. CASE viewer.state \in {"Init", "Sharing"}
  <2>1. viewer' = [v EXCEPT !.state = st, !.room = viewer.room, !.requestQ = q]
    BY <1>1, <1>2, <1>3 DEF VwrJoined
  <2>2. st \in {viewer.state, "RoomJoining"} /\ st # "UnInit"
    BY <1>2
  <2> HIDE DEF v, q, st
  <2>3. /\ viewer'.state = st /\ viewer'.room = viewer.room /\ viewer'.requestQ = q
        /\ viewer'.rc = v.rc
    BY <1>1, <2>1 DEF ViewerFields
  <2> QED BY <1>1, <1>2, <2>2, <2>3 DEF q
<1>4. CASE viewer.state \notin {"Init", "Sharing"}
  <2>1. viewer' = v
    BY <1>1, <1>2, <1>4 DEF VwrJoined
  <2> HIDE DEF v
  <2> QED BY <1>1, <1>2, <2>1
<1> QED BY <1>3, <1>4

-----------------------------------------------------------------------------
(* Typing *)

(* An inbox that something was put into, or was emptied. *)
LEMMA SrvInboxInv ==
  ASSUME SrvInv, server' = server, serverIn' \in Seq(Messages)
  PROVE  SrvInv'
BY DEF SrvInv, SrvTypeOK, InputOnlyWhileGranted, GrantTakesInput

LEMMA VwrInboxInv ==
  ASSUME VwrInv, viewer' = viewer, viewerIn' \in Seq(Messages)
  PROVE  VwrInv'
BY DEF VwrInv, VwrTypeOK, ViewOnlyUnlessControling

(* One member is forgotten, or a room is closed. *)
LEMMA ForgottenKept ==
  ASSUME relay \in Relays, Handed, NEW x \in Members
  PROVE  /\ RelayKept(Forgotten(x))
         /\ \A y \in Members : NotEntered(y, Forgotten(x)) /\ (y # x => Stays(y, Forgotten(x)))
         /\ \A r \in Rooms : x \notin Forgotten(x).members[r]
<1>1. /\ Forgotten(x) \in Relays /\ Forgotten(x).used = relay.used
      /\ \A q \in Rooms : Forgotten(x).members[q] = relay.members[q] \ {x}
  BY ForgottenFacts
<1> QED BY <1>1 DEF RelayKept, Handed, NotEntered, Stays

LEMMA ClosedKept ==
  ASSUME relay \in Relays, Handed, NEW r \in Rooms
  PROVE  /\ RelayKept([relay EXCEPT !.members[r] = {}])
         /\ \A y \in Members : NotEntered(y, [relay EXCEPT !.members[r] = {}])
         /\ \A y \in Members : y \notin relay.members[r] => Stays(y, [relay EXCEPT !.members[r] = {}])
<1> DEFINE rel == [relay EXCEPT !.members[r] = {}]
<1>1. {} \in SUBSET Members
  OBVIOUS
<1>2. /\ rel \in Relays /\ rel.used = relay.used
      /\ \A q \in Rooms : rel.members[q] = IF q = r THEN {} ELSE relay.members[q]
  BY <1>1, ClosedFacts
<1> HIDE DEF rel
<1>3. RelayKept(rel) /\ \A y \in Members : NotEntered(y, rel)
  BY <1>2 DEF RelayKept, Handed, NotEntered
<1>4. \A y \in Members : y \notin relay.members[r] => Stays(y, rel)
  BY <1>2 DEF Stays
<1> QED BY <1>3, <1>4 DEF rel

(* What the share server says of a member that is gone, or of a room that   *)
(* is: no answer and no grant.                                              *)
Quiet == {m \in Messages : m.type \in {"ReqInitMsg", "ExitRoom", "RoomClosed"}}

LEMMA QuietFacts ==
  /\ Notes \subseteq Quiet /\ Quiet \subseteq Messages /\ Quiet \subseteq Ungranting
  /\ \A c : Quiet \subseteq Answers(c)
  /\ \A s \in Seq(Notes) : s \in Seq(Quiet)
  /\ \A s \in Seq(Quiet) : s \in Seq(Messages)
<1>1. Notes \subseteq Quiet /\ Quiet \subseteq Messages /\ Quiet \subseteq Ungranting
  BY DEF Notes, Quiet, Ungranting, Granting
<1>2. \A c : Quiet \subseteq Answers(c)
  BY DEF Quiet, Answers
<1> QED BY <1>1, <1>2, SeqMonotonic

LEMMA NoticesQuiet ==
  ASSUME NEW x, NEW n \in Notices(x)
  PROVE  n \in Seq(Notes)
<1>1. \A r \in Rooms : FromRelay("ExitRoom", r, 0) \in Notes
  BY RelayMessages
<1>2. n = << >> \/ \E r \in Rooms : n = <<FromRelay("ExitRoom", r, 0)>>
  BY DEF Notices, RoomsOf
<1>3. << >> \in Seq(Notes) /\ \A m \in Notes : <<m>> \in Seq(Notes)
  OBVIOUS
<1> QED BY <1>1, <1>2, <1>3

LEMMA ClosingQuiet ==
  ASSUME NEW s, Closing(s)
  PROVE  s \in Seq(Quiet)
<1>1. PICK r \in Rooms : s = <<FromRelay("RoomClosed", r, 0)>>
  BY DEF Closing
<1>2. FromRelay("RoomClosed", r, 0) \in Quiet
  BY RelayMessages, RelayFields DEF Quiet
<1> QED BY <1>1, <1>2

(* Typed' follows from the four parts an action can disturb. *)
LEMMA TypedParts ==
  ASSUME Typed, SrvInv', VwrInv', RelayKept(relay') \/ relay' = relay,
         accepting' \in Rooms \cup {0}, accepted' \subseteq relay.used,
         joining' \in BOOLEAN, requesting' \in BOOLEAN, breaks' \in 0 .. MaxBreaks
  PROVE  Typed'
<1>1. CASE relay' = relay
  BY <1>1 DEF Typed, Handed
<1>2. CASE RelayKept(relay')
  BY <1>2 DEF Typed, Handed, RelayKept
<1> QED BY <1>1, <1>2

LEMMA TypedCalls == RoomInv /\ Calls => Typed'
<1> SUFFICES ASSUME RoomInv, Calls PROVE Typed'
  OBVIOUS
<1>t. /\ Typed /\ SrvInv /\ VwrInv /\ relay \in Relays /\ Handed
      /\ accepting \in Rooms \cup {0} /\ accepted \subseteq relay.used
      /\ joining \in BOOLEAN /\ requesting \in BOOLEAN /\ breaks \in 0 .. MaxBreaks
      /\ serverIn \in Seq(Messages) /\ viewerIn \in Seq(Messages)
      /\ "S" \in Members /\ "V" \in Members /\ relay.used \subseteq Rooms
  BY DEF RoomInv, Typed, SrvInv, SrvTypeOK, VwrInv, VwrTypeOK, Members, Relays
<1>i. \A s \in Seq(Messages) : /\ Delivered("S", s) \in Seq(Messages)
                               /\ Delivered("V", s) \in Seq(Messages)
  <2>1. Inbox("S") \in Seq(Messages) /\ Inbox("V") \in Seq(Messages)
    BY <1>t DEF Inbox
  <2> QED BY <1>t, <2>1, DeliveredKept
<1>n. \A x \in Members : \A n \in Notices(x) : n \in Seq(Messages)
  BY NoticesQuiet, QuietFacts
<1>1. CASE AcceptInit
  <2>1. PICK r \in relay.used \ accepted : accepting' = r /\ accepted' = accepted \cup {r}
    BY <1>1 DEF AcceptInit
  <2>2. CASE SrvRunning /\ UNCHANGED <<server, serverIn, viewerIn, relay>>
    <3>1. SrvInv'
      BY <1>t, <2>2, SrvInboxInv
    <3>2. VwrInv'
      BY <1>1, <1>t, <2>2, VwrInboxInv DEF AcceptInit
    <3> QED BY <1>1, <1>t, <2>1, <2>2, <3>1, <3>2, TypedParts DEF AcceptInit
  <2>3. CASE /\ initServer /\ relay' = Forgotten("S")
             /\ \E n \in Notices("S") : viewerIn' = Delivered("V", n)
    <3>1. SrvInv'
      BY <1>t, <2>3, RoomCallInv DEF SrvRoomCall
    <3>2. VwrInv'
      BY <1>1, <1>t, <1>i, <1>n, <2>3, VwrInboxInv DEF AcceptInit
    <3>3. RelayKept(relay')
      BY <1>t, <2>3, ForgottenKept
    <3> QED BY <1>1, <1>t, <2>1, <3>1, <3>2, <3>3, TypedParts DEF AcceptInit
  <2> QED BY <1>1, <2>2, <2>3 DEF AcceptInit
<1>2. CASE AcceptJoin
  <2>1. accepting \in Rooms
    BY <1>2, <1>t DEF AcceptJoin, RoomInv, SharerInv
  <2>2. SrvInv'
    <3>1. CASE joinShareRoom(accepting)
      BY <1>t, <2>1, <3>1, RoomCallInv DEF SrvRoomCall
    <3>2. CASE UNCHANGED <<server, serverIn>>
      BY <1>t, <3>2, SrvInboxInv
    <3> QED BY <1>2, <3>1, <3>2 DEF AcceptJoin
  <2>3. VwrInv'
    BY <1>2, <1>t, VwrInboxInv DEF AcceptJoin
  <2> QED BY <1>2, <1>t, <2>2, <2>3, TypedParts DEF AcceptJoin
<1>3. CASE RequestInit
  <2>1. PICK n \in Notices("V") : serverIn' = Delivered("S", n)
    BY <1>3 DEF RequestInit
  <2>2. SrvInv'
    BY <1>3, <1>t, <1>i, <1>n, <2>1, SrvInboxInv DEF RequestInit
  <2>3. VwrInv'
    <3>1. initViewer
      BY <1>3 DEF RequestInit
    <3>2. ~vwrCreateShareRoom
      BY <3>1 DEF vwrCreateShareRoom, initViewer, NewViewer
    <3> QED BY <1>t, <3>1, <3>2, VwrRoomCallInv
  <2>4. RelayKept(relay')
    BY <1>3, <1>t, ForgottenKept DEF RequestInit
  <2> QED BY <1>3, <1>t, <2>2, <2>3, <2>4, TypedParts DEF RequestInit
<1>4. CASE RequestCreate
  <2>1. viewer.rc # "Controling"
    <3>1. PICK c \in Rooms \cup {0} : Session(c)
      BY DEF RoomInv
    <3>2. 0 \notin RoomsJoined
      BY <1>t, VncAssumption DEF RoomsJoined
    <3> QED BY <1>4, <3>1, <3>2 DEF RequestCreate, Session, Untouched
  <2>2. VwrInv'
    <3>1. CASE vwrCreateShareRoom
      BY <1>t, <2>1, <3>1, VwrRoomCallInv
    <3>2. CASE UNCHANGED <<viewer, viewerIn>>
      BY <1>t, <3>2, VwrInboxInv
    <3> QED BY <1>4, <3>1, <3>2 DEF RequestCreate
  <2>3. SrvInv'
    BY <1>4, <1>t, SrvInboxInv DEF RequestCreate
  <2> QED BY <1>4, <1>t, <2>2, <2>3, TypedParts DEF RequestCreate
<1>5. CASE ServerQuits \/ ServerUninit \/ ServerControl
  <2>1. SrvInv'
    BY <1>5, <1>t, RoomCallInv, ControlCallInv
       DEF ServerQuits, ServerUninit, ServerControl, SrvRoomCall
  <2>2. UNCHANGED <<viewer, viewerIn, relay, ui, breaks>>
    BY <1>5 DEF ServerQuits, ServerUninit, ServerControl
  <2>3. VwrInv'
    BY <1>t, <2>2, VwrInboxInv
  <2> QED BY <1>t, <2>1, <2>2, <2>3, TypedParts DEF ui
<1>6. CASE ViewerQuits \/ ViewerUninit \/ ViewerControl
  <2>1. VwrInv'
    <3>1. CASE ViewerControl
      BY <1>t, <3>1, VwrCallInv DEF ViewerControl
    <3>2. CASE vwrQuitShareRoom \/ uninitViewer
      <4>1. ~vwrCreateShareRoom
        BY <3>2, <1>t DEF vwrCreateShareRoom, vwrQuitShareRoom, uninitViewer,
                          VwrInv, VwrTypeOK, ViewerFields
      <4> QED BY <1>t, <3>2, <4>1, VwrRoomCallInv
    <3> QED BY <1>6, <3>1, <3>2 DEF ViewerQuits, ViewerUninit
  <2>2. UNCHANGED <<server, serverIn, relay, ui, breaks>>
    BY <1>6 DEF ViewerQuits, ViewerUninit, ViewerControl
  <2>3. SrvInv'
    BY <1>t, <2>2, SrvInboxInv
  <2> QED BY <1>t, <2>1, <2>2, <2>3, TypedParts DEF ui
<1> QED BY <1>1, <1>2, <1>3, <1>4, <1>5, <1>6 DEF Calls

LEMMA TypedThreads == RoomInv /\ Threads => Typed'
<1> SUFFICES ASSUME RoomInv, Threads PROVE Typed'
  OBVIOUS
<1>t. /\ Typed /\ SrvInv /\ VwrInv /\ relay \in Relays /\ Handed
      /\ accepting \in Rooms \cup {0} /\ accepted \subseteq relay.used
      /\ joining \in BOOLEAN /\ requesting \in BOOLEAN /\ breaks \in 0 .. MaxBreaks
      /\ serverIn \in Seq(Messages) /\ viewerIn \in Seq(Messages)
      /\ server.requestQ \in Seq(Messages) /\ viewer.requestQ \in Seq(Messages)
      /\ server.conn \in Connections /\ viewer.conn \in Connections
      /\ "S" \in Members /\ "V" \in Members /\ relay.used \subseteq Rooms
  BY DEF RoomInv, Typed, SrvInv, SrvTypeOK, ServerFields, VwrInv, VwrTypeOK, ViewerFields,
         Members, Relays
<1>i. \A s \in Seq(Messages) : /\ Delivered("S", s) \in Seq(Messages)
                               /\ Delivered("V", s) \in Seq(Messages)
  <2>1. Inbox("S") \in Seq(Messages) /\ Inbox("V") \in Seq(Messages)
    BY <1>t DEF Inbox
  <2> QED BY <1>t, <2>1, DeliveredKept
<1>n. \A x \in Members : \A n \in Notices(x) : n \in Seq(Messages)
  BY NoticesQuiet, QuietFacts
<1>1. CASE ServerSends
  <2>1. PICK i \in {1} \cap DOMAIN server.requestQ :
           /\ SrvSend(server.requestQ[i])
           /\ \E re \in Reactions("S", server.requestQ[i]) :
                /\ relay' = re.relay
                /\ serverIn' = Delivered("S", re.self)
                /\ viewerIn' = Delivered("V", re.peer)
    BY <1>1 DEF ServerSends
  <2> DEFINE m == server.requestQ[i]
  <2>2. PICK re \in Reactions("S", m) :
                /\ relay' = re.relay
                /\ serverIn' = Delivered("S", re.self)
                /\ viewerIn' = Delivered("V", re.peer)
    BY <2>1
  <2>3. m \in SharerRequests
    BY <2>1, ElementOfSeq, LenProperties DEF RoomInv, SharerInv
  <2>4. m \in Messages /\ m.type \in RequestTypes
    BY <2>3 DEF SharerRequests
  <2> HIDE DEF m
  <2>5. /\ RelayKept(re.relay) /\ re.self \in Seq(Messages)
        /\ \/ re.peer \in Seq(Notes)
           \/ Closing(re.peer)
           \/ re.peer = <<m>>
    BY <1>t, <2>4, SharerReaction
  <2>6. re.peer \in Seq(Messages)
    <3>1. CASE re.peer \in Seq(Notes)
      BY <3>1, QuietFacts
    <3>2. CASE Closing(re.peer)
      BY <3>2, QuietFacts, ClosingQuiet
    <3>3. CASE re.peer = <<m>>
      BY <2>4, <3>3
    <3> QED BY <2>5, <3>1, <3>2, <3>3
  <2>7. server' = [server EXCEPT !.requestQ = Tail(server.requestQ)]
        /\ server.requestQ # << >>
    BY <2>1 DEF SrvSend
  <2>8. /\ Tail(server.requestQ) \in Seq(Messages)
        /\ Len(Tail(server.requestQ)) <= Len(server.requestQ)
    BY <1>t, <2>7, TailKept
  <2>9. SrvInv'
    <3> DEFINE q == Tail(server.requestQ)
    <3>1. server' = [server EXCEPT !.conn = server.conn, !.requestQ = q]
      BY <1>t, <2>7 DEF SrvInv, SrvTypeOK, ServerFields
    <3>2. serverIn' \in Seq(Messages)
      BY <1>i, <2>2, <2>5
    <3> HIDE DEF q
    <3>3. q \in Seq(Messages) /\ Len(q) <= Len(server.requestQ)
      BY <2>8 DEF q
    <3> QED BY <1>t, <3>1, <3>2, <3>3, SrvShortenedInv
  <2>10. viewerIn' \in Seq(Messages) /\ viewer' = viewer
    BY <1>1, <1>i, <2>2, <2>6 DEF ServerSends
  <2>11. VwrInv'
    BY <1>t, <2>10, VwrInboxInv
  <2>12. RelayKept(relay') /\ UNCHANGED <<ui, breaks>>
    BY <1>1, <2>2, <2>5 DEF ServerSends
  <2> QED BY <1>t, <2>9, <2>11, <2>12, TypedParts DEF ui
<1>2. CASE ViewerSends
  <2>1. PICK i \in {1} \cap DOMAIN viewer.requestQ :
           /\ VwrSend(viewer.requestQ[i])
           /\ \E re \in Reactions("V", viewer.requestQ[i]) :
                /\ relay' = re.relay
                /\ viewerIn' = Delivered("V", re.self)
                /\ serverIn' = Delivered("S", re.peer)
    BY <1>2 DEF ViewerSends
  <2> DEFINE m == viewer.requestQ[i]
  <2>2. PICK re \in Reactions("V", m) :
                /\ relay' = re.relay
                /\ viewerIn' = Delivered("V", re.self)
                /\ serverIn' = Delivered("S", re.peer)
    BY <2>1
  <2>3. PICK c \in Rooms \cup {0} : Session(c)
    BY DEF RoomInv
  <2>4. m \in ViewerRequests(c)
    BY <2>1, <2>3, ElementOfSeq, LenProperties DEF Session
  <2>5. m \in Messages /\ m.type \in RequestTypes
    BY <2>4 DEF ViewerRequests
  <2> HIDE DEF m
  <2>6. /\ RelayKept(re.relay)
        /\ \/ \E r \in Rooms : re.self = <<FromRelay("CreateRoomRsp", r, 0)>>
           \/ re.self \in Seq(PlainAnswers)
        /\ re.peer \in Seq(Undecided) \/ Closing(re.peer)
    BY <1>t, <2>5, ViewerReaction
  <2>7. re.peer \in Seq(Messages)
    BY <2>6, QuietFacts, ClosingQuiet, SeqMonotonic DEF Undecided
  <2>8. re.self \in Seq(Messages)
    <3>1. CASE \E r \in Rooms : re.self = <<FromRelay("CreateRoomRsp", r, 0)>>
      <4>1. PICK r \in Rooms : re.self = <<FromRelay("CreateRoomRsp", r, 0)>>
        BY <3>1
      <4>2. FromRelay("CreateRoomRsp", r, 0) \in Messages
        BY RelayMessages
      <4> QED BY <4>1, <4>2
    <3>2. CASE re.self \in Seq(PlainAnswers)
      BY <3>2, SeqMonotonic DEF PlainAnswers
    <3> QED BY <2>6, <3>1, <3>2
  <2>9. viewer' = [viewer EXCEPT !.requestQ = Tail(viewer.requestQ)]
        /\ viewer.requestQ # << >>
    BY <2>1 DEF VwrSend
  <2>10. /\ Tail(viewer.requestQ) \in Seq(Messages)
         /\ Len(Tail(viewer.requestQ)) <= Len(viewer.requestQ)
    BY <1>t, <2>9, TailKept
  <2>11. VwrInv'
    <3> DEFINE q == Tail(viewer.requestQ)
    <3>1. viewer' = [viewer EXCEPT !.conn = viewer.conn, !.requestQ = q]
      BY <1>t, <2>9 DEF VwrInv, VwrTypeOK, ViewerFields
    <3>2. viewerIn' \in Seq(Messages)
      BY <1>i, <2>2, <2>8
    <3> HIDE DEF q
    <3>3. q \in Seq(Messages) /\ Len(q) <= Len(viewer.requestQ)
      BY <2>10 DEF q
    <3> QED BY <1>t, <3>1, <3>2, <3>3, VwrShortenedInv
  <2>12. serverIn' \in Seq(Messages) /\ server' = server
    BY <1>2, <1>i, <2>2, <2>7 DEF ViewerSends
  <2>13. SrvInv'
    BY <1>t, <2>12, SrvInboxInv
  <2>14. RelayKept(relay') /\ UNCHANGED <<ui, breaks>>
    BY <1>2, <2>2, <2>6 DEF ViewerSends
  <2> QED BY <1>t, <2>11, <2>13, <2>14, TypedParts DEF ui
<1>3. CASE ServerHandles \/ ServerDetects
  <2>1. SrvInv'
    BY <1>3, <1>t, HandlerInv, ThreadInv DEF ServerHandles, ServerDetects
  <2>2. UNCHANGED <<viewer, viewerIn, relay, ui, breaks>>
    BY <1>3 DEF ServerHandles, ServerDetects
  <2>3. VwrInv'
    BY <1>t, <2>2, VwrInboxInv
  <2> QED BY <1>t, <2>1, <2>2, <2>3, TypedParts DEF ui
<1>4. CASE ViewerHandles \/ ViewerDetects
  <2>1. VwrInv'
    BY <1>4, <1>t, VwrHandlerInv, VwrThreadInv DEF ViewerHandles, ViewerDetects
  <2>2. UNCHANGED <<server, serverIn, relay, ui, breaks>>
    BY <1>4 DEF ViewerHandles, ViewerDetects
  <2>3. SrvInv'
    BY <1>t, <2>2, SrvInboxInv
  <2> QED BY <1>t, <2>1, <2>2, <2>3, TypedParts DEF ui
<1>5. CASE ServerReconnects
  <2>1. PICK n \in Notices("S") : viewerIn' = Delivered("V", n)
    BY <1>5 DEF ServerReconnects
  <2>2. SrvInv'
    BY <1>5, <1>t, ThreadInv DEF ServerReconnects
  <2>3. VwrInv'
    BY <1>5, <1>t, <1>i, <1>n, <2>1, VwrInboxInv DEF ServerReconnects
  <2>4. RelayKept(relay') /\ UNCHANGED <<ui, breaks>>
    BY <1>5, <1>t, ForgottenKept DEF ServerReconnects
  <2> QED BY <1>t, <2>2, <2>3, <2>4, TypedParts DEF ui
<1>6. CASE ViewerReconnects
  <2>1. PICK n \in Notices("V") : serverIn' = Delivered("S", n)
    BY <1>6 DEF ViewerReconnects
  <2>2. VwrInv'
    BY <1>6, <1>t, VwrThreadInv DEF ViewerReconnects
  <2>3. SrvInv'
    BY <1>6, <1>t, <1>i, <1>n, <2>1, SrvInboxInv DEF ViewerReconnects
  <2>4. RelayKept(relay') /\ UNCHANGED <<ui, breaks>>
    BY <1>6, <1>t, ForgottenKept DEF ViewerReconnects
  <2> QED BY <1>t, <2>2, <2>3, <2>4, TypedParts DEF ui
<1> QED BY <1>1, <1>2, <1>3, <1>4, <1>5, <1>6 DEF Threads

LEMMA TypedNetwork == RoomInv /\ Network => Typed'
<1> SUFFICES ASSUME RoomInv, Network PROVE Typed'
  OBVIOUS
<1>t. /\ Typed /\ SrvInv /\ VwrInv /\ relay \in Relays /\ Handed
      /\ accepting \in Rooms \cup {0} /\ accepted \subseteq relay.used
      /\ joining \in BOOLEAN /\ requesting \in BOOLEAN /\ breaks \in 0 .. MaxBreaks
      /\ serverIn \in Seq(Messages) /\ viewerIn \in Seq(Messages)
      /\ server.requestQ \in Seq(Messages) /\ viewer.requestQ \in Seq(Messages)
      /\ "S" \in Members /\ "V" \in Members /\ << >> \in Seq(Messages)
  BY DEF RoomInv, Typed, SrvInv, SrvTypeOK, ServerFields, VwrInv, VwrTypeOK, ViewerFields,
         Members
<1>i. \A s \in Seq(Messages) : /\ Delivered("S", s) \in Seq(Messages)
                               /\ Delivered("V", s) \in Seq(Messages)
  <2>1. Inbox("S") \in Seq(Messages) /\ Inbox("V") \in Seq(Messages)
    BY <1>t DEF Inbox
  <2> QED BY <1>t, <2>1, DeliveredKept
<1>n. \A x \in Members : \A n \in Notices(x) : n \in Seq(Messages)
  BY NoticesQuiet, QuietFacts
<1>1. CASE ServerBreaks
  <2>1. PICK lost \in 0 .. Len(server.requestQ) :
          server' = [server EXCEPT !.conn = "down",
                       !.requestQ = SubSeq(server.requestQ, lost + 1, Len(server.requestQ))]
    BY <1>1 DEF ServerBreaks
  <2> DEFINE q == SubSeq(server.requestQ, lost + 1, Len(server.requestQ))
  <2>2. q \in Seq(Messages) /\ Len(q) <= Len(server.requestQ)
    BY <1>t, Shortened
  <2>3. server' = [server EXCEPT !.conn = "down", !.requestQ = q] /\ serverIn' = << >>
    BY <1>1, <2>1 DEF ServerBreaks
  <2> HIDE DEF q
  <2>4. SrvInv'
    BY <1>t, <2>2, <2>3, Names, SrvShortenedInv
  <2>5. VwrInv'
    BY <1>1, <1>t, VwrInboxInv DEF ServerBreaks
  <2>6. breaks' \in 0 .. MaxBreaks
    BY <1>1, <1>t, ShareRoomAssumption DEF ServerBreaks
  <2> QED BY <1>1, <1>t, <2>4, <2>5, <2>6, TypedParts DEF ServerBreaks, ui
<1>2. CASE ViewerBreaks
  <2>1. PICK lost \in 0 .. Len(viewer.requestQ) :
          viewer' = [viewer EXCEPT !.conn = "down",
                       !.requestQ = SubSeq(viewer.requestQ, lost + 1, Len(viewer.requestQ))]
    BY <1>2 DEF ViewerBreaks
  <2> DEFINE q == SubSeq(viewer.requestQ, lost + 1, Len(viewer.requestQ))
  <2>2. q \in Seq(Messages) /\ Len(q) <= Len(viewer.requestQ)
    BY <1>t, Shortened
  <2>3. viewer' = [viewer EXCEPT !.conn = "down", !.requestQ = q] /\ viewerIn' = << >>
    BY <1>2, <2>1 DEF ViewerBreaks
  <2> HIDE DEF q
  <2>4. VwrInv'
    BY <1>t, <2>2, <2>3, Names, VwrShortenedInv
  <2>5. SrvInv'
    BY <1>2, <1>t, SrvInboxInv DEF ViewerBreaks
  <2>6. breaks' \in 0 .. MaxBreaks
    BY <1>2, <1>t, ShareRoomAssumption DEF ViewerBreaks
  <2> QED BY <1>2, <1>t, <2>4, <2>5, <2>6, TypedParts DEF ViewerBreaks, ui
<1>3. CASE RelayDrops
  <2>1. PICK x \in Members :
          /\ relay' = Forgotten(x)
          /\ \E n \in Notices(x) :
               IF x = "S" THEN viewerIn' = Delivered("V", n) /\ UNCHANGED serverIn
                          ELSE serverIn' = Delivered("S", n) /\ UNCHANGED viewerIn
    BY <1>3 DEF RelayDrops
  <2>2. serverIn' \in Seq(Messages) /\ viewerIn' \in Seq(Messages)
    BY <1>t, <1>i, <1>n, <2>1
  <2>3. SrvInv' /\ VwrInv'
    BY <1>3, <1>t, <2>2, SrvInboxInv, VwrInboxInv DEF RelayDrops
  <2>4. RelayKept(relay')
    BY <1>t, <2>1, ForgottenKept
  <2> QED BY <1>3, <1>t, <2>3, <2>4, TypedParts DEF RelayDrops, ui
<1>4. CASE RelayCloses
  <2> DEFINE told(x, r) == IF x \in relay.members[r]
                             THEN <<FromRelay("RoomClosed", r, 0)>> ELSE << >>
  <2>1. PICK r \in Rooms : /\ relay' = [relay EXCEPT !.members[r] = {}]
                           /\ serverIn' = Delivered("S", told("S", r))
                           /\ viewerIn' = Delivered("V", told("V", r))
    BY <1>4 DEF RelayCloses
  <2>2. FromRelay("RoomClosed", r, 0) \in Messages
    BY RelayMessages
  <2>3. told("S", r) \in Seq(Messages) /\ told("V", r) \in Seq(Messages)
    BY <1>t, <2>2
  <2> HIDE DEF told
  <2>4. SrvInv' /\ VwrInv'
    BY <1>4, <1>t, <1>i, <2>1, <2>3, SrvInboxInv, VwrInboxInv DEF RelayCloses
  <2>5. RelayKept(relay')
    BY <1>t, <2>1, ClosedKept
  <2> QED BY <1>4, <1>t, <2>4, <2>5, TypedParts DEF RelayCloses, ui
<1> QED BY <1>1, <1>2, <1>3, <1>4 DEF Network

-----------------------------------------------------------------------------
(* The sharer's part *)

(* The rooms joined stay joined; what they grow by is the room of the       *)
(* request being accepted, which was not one of them.                       *)
LEMMA RoomsJoinedGrow ==
  ASSUME RoomInv, Next
  PROVE  /\ \/ AcceptJoin /\ RoomsJoined' = RoomsJoined \cup {accepting}
            \/ ~AcceptJoin /\ RoomsJoined' = RoomsJoined
         /\ RoomsJoined \subseteq RoomsJoined'
<1>0. Typed /\ joining \in BOOLEAN /\ (joining => accepting \in accepted)
  BY DEF RoomInv, Typed, SharerInv
<1>1. CASE AcceptInit
  <2>1. /\ ~joining /\ joining' = TRUE /\ ~AcceptJoin
        /\ \E r \in relay.used \ accepted : accepting' = r /\ accepted' = accepted \cup {r}
    BY <1>1 DEF AcceptInit, AcceptJoin
  <2>2. RoomsJoined = accepted
    BY <2>1 DEF RoomsJoined
  <2>3. RoomsJoined' = accepted' \ {accepting'}
    BY <2>1 DEF RoomsJoined
  <2> QED BY <2>1, <2>2, <2>3
<1>2. CASE AcceptJoin
  <2>1. joining /\ ~joining' /\ accepted' = accepted
    BY <1>2 DEF AcceptJoin
  <2>2. RoomsJoined = accepted \ {accepting} /\ RoomsJoined' = accepted
    BY <2>1 DEF RoomsJoined
  <2> QED BY <1>0, <1>2, <2>1, <2>2
<1>3. CASE ~AcceptInit /\ ~AcceptJoin
  <2>1. accepted' = accepted /\ joining' = joining /\ accepting' = accepting
    BY <1>3 DEF Next, Calls, Threads, Network, RequestInit, RequestCreate, ServerQuits,
       ViewerQuits, ServerUninit, ViewerUninit, ServerControl, ViewerControl, ServerSends,
       ViewerSends, ServerHandles, ViewerHandles, ServerDetects, ViewerDetects,
       ServerReconnects, ViewerReconnects, ServerBreaks, ViewerBreaks, RelayDrops,
       RelayCloses, ui
  <2> QED BY <1>3, <2>1 DEF RoomsJoined
<1> QED BY <1>1, <1>2, <1>3

LEMMA SharerQueueKept ==
  ASSUME RoomsJoined \subseteq RoomsJoined', NEW q \in Seq(SharerRequests)
  PROVE  q \in Seq(SharerRequests')
<1>1. SharerRequests \subseteq SharerRequests'
  BY DEF SharerRequests
<1> QED BY <1>1, SeqMonotonic

(* A step that leaves the sharer's room and queue, or shortens the queue.   *)
LEMMA SharerSame ==
  ASSUME SharerInv, RoomsJoined \subseteq RoomsJoined', joining' => accepting' \in accepted',
         server'.room \in {server.room, 0},
         \/ server'.requestQ = server.requestQ
         \/ server.requestQ # << >> /\ server'.requestQ = Tail(server.requestQ)
         \/ \E lost \in 0 .. Len(server.requestQ) :
              server'.requestQ = SubSeq(server.requestQ, lost + 1, Len(server.requestQ)),
         server'.input = "default" /\ server'.rc # "ReqControling"
           => server.input = "default" /\ server.rc # "ReqControling"
  PROVE  SharerInv'
<1>1. ASSUME NEW M, server.requestQ \in Seq(M)
      PROVE  server'.requestQ \in Seq(M)
  <2>1. CASE server.requestQ # << >> /\ server'.requestQ = Tail(server.requestQ)
    BY <1>1, <2>1, TailKept
  <2>2. CASE \E lost \in 0 .. Len(server.requestQ) :
               server'.requestQ = SubSeq(server.requestQ, lost + 1, Len(server.requestQ))
    BY <1>1, <2>2, CutKept
  <2> QED BY <1>1, <2>1, <2>2
<1>2. server'.requestQ \in Seq(SharerRequests)
  BY <1>1 DEF SharerInv
<1>3. server'.requestQ \in Seq(SharerRequests')
  BY <1>2, SharerQueueKept
<1>4. server'.room \in RoomsJoined' \cup {-1, 0}
  BY DEF SharerInv
<1>5. server'.input = "default" /\ server'.rc # "ReqControling"
        => server'.requestQ \in Seq(Ungranting')
  <2>1. Ungranting' = Ungranting
    BY DEF Ungranting, Granting
  <2> QED BY <1>1, <2>1 DEF SharerInv
<1> QED BY <1>3, <1>4, <1>5 DEF SharerInv

(* A step that queues message m.                                            *)
LEMMA SharerAppends ==
  ASSUME SharerInv, RoomsJoined \subseteq RoomsJoined', joining' => accepting' \in accepted',
         NEW m \in Messages, m.type \in RequestTypes, m.room \in RoomsJoined' \cup {-1, 0},
         server'.room \in RoomsJoined' \cup {-1, 0},
         server'.requestQ = Append(server.requestQ, m),
         \/ ~Granting(m) /\ server'.input = server.input /\ server'.rc = server.rc
         \/ server'.input # "default" \/ server'.rc = "ReqControling"
  PROVE  SharerInv'
<1>1. m \in SharerRequests'
  BY DEF SharerRequests
<1>2. server.requestQ \in Seq(SharerRequests')
  BY SharerQueueKept DEF SharerInv
<1>3. server'.requestQ \in Seq(SharerRequests')
  BY <1>1, <1>2, AppendKept
<1>4. server'.input = "default" /\ server'.rc # "ReqControling"
        => server'.requestQ \in Seq(Ungranting')
  <2>1. Ungranting' = Ungranting
    BY DEF Ungranting, Granting
  <2>2. SUFFICES ASSUME server'.input = "default", server'.rc # "ReqControling"
                 PROVE  server'.requestQ \in Seq(Ungranting)
    BY <2>1
  <2>3. server.requestQ \in Seq(Ungranting)
    BY <2>2 DEF SharerInv
  <2>4. m \in Ungranting
    BY <2>2 DEF Ungranting
  <2> QED BY <2>3, <2>4, AppendKept
<1> QED BY <1>3, <1>4 DEF SharerInv

LEMMA SharerStep == RoomInv /\ Next => SharerInv'
<1> SUFFICES ASSUME RoomInv, Next PROVE SharerInv'
  OBVIOUS
<1>t. /\ SharerInv /\ SrvInv /\ server \in ServerFields /\ server.room \in RoomIds
      /\ SrvTypeOK /\ joining \in BOOLEAN
      /\ accepting \in Rooms \cup {0} /\ accepted \subseteq Rooms
  BY DEF RoomInv, Typed, SrvInv, SrvTypeOK, ServerFields, Relays
<1>g. RoomsJoined \subseteq RoomsJoined'
  BY RoomsJoinedGrow
<1>j. joining => accepting \in accepted
  BY <1>t DEF SharerInv
<1>r. server.room \in RoomsJoined' \cup {-1, 0}
  BY <1>t, <1>g DEF SharerInv
<1>1. CASE AcceptInit
  <2>1. accepting' \in accepted'
    BY <1>1 DEF AcceptInit
  <2>2. server'.room = server.room /\ server'.requestQ = server.requestQ
        /\ server'.input = server.input /\ server'.rc = server.rc
    BY <1>1, <1>t DEF AcceptInit, initServer, ServerFields
  <2> QED BY <1>t, <1>g, <2>1, <2>2, SharerSame
<1>2. CASE AcceptJoin
  <2>1. ~joining' /\ accepting \in Rooms /\ accepting \in RoomsJoined'
    <3>1. joining /\ joining' = FALSE
      BY <1>2 DEF AcceptJoin
    <3> QED BY <1>2, <1>t, <1>j, <3>1, RoomsJoinedGrow
  <2>2. CASE UNCHANGED <<server, serverIn>>
    BY <1>t, <1>g, <2>1, <2>2, SharerSame
  <2>3. CASE joinShareRoom(accepting)
    <3> DEFINE m == Msg("JoinRoom", "VncServer", accepting, 0)
    <3>1. m \in Messages
      BY <1>t, <2>1, SrvMessages, Bounds, VncAssumption
    <3>2. m.type = "JoinRoom" /\ m.room = accepting
      BY DEF Msg
    <3>3. server' = [server EXCEPT !.state = "Joining", !.room = accepting,
                                   !.requestQ = Append(server.requestQ, m)]
      BY <2>3 DEF joinShareRoom, Joined
    <3> HIDE DEF m
    <3>4. /\ server'.room = accepting /\ server'.requestQ = Append(server.requestQ, m)
          /\ server'.input = server.input /\ server'.rc = server.rc
      BY <1>t, <3>3 DEF ServerFields
    <3>5. ~Granting(m) /\ m.type \in RequestTypes
      BY <3>2 DEF Granting, RequestTypes
    <3> QED BY <1>t, <1>g, <2>1, <3>1, <3>2, <3>4, <3>5, SharerAppends
  <2> QED BY <1>2, <2>2, <2>3 DEF AcceptJoin
<1>3. CASE ServerUninit
  <2>1. server'.room = server.room /\ server'.requestQ = << >> /\ UNCHANGED ui
    BY <1>3, <1>t DEF ServerUninit, uninitServer, ServerFields
  <2>2. << >> \in Seq(SharerRequests') /\ << >> \in Seq(Ungranting')
    OBVIOUS
  <2> QED BY <1>t, <1>r, <1>j, <2>1, <2>2 DEF SharerInv, ui
<1>4. CASE ServerQuits
  <2> DEFINE m == Msg("QuitRoom", "VncServer", server.room, 0)
  <2>1. m \in Messages
    BY <1>t, SrvMessages
  <2>2. m.type = "QuitRoom" /\ m.room = server.room
    BY DEF Msg
  <2>3. server' = [server EXCEPT !.requestQ = Append(server.requestQ, m)] /\ UNCHANGED ui
    BY <1>4 DEF ServerQuits, quitShareRoom, SrvRequest
  <2> HIDE DEF m
  <2>4. /\ server'.room = server.room /\ server'.requestQ = Append(server.requestQ, m)
        /\ server'.input = server.input /\ server'.rc = server.rc
    BY <1>t, <2>3 DEF ServerFields
  <2>5. ~Granting(m) /\ m.type \in RequestTypes
    BY <2>2 DEF Granting, RequestTypes
  <2> QED BY <1>t, <1>g, <1>j, <1>r, <2>1, <2>2, <2>3, <2>4, <2>5, SharerAppends DEF ui
<1>5. CASE ServerControl
  <2>1. /\ server'.room = server.room
        /\ server'.input # "default" \/ server'.rc = "ReqControling"
        /\ \E m \in Messages : /\ server'.requestQ = Append(server.requestQ, m)
                               /\ m.room = server.room
                               /\ m.type \in {"ReqControl", "ControlRsp"}
    BY <1>5, <1>t, SharerControlFacts DEF ServerControl
  <2>2. PICK m \in Messages : /\ server'.requestQ = Append(server.requestQ, m)
                              /\ m.room = server.room
                              /\ m.type \in {"ReqControl", "ControlRsp"}
    BY <2>1
  <2>3. m.type \in RequestTypes
    BY <2>2 DEF RequestTypes
  <2>4. UNCHANGED ui
    BY <1>5 DEF ServerControl
  <2> QED BY <1>t, <1>g, <1>j, <1>r, <2>1, <2>2, <2>3, <2>4, SharerAppends DEF ui
<1>6. CASE ServerSends
  <2>1. /\ server.requestQ # << >> /\ UNCHANGED ui
        /\ server' = [server EXCEPT !.requestQ = Tail(server.requestQ)]
    BY <1>6 DEF ServerSends, SrvSend
  <2>2. /\ server'.requestQ = Tail(server.requestQ) /\ server'.room = server.room
        /\ server'.input = server.input /\ server'.rc = server.rc
    BY <1>t, <2>1 DEF ServerFields
  <2> QED BY <1>t, <1>g, <1>j, <2>1, <2>2, SharerSame DEF ui
<1>7. CASE ServerHandles
  <2>1. /\ server'.room \in {server.room, 0}
        /\ \/ server'.requestQ = server.requestQ
           \/ server'.requestQ =
                Append(server.requestQ, Msg("QuitRoom", "VncServer", server.room, 0))
        /\ server'.input = "default" /\ server'.rc # "ReqControling"
             => server.input = "default" /\ server.rc # "ReqControling"
        /\ UNCHANGED ui
    BY <1>7, <1>t, SharerHandleFacts DEF ServerHandles
  <2>2. CASE server'.requestQ = server.requestQ
    BY <1>t, <1>g, <1>j, <2>1, <2>2, SharerSame DEF ui
  <2>3. CASE server'.requestQ =
                Append(server.requestQ, Msg("QuitRoom", "VncServer", server.room, 0))
    <3> DEFINE m == Msg("QuitRoom", "VncServer", server.room, 0)
    <3>1. m \in Messages
      BY <1>t, SrvMessages
    <3>2. m.type = "QuitRoom" /\ m.room = server.room
      BY DEF Msg
    <3>3. server'.requestQ = Append(server.requestQ, m)
      BY <2>3
    <3> HIDE DEF m
    <3>4. m \in SharerRequests /\ m \in Ungranting
      BY <1>t, <3>1, <3>2 DEF SharerInv, SharerRequests, Ungranting, Granting, RequestTypes
    <3>5. server'.requestQ \in Seq(SharerRequests)
      BY <1>t, <3>3, <3>4, AppendKept DEF SharerInv
    <3>6. server'.requestQ \in Seq(SharerRequests')
      BY <1>g, <3>5, SharerQueueKept
    <3>7. Ungranting' = Ungranting
      BY DEF Ungranting, Granting
    <3>8. server'.input = "default" /\ server'.rc # "ReqControling"
            => server'.requestQ \in Seq(Ungranting')
      BY <1>t, <2>1, <3>3, <3>4, <3>7, AppendKept DEF SharerInv
    <3>9. server'.room \in RoomsJoined' \cup {-1, 0}
      BY <1>r, <2>1
    <3> QED BY <1>j, <2>1, <3>6, <3>8, <3>9 DEF SharerInv, ui
  <2> QED BY <2>1, <2>2, <2>3
<1>8. CASE ServerBreaks
  <2>1. PICK lost \in 0 .. Len(server.requestQ) :
          server' = [server EXCEPT !.conn = "down",
                       !.requestQ = SubSeq(server.requestQ, lost + 1, Len(server.requestQ))]
    BY <1>8 DEF ServerBreaks
  <2>2. /\ server'.requestQ = SubSeq(server.requestQ, lost + 1, Len(server.requestQ))
        /\ server'.room = server.room
        /\ server'.input = server.input /\ server'.rc = server.rc
    BY <1>t, <2>1 DEF ServerFields
  <2>3. UNCHANGED ui
    BY <1>8 DEF ServerBreaks
  <2> QED BY <1>t, <1>g, <1>j, <2>2, <2>3, SharerSame DEF ui
<1>9. CASE ServerDetects
  <2>1. /\ server'.requestQ = server.requestQ /\ server'.room = server.room
        /\ server'.input = server.input /\ server'.rc = server.rc /\ UNCHANGED ui
    BY <1>9, <1>t DEF ServerDetects, SrvDisconnected, ServerFields
  <2> QED BY <1>t, <1>g, <1>j, <2>1, SharerSame DEF ui
<1>10. CASE ServerReconnects
  <2>1. /\ server'.rc = server.rc /\ server'.input = server.input
        /\ server'.room = server.room /\ UNCHANGED ui
        /\ \/ server'.requestQ = server.requestQ
           \/ server'.requestQ =
                Append(server.requestQ, Msg("JoinRoom", "VncServer", server.room, 0))
    BY <1>10, <1>t, SharerReconnectFacts DEF ServerReconnects
  <2>2. CASE server'.requestQ = server.requestQ
    BY <1>t, <1>g, <1>j, <2>1, <2>2, SharerSame DEF ui
  <2>3. CASE server'.requestQ =
                Append(server.requestQ, Msg("JoinRoom", "VncServer", server.room, 0))
    <3> DEFINE m == Msg("JoinRoom", "VncServer", server.room, 0)
    <3>1. m \in Messages
      BY <1>t, SrvMessages
    <3>2. m.type = "JoinRoom" /\ m.room = server.room
      BY DEF Msg
    <3>3. server'.requestQ = Append(server.requestQ, m)
      BY <2>3
    <3> HIDE DEF m
    <3>4. ~Granting(m) /\ m.type \in RequestTypes
      BY <3>2 DEF Granting, RequestTypes
    <3> QED BY <1>t, <1>g, <1>j, <1>r, <2>1, <3>1, <3>2, <3>3, <3>4, SharerAppends DEF ui
  <2> QED BY <2>1, <2>2, <2>3
<1>11. CASE server' = server /\ accepting' = accepting /\ accepted' = accepted /\ joining' = joining
  BY <1>t, <1>g, <1>j, <1>11, SharerSame
<1>12. \/ AcceptInit \/ AcceptJoin \/ ServerUninit \/ ServerQuits \/ ServerControl
       \/ ServerSends \/ ServerHandles \/ ServerBreaks \/ ServerDetects \/ ServerReconnects
       \/ server' = server /\ accepting' = accepting /\ accepted' = accepted /\ joining' = joining
  BY DEF Next, Calls, Threads, Network, RequestInit, RequestCreate, ViewerQuits,
     ViewerUninit, ViewerControl, ViewerSends, ViewerHandles, ViewerDetects,
     ViewerReconnects, ViewerBreaks, RelayDrops, RelayCloses, ui
<1> QED BY <1>1, <1>2, <1>3, <1>4, <1>5, <1>6, <1>7, <1>8, <1>9, <1>10, <1>11, <1>12

-----------------------------------------------------------------------------
(* The viewer's part *)

(* The viewer's steps that do not touch its endpoint. *)
LEMMA ViewerActions ==
  ASSUME Next
  PROVE  \/ RequestInit \/ RequestCreate \/ ViewerQuits \/ ViewerUninit \/ ViewerControl
         \/ ViewerSends \/ ViewerHandles \/ ViewerBreaks \/ ViewerDetects \/ ViewerReconnects
         \/ viewer' = viewer /\ requesting' = requesting
BY DEF Next, Calls, Threads, Network, AcceptInit, AcceptJoin, ServerQuits, ServerUninit,
   ServerControl, ServerSends, ServerHandles, ServerDetects, ServerReconnects, ServerBreaks,
   RelayDrops, RelayCloses, ui

(* What each of them does to its queue, its state and its room. *)
LEMMA CreateFacts ==
  ASSUME VwrInv, vwrCreateShareRoom
  PROVE  /\ Msg("CreateRoom", "VncViewer", 0, 0) \in Messages
         /\ viewer'.requestQ = Append(viewer.requestQ, Msg("CreateRoom", "VncViewer", 0, 0))
         /\ viewer'.state = "RoomCreating" /\ viewer'.room = viewer.room
         /\ viewer'.rc = "Normal" /\ viewerIn' = viewerIn
         /\ viewer'.conn = viewer.conn /\ viewer'.reconnecting = viewer.reconnecting
         /\ viewer.state = "Init"
<1>1. viewer \in ViewerFields /\ VwrTypeOK
  BY DEF VwrInv, VwrTypeOK
<1> DEFINE m == Msg("CreateRoom", "VncViewer", 0, 0)
<1>2. m \in Messages
  BY <1>1, VwrMessages
<1>3. /\ viewer' = [viewer EXCEPT !.state = "RoomCreating", !.rc = "Normal",
                                  !.requestQ = Append(viewer.requestQ, m)]
      /\ viewerIn' = viewerIn /\ viewer.state = "Init"
  BY DEF vwrCreateShareRoom, VwrRequest
<1> HIDE DEF m
<1>4. /\ viewer'.requestQ = Append(viewer.requestQ, m)
      /\ viewer'.state = "RoomCreating" /\ viewer'.room = viewer.room /\ viewer'.rc = "Normal"
      /\ viewer'.conn = viewer.conn /\ viewer'.reconnecting = viewer.reconnecting
  BY <1>1, <1>3 DEF ViewerFields
<1> QED BY <1>2, <1>3, <1>4 DEF m

LEMMA QuitFacts ==
  ASSUME VwrInv, vwrQuitShareRoom
  PROVE  /\ viewer'.requestQ =
              Append(viewer.requestQ, Msg("QuitRoom", "VncViewer", viewer.room, 0))
         /\ viewer'.state = "Quiting" /\ viewer'.room = viewer.room
         /\ viewer'.rc = viewer.rc /\ viewerIn' = viewerIn
         /\ viewer'.conn = viewer.conn /\ viewer'.reconnecting = viewer.reconnecting
         /\ viewer.state = "Sharing"
<1>1. viewer \in ViewerFields
  BY DEF VwrInv, VwrTypeOK
<1> DEFINE q == Append(viewer.requestQ, Msg("QuitRoom", "VncViewer", viewer.room, 0))
<1>2. /\ viewer' = [viewer EXCEPT !.state = "Quiting", !.requestQ = q]
      /\ viewerIn' = viewerIn /\ viewer.state = "Sharing"
  BY DEF vwrQuitShareRoom, VwrRequest
<1> HIDE DEF q
<1>3. /\ viewer'.requestQ = q /\ viewer'.state = "Quiting" /\ viewer'.room = viewer.room
      /\ viewer'.conn = viewer.conn /\ viewer'.reconnecting = viewer.reconnecting
      /\ viewer'.rc = viewer.rc
  BY <1>1, <1>2 DEF ViewerFields
<1> QED BY <1>2, <1>3 DEF q

(* Of the messages the viewer's calls and threads queue, only the request   *)
(* to create a room creates one.                                            *)
LEMMA ViewerMessageFacts ==
  ASSUME VwrInv
  PROVE  /\ Msg("QuitRoom", "VncViewer", viewer.room, 0) \in Messages
         /\ Msg("QuitRoom", "VncViewer", viewer.room, 0).type = "QuitRoom"
         /\ Msg("JoinRoom", "VncViewer", viewer.room, 0) \in Messages
         /\ Msg("JoinRoom", "VncViewer", viewer.room, 0).type = "JoinRoom"
         /\ Msg("JoinRoom", "VncViewer", viewer.room, 0).room = viewer.room
         /\ Msg("CreateRoom", "VncViewer", 0, 0).type = "CreateRoom"
<1>1. VwrTypeOK /\ viewer.room \in RoomIds
  BY DEF VwrInv, VwrTypeOK, ViewerFields
<1>2. /\ Msg("QuitRoom", "VncViewer", viewer.room, 0) \in Messages
      /\ Msg("JoinRoom", "VncViewer", viewer.room, 0) \in Messages
  BY <1>1, VwrMessages
<1> QED BY <1>2 DEF Msg

(* The queue after any step of the viewer's endpoint: emptied, shortened,   *)
(* or with one message more; a request to create a room comes only from     *)
(* RequestCreate.                                                           *)
LEMMA ViewerQueue ==
  ASSUME RoomInv, Next
  PROVE  \/ viewer'.requestQ = viewer.requestQ
         \/ viewer'.requestQ = << >>
         \/ viewer.requestQ # << >> /\ viewer'.requestQ = Tail(viewer.requestQ)
         \/ \E lost \in 0 .. Len(viewer.requestQ) :
              viewer'.requestQ = SubSeq(viewer.requestQ, lost + 1, Len(viewer.requestQ))
         \/ \E m \in Messages :
              /\ viewer'.requestQ = Append(viewer.requestQ, m)
              /\ \/ m.type \in {"ReqControl", "ControlRsp"} /\ ViewerControl
                 \/ m.type = "QuitRoom" /\ (ViewerQuits \/ ViewerHandles)
                 \/ m.type = "JoinRoom" /\ m.room = viewer.room /\ ViewerReconnects
                 \/ m.type = "CreateRoom" /\ RequestCreate
<1>t. VwrInv /\ viewer \in ViewerFields
  BY DEF RoomInv, Typed, VwrInv, VwrTypeOK
<1>1. CASE RequestInit
  BY <1>1 DEF RequestInit, initViewer, NewViewer
<1>2. CASE RequestCreate
  BY <1>t, <1>2, CreateFacts, ViewerMessageFacts DEF RequestCreate
<1>3. CASE ViewerQuits
  BY <1>t, <1>3, QuitFacts, ViewerMessageFacts DEF ViewerQuits
<1>4. CASE ViewerUninit
  BY <1>t, <1>4 DEF ViewerUninit, uninitViewer, ViewerFields
<1>5. CASE ViewerControl
  BY <1>t, <1>5, ViewerControlFacts DEF ViewerControl
<1>6. CASE ViewerSends
  <2>1. viewer.requestQ # << >> /\ viewer' = [viewer EXCEPT !.requestQ = Tail(viewer.requestQ)]
    BY <1>6 DEF ViewerSends, VwrSend
  <2> QED BY <1>t, <2>1 DEF ViewerFields
<1>7. CASE ViewerHandles
  BY <1>t, <1>7, ViewerHandleFacts, ViewerMessageFacts DEF ViewerHandles
<1>8. CASE ViewerBreaks
  <2>1. PICK lost \in 0 .. Len(viewer.requestQ) :
          viewer' = [viewer EXCEPT !.conn = "down",
                       !.requestQ = SubSeq(viewer.requestQ, lost + 1, Len(viewer.requestQ))]
    BY <1>8 DEF ViewerBreaks
  <2> QED BY <1>t, <2>1 DEF ViewerFields
<1>9. CASE ViewerDetects
  BY <1>t, <1>9 DEF ViewerDetects, VwrDisconnected, ViewerFields
<1>10. CASE ViewerReconnects
  BY <1>t, <1>10, ViewerReconnectFacts, ViewerMessageFacts DEF ViewerReconnects
<1>11. CASE viewer' = viewer /\ requesting' = requesting
  BY <1>11
<1> QED BY ViewerActions, <1>1, <1>2, <1>3, <1>4, <1>5, <1>6, <1>7, <1>8, <1>9, <1>10, <1>11

(* A request to create a room waits only in a viewer without a room, and    *)
(* only one: RequestCreate is the only step that adds one, to a queue that  *)
(* has none.                                                                *)
LEMMA OneCreateStep == RoomInv /\ Next => OneCreate(viewer'.requestQ)
<1> SUFFICES ASSUME RoomInv, Next PROVE OneCreate(viewer'.requestQ)
  OBVIOUS
<1>t. viewer.requestQ \in Seq(Messages) /\ OneCreate(viewer.requestQ)
  BY DEF RoomInv, Typed, VwrInv, VwrTypeOK, ViewerFields
<1>1. CASE viewer'.requestQ = << >>
  BY <1>1 DEF OneCreate
<1>2. CASE viewer.requestQ # << >> /\ viewer'.requestQ = Tail(viewer.requestQ)
  BY <1>t, <1>2, OneCreateTail
<1>3. CASE \E lost \in 0 .. Len(viewer.requestQ) :
             viewer'.requestQ = SubSeq(viewer.requestQ, lost + 1, Len(viewer.requestQ))
  BY <1>t, <1>3, OneCreateCut
<1>4. ASSUME NEW m \in Messages, viewer'.requestQ = Append(viewer.requestQ, m),
             m.type # "CreateRoom" \/ RequestCreate
      PROVE  OneCreate(viewer'.requestQ)
  <2>1. CASE m.type # "CreateRoom"
    BY <1>t, <1>4, <2>1, OneCreateAppend
  <2>2. CASE RequestCreate
    <3>1. requesting
      BY <2>2 DEF RequestCreate
    <3>2. viewer.requestQ \in Seq(NotCreating)
      BY <3>1 DEF RoomInv, Session
    <3> QED BY <1>t, <1>4, <3>2, OneCreateAppend
  <2> QED BY <1>4, <2>1, <2>2
<1> QED BY <1>t, <1>1, <1>2, <1>3, <1>4, ViewerQueue

(* The viewer counts as sharing only after an answer that named a room the  *)
(* share server handed out.                                                 *)
LEMMA RealRoomStep == RoomInv /\ Next => ViewerSharesRealRoom'
<1> SUFFICES ASSUME RoomInv, Next, viewer'.state \in {"Sharing", "Quiting"}
             PROVE  viewer'.room \in Rooms
  BY DEF ViewerSharesRealRoom
<1>t. /\ VwrInv /\ viewer \in ViewerFields
      /\ (viewer.state \in {"Sharing", "Quiting"} => viewer.room \in Rooms)
  BY DEF RoomInv, Typed, VwrInv, VwrTypeOK, ViewerSharesRealRoom
<1> DEFINE Stay == viewer'.room = viewer.room /\ viewer.state \in {"Sharing", viewer'.state}
<1>s. ASSUME Stay PROVE viewer'.room \in Rooms
  BY <1>s, <1>t
<1>1. CASE RequestInit
  BY <1>1 DEF RequestInit, initViewer, NewViewer
<1>2. CASE RequestCreate
  <2>1. CASE vwrCreateShareRoom
    BY <1>t, <2>1, CreateFacts
  <2>2. CASE UNCHANGED viewer
    BY <1>t, <2>2
  <2> QED BY <1>2, <2>1, <2>2 DEF RequestCreate
<1>3. CASE ViewerQuits
  BY <1>t, <1>3, QuitFacts DEF ViewerQuits
<1>4. CASE ViewerUninit
  BY <1>t, <1>4 DEF ViewerUninit, uninitViewer, ViewerFields
<1>5. CASE ViewerControl
  BY <1>t, <1>5, ViewerControlFacts DEF ViewerControl
<1>6. CASE ViewerSends \/ ViewerBreaks \/ ViewerDetects
  <2>1. viewer'.room = viewer.room /\ viewer'.state = viewer.state
    BY <1>t, <1>6 DEF ViewerSends, VwrSend, ViewerBreaks, ViewerDetects, VwrDisconnected,
                      ViewerFields
  <2> QED BY <1>t, <2>1
<1>7. CASE ViewerHandles
  <2> DEFINE m == Head(viewerIn)
  <2>1. viewerIn # << >> /\ VwrHandle
    BY <1>7 DEF ViewerHandles, VwrHandle
  <2>2. PICK c \in Rooms \cup {0} : Session(c)
    BY DEF RoomInv
  <2>3. m \in Answers(c)
    BY <2>1, <2>2, TailKept DEF Session
  <2>4. /\ m.type = "CreateRoomRsp" /\ m.status = 0 => m.room \in Rooms
        /\ m.type = "JoinRoomRsp" /\ m.status = 0 => m.room \in Rooms
    BY <2>3 DEF Answers
  <2>5. \/ Stay
        \/ m.type = "CreateRoomRsp" /\ m.status = 0 /\ viewer'.room = m.room
        \/ m.type = "JoinRoomRsp" /\ m.status = 0 /\ viewer'.room = m.room
    BY <1>t, <2>1, ViewerHandleFacts
  <2> QED BY <1>s, <2>4, <2>5
<1>8. CASE ViewerReconnects
  BY <1>t, <1>8, ViewerReconnectFacts DEF ViewerReconnects
<1>9. CASE viewer' = viewer
  BY <1>t, <1>9
<1> QED BY ViewerActions, <1>1, <1>2, <1>3, <1>4, <1>5, <1>6, <1>7, <1>8, <1>9

-----------------------------------------------------------------------------
(* The viewer's session *)

(* The viewer's queue asks only for the viewer's own room. *)
LEMMA SessionQueue ==
  ASSUME RoomInv, Next, NEW c, Session(c)
  PROVE  /\ viewer'.requestQ \in Seq(ViewerRequests(c))
         /\ viewer.requestQ \in Seq(NotCreating) /\ ~RequestCreate
              => viewer'.requestQ \in Seq(NotCreating)
<1>0. viewer.requestQ \in Seq(ViewerRequests(c)) /\ viewer.room \in {c, 0, -1}
  BY DEF Session
<1>1. CASE viewer'.requestQ = << >>
  BY <1>1
<1>2. CASE \/ viewer'.requestQ = viewer.requestQ
           \/ viewer.requestQ # << >> /\ viewer'.requestQ = Tail(viewer.requestQ)
           \/ \E lost \in 0 .. Len(viewer.requestQ) :
                viewer'.requestQ = SubSeq(viewer.requestQ, lost + 1, Len(viewer.requestQ))
  <2>1. ASSUME NEW M, viewer.requestQ \in Seq(M)
        PROVE  viewer'.requestQ \in Seq(M)
    <3>1. CASE viewer.requestQ # << >> /\ viewer'.requestQ = Tail(viewer.requestQ)
      BY <2>1, <3>1, TailKept
    <3>2. CASE \E lost \in 0 .. Len(viewer.requestQ) :
                 viewer'.requestQ = SubSeq(viewer.requestQ, lost + 1, Len(viewer.requestQ))
      BY <2>1, <3>2, CutKept
    <3> QED BY <1>2, <2>1, <3>1, <3>2
  <2> QED BY <1>0, <2>1
<1>3. ASSUME NEW m \in Messages, viewer'.requestQ = Append(viewer.requestQ, m),
             \/ m.type \in {"ReqControl", "ControlRsp", "QuitRoom"}
             \/ m.type = "JoinRoom" /\ m.room = viewer.room
             \/ m.type = "CreateRoom" /\ RequestCreate
      PROVE  /\ viewer'.requestQ \in Seq(ViewerRequests(c))
             /\ viewer.requestQ \in Seq(NotCreating) /\ ~RequestCreate
                  => viewer'.requestQ \in Seq(NotCreating)
  <2>1. m \in ViewerRequests(c)
    BY <1>0, <1>3 DEF ViewerRequests, RequestTypes
  <2>2. ~RequestCreate => m \in NotCreating
    BY <1>3 DEF NotCreating
  <2> QED BY <1>0, <1>3, <2>1, <2>2, AppendKept
<1> QED BY <1>1, <1>2, <1>3, ViewerQueue

(* Until the sharer has decided about control in the session, nothing was   *)
(* decided before: the conditions under which Session promises an untouched *)
(* viewer do not come about, they are there from the start.                 *)
NotDecided(c) ==
  /\ c = server.room /\ c = accepting /\ server.state # "UnInit"
  /\ server.input = "default" /\ server.rc # "ReqControling"

LEMMA DecidedOnce ==
  ASSUME RoomInv, Next, NEW c, c \in RoomsJoined, NotDecided(c)'
  PROVE  NotDecided(c)
<1>t. /\ SrvInv /\ server \in ServerFields /\ SharerInv /\ joining \in BOOLEAN
      /\ accepted \subseteq Rooms
  BY DEF RoomInv, Typed, SrvInv, SrvTypeOK, Relays
<1>c. c \in accepted /\ c \in Rooms /\ c # 0 /\ (joining => c # accepting)
  BY <1>t, VncAssumption DEF RoomsJoined
<1>u. /\ c = server'.room /\ c = accepting' /\ server'.state # "UnInit"
      /\ server'.input = "default" /\ server'.rc # "ReqControling"
  BY DEF NotDecided
<1> DEFINE Same == /\ server.room = server'.room /\ accepting' = accepting
                   /\ server.state # "UnInit"
                   /\ server'.input = server.input /\ server'.rc = server.rc
<1>s. Same => NotDecided(c)
  BY <1>u DEF NotDecided
<1>1. CASE AcceptInit
  BY <1>1, <1>c, <1>u DEF AcceptInit
<1>2. CASE AcceptJoin
  BY <1>2, <1>c, <1>u DEF AcceptJoin
<1>3. CASE ServerUninit
  BY <1>3, <1>t, <1>u DEF ServerUninit, uninitServer, ServerFields
<1>4. CASE ServerQuits
  <2>1. Same
    BY <1>4, <1>t DEF ServerQuits, quitShareRoom, ServerFields, ui
  <2> QED BY <1>s, <2>1
<1>5. CASE ServerControl
  BY <1>5, <1>t, <1>u, SharerControlFacts DEF ServerControl
<1>6. CASE ServerHandles
  <2>1. accepting' = accepting /\ SrvHandle
    BY <1>6 DEF ServerHandles, ui
  <2>2. /\ server'.room \in {server.room, 0} /\ server.state # "UnInit"
        /\ server.input = "default" /\ server.rc # "ReqControling"
    BY <1>t, <1>u, <2>1, SharerHandleFacts
  <2> QED BY <1>c, <1>u, <2>1, <2>2 DEF NotDecided
<1>7. CASE ServerSends \/ ServerBreaks \/ ServerDetects
  <2>1. Same
    BY <1>7, <1>t, <1>u DEF ServerSends, SrvSend, ServerBreaks, ServerDetects, SrvDisconnected,
                            SrvRunning, ServerFields, ui
  <2> QED BY <1>s, <2>1
<1>8. CASE ServerReconnects
  <2>1. accepting' = accepting /\ SrvReconnected
    BY <1>8 DEF ServerReconnects, ui
  <2>2. Same
    BY <1>t, <2>1, SharerReconnectFacts
  <2> QED BY <1>s, <2>2
<1>9. CASE server' = server /\ accepting' = accepting
  <2>1. Same
    BY <1>9, <1>u
  <2> QED BY <1>s, <2>1
<1>10. \/ AcceptInit \/ AcceptJoin \/ ServerUninit \/ ServerQuits \/ ServerControl
       \/ ServerSends \/ ServerHandles \/ ServerBreaks \/ ServerDetects \/ ServerReconnects
       \/ server' = server /\ accepting' = accepting
  BY DEF Next, Calls, Threads, Network, RequestInit, RequestCreate, ViewerQuits,
     ViewerUninit, ViewerControl, ViewerSends, ViewerHandles, ViewerDetects,
     ViewerReconnects, ViewerBreaks, RelayDrops, RelayCloses, ui
<1> QED BY <1>1, <1>2, <1>3, <1>4, <1>5, <1>6, <1>7, <1>8, <1>9, <1>10

(* A step that keeps the viewer's room, or brings it into the room it asked *)
(* for, and does not put an untouched viewer in control.                    *)
LEMMA SessionKept ==
  ASSUME RoomInv, Next, NEW c \in Rooms \cup {0}, Session(c), ~RequestCreate,
         \A r \in Rooms : "V" \in relay'.members[r] => r = c \/ "V" \in relay.members[r],
         viewer'.room \in {viewer.room, c, 0}, requesting' => requesting,
         viewerIn' \in Seq(Answers(c)),
         Untouched => Untouched'
  PROVE  Session(c)'
<1>1. viewer'.requestQ \in Seq(ViewerRequests(c))
  BY SessionQueue
<1>2. c # 0 \/ requesting' => viewer'.requestQ \in Seq(NotCreating)
  BY SessionQueue DEF Session
<1>3. RoomsJoined \subseteq RoomsJoined'
  BY RoomsJoinedGrow
<1>4. \A r \in Rooms : "V" \in relay'.members[r] => r = c
  BY DEF Session
<1>5. viewer'.room \in {c, 0, -1}
  BY DEF Session
<1>6. requesting' => c = 0
  BY DEF Session
<1>7. c \notin RoomsJoined' => Untouched'
  BY <1>3 DEF Session
<1>8. /\ c = server'.room /\ c = accepting' /\ server'.state # "UnInit"
      /\ server'.input = "default" /\ server'.rc # "ReqControling"
      => Untouched'
  <2>1. SUFFICES ASSUME NotDecided(c)' PROVE Untouched'
    BY DEF NotDecided
  <2>2. CASE c \notin RoomsJoined
    BY <2>2 DEF Session
  <2>3. CASE c \in RoomsJoined
    <3>1. NotDecided(c)
      BY <2>1, <2>3, DecidedOnce
    <3> QED BY <3>1 DEF NotDecided, Session
  <2> QED BY <2>2, <2>3
<1> QED BY <1>1, <1>2, <1>4, <1>5, <1>6, <1>7, <1>8 DEF Session, ViewerRequests, Answers,
     NotCreating

(* A step of the others that tells the viewer no more than who came, who    *)
(* left and what is closed.                                                 *)
LEMMA SessionQuiet ==
  ASSUME RoomInv, Next, NEW c \in Rooms \cup {0}, Session(c),
         viewer' = viewer, requesting' = requesting,
         relay' = relay \/ NotEntered("V", relay'),
         viewerIn' = viewerIn \/ \E s \in Seq(Quiet) : viewerIn' = Delivered("V", s)
  PROVE  Session(c)'
<1>2. \A r \in Rooms : "V" \in relay'.members[r] => "V" \in relay.members[r]
  BY DEF NotEntered
<1>3. ASSUME NEW M, Quiet \subseteq M, viewerIn \in Seq(M)
      PROVE  viewerIn' \in Seq(M)
  <2>1. CASE viewerIn' = viewerIn
    BY <1>3, <2>1
  <2>2. CASE \E s \in Seq(Quiet) : viewerIn' = Delivered("V", s)
    <3>1. PICK s \in Seq(Quiet) : viewerIn' = Delivered("V", s)
      BY <2>2
    <3>2. s \in Seq(M)
      BY <1>3, SeqMonotonic
    <3>3. Inbox("V") \in Seq(M) /\ "V" \in Members
      BY <1>3 DEF Inbox, Members
    <3> QED BY <3>1, <3>2, <3>3, DeliveredKept
  <2> QED BY <2>1, <2>2
<1>4. viewerIn' \in Seq(Answers(c))
  BY <1>3, QuietFacts DEF Session
<1>5. Untouched => Untouched'
  <2>1. SUFFICES ASSUME Untouched PROVE Untouched'
    OBVIOUS
  <2>2. Ungranting' = Ungranting
    BY DEF Ungranting, Granting
  <2>3. viewerIn' \in Seq(Ungranting)
    BY <1>3, <2>1, QuietFacts DEF Untouched
  <2> QED BY <2>1, <2>2, <2>3 DEF Untouched
<1>6. CASE RequestCreate
  <2>1. viewer'.requestQ \in Seq(NotCreating) /\ requesting /\ ~requesting'
    BY <1>6 DEF RequestCreate, Session
  <2> QED BY <2>1
<1>7. CASE ~RequestCreate
  BY <1>2, <1>4, <1>5, <1>7, SessionKept
<1> QED BY <1>6, <1>7

(* The steps of the sharer, its requests apart, and of the share server.    *)
LEMMA SessionOthers ==
  ASSUME RoomInv, NEW c \in Rooms \cup {0}, Session(c),
         \/ AcceptInit \/ AcceptJoin \/ ServerQuits \/ ServerUninit \/ ServerControl
         \/ ServerHandles \/ ServerBreaks \/ ServerDetects \/ ServerReconnects
         \/ RelayDrops \/ RelayCloses
  PROVE  Session(c)'
<1>t. relay \in Relays /\ Handed /\ "S" \in Members /\ "V" \in Members
  BY DEF RoomInv, Typed, Members
<1>n. /\ Next
      /\ \A x : \A n \in Notices(x) : n \in Seq(Quiet)
  BY NoticesQuiet, QuietFacts DEF Next, Calls, Threads, Network
<1>1. CASE AcceptInit
  <2>1. viewer' = viewer /\ requesting' = requesting
    BY <1>1 DEF AcceptInit
  <2>2. CASE UNCHANGED <<server, serverIn, viewerIn, relay>>
    BY <1>n, <2>1, <2>2, SessionQuiet
  <2>3. CASE relay' = Forgotten("S") /\ \E n \in Notices("S") : viewerIn' = Delivered("V", n)
    <3>1. NotEntered("V", relay')
      BY <1>t, <2>3, ForgottenKept
    <3> QED BY <1>n, <2>1, <2>3, <3>1, SessionQuiet
  <2> QED BY <1>1, <2>2, <2>3 DEF AcceptInit
<1>2. CASE AcceptJoin
  BY <1>2, <1>n, SessionQuiet DEF AcceptJoin
<1>3. CASE ServerQuits \/ ServerUninit \/ ServerControl
  BY <1>3, <1>n, SessionQuiet DEF ServerQuits, ServerUninit, ServerControl, ui
<1>4. CASE ServerHandles \/ ServerBreaks \/ ServerDetects
  BY <1>4, <1>n, SessionQuiet DEF ServerHandles, ServerBreaks, ServerDetects, ui
<1>5. CASE ServerReconnects
  <2>1. /\ viewer' = viewer /\ requesting' = requesting
        /\ \E n \in Notices("S") : viewerIn' = Delivered("V", n)
    BY <1>5 DEF ServerReconnects, ui
  <2>2. NotEntered("V", relay')
    BY <1>5, <1>t, ForgottenKept DEF ServerReconnects
  <2> QED BY <1>n, <2>1, <2>2, SessionQuiet
<1>6. CASE RelayDrops
  <2>1. PICK x \in Members :
          /\ relay' = Forgotten(x)
          /\ \E n \in Notices(x) : viewerIn' \in {viewerIn, Delivered("V", n)}
    BY <1>6 DEF RelayDrops
  <2>2. NotEntered("V", relay')
    BY <1>t, <2>1, ForgottenKept
  <2>3. viewer' = viewer /\ requesting' = requesting
    BY <1>6 DEF RelayDrops, ui
  <2> QED BY <1>n, <2>1, <2>2, <2>3, SessionQuiet
<1>7. CASE RelayCloses
  <2> DEFINE told(x, r) == IF x \in relay.members[r]
                             THEN <<FromRelay("RoomClosed", r, 0)>> ELSE << >>
  <2>1. PICK r \in Rooms : /\ relay' = [relay EXCEPT !.members[r] = {}]
                           /\ viewerIn' = Delivered("V", told("V", r))
    BY <1>7 DEF RelayCloses
  <2>2. told("V", r) \in Seq(Quiet)
    <3>1. Closing(<<FromRelay("RoomClosed", r, 0)>>)
      BY DEF Closing
    <3>2. <<FromRelay("RoomClosed", r, 0)>> \in Seq(Quiet)
      BY <3>1, ClosingQuiet
    <3> QED BY <3>2
  <2> HIDE DEF told
  <2>3. NotEntered("V", relay')
    BY <1>t, <2>1, ClosedKept
  <2>4. viewer' = viewer /\ requesting' = requesting
    BY <1>7 DEF RelayCloses, ui
  <2> QED BY <1>n, <2>1, <2>2, <2>3, <2>4, SessionQuiet
<1> QED BY <1>1, <1>2, <1>3, <1>4, <1>5, <1>6, <1>7

(* The sharer's requests.  Those about control reach the viewer in a room   *)
(* both are in, which is the viewer's own and one the sharer asked to join; *)
(* what they carry grants nothing before the sharer has decided.            *)
LEMMA SessionSharerSends ==
  ASSUME RoomInv, NEW c \in Rooms \cup {0}, Session(c), ServerSends
  PROVE  Session(c)'
<1>t. /\ relay \in Relays /\ Handed /\ "V" \in Members /\ Next
      /\ viewer' = viewer /\ requesting' = requesting /\ Inbox("V") = viewerIn
  BY DEF RoomInv, Typed, Members, Next, Threads, ServerSends, ui, Inbox
<1>1. PICK i \in {1} \cap DOMAIN server.requestQ :
         \E re \in Reactions("S", server.requestQ[i]) :
                /\ relay' = re.relay
                /\ viewerIn' = Delivered("V", re.peer)
  BY DEF ServerSends
<1> DEFINE m == server.requestQ[i]
<1>2. PICK re \in Reactions("S", m) :
              relay' = re.relay /\ viewerIn' = Delivered("V", re.peer)
  BY <1>1
<1>3. /\ m \in SharerRequests
      /\ \A M : server.requestQ \in Seq(M) => m \in M
  BY <1>1, ElementOfSeq, LenProperties DEF RoomInv, SharerInv
<1>4. m \in Messages /\ m.type \in RequestTypes /\ m.room \in RoomsJoined \cup {-1, 0}
  BY <1>3 DEF SharerRequests
<1> HIDE DEF m
<1>5. /\ NotEntered("V", re.relay)
      /\ \/ re.peer \in Seq(Notes)
         \/ Closing(re.peer)
         \/ /\ re.peer = <<m>> /\ m.type \in {"ReqControl", "ControlRsp"}
            /\ m.room \in Rooms /\ "V" \in relay.members[m.room]
  BY <1>t, <1>4, SharerReaction
<1>6. CASE re.peer \in Seq(Notes) \/ Closing(re.peer)
  <2>1. re.peer \in Seq(Quiet)
    BY <1>6, QuietFacts, ClosingQuiet
  <2> QED BY <1>t, <1>2, <1>5, <2>1, SessionQuiet
<1>7. CASE /\ re.peer = <<m>> /\ m.type \in {"ReqControl", "ControlRsp"}
           /\ m.room \in Rooms /\ "V" \in relay.members[m.room]
  <2>1. ASSUME NEW M, m \in M, viewerIn \in Seq(M)
        PROVE  viewerIn' \in Seq(M)
    <3>1. re.peer \in Seq(M) /\ Inbox("V") \in Seq(M)
      BY <1>7, <1>t, <2>1
    <3> QED BY <1>t, <1>2, <3>1, DeliveredKept
  <2>2. c = m.room /\ c \in RoomsJoined /\ RoomsJoined' = RoomsJoined
    <3>1. c = m.room
      BY <1>7 DEF Session
    <3>2. ~AcceptJoin
      BY DEF AcceptJoin, ServerSends, InboxesHaveSpace, SrvSend, ui
    <3> QED BY <1>t, <1>4, <1>7, <3>1, <3>2, VncAssumption, RoomsJoinedGrow
  <2>3. m \in Answers(c)
    BY <1>4, <1>7 DEF Answers
  <2>4. viewerIn' \in Seq(Answers(c))
    BY <2>1, <2>3 DEF Session
  <2>5. ASSUME NotDecided(c)' PROVE Untouched'
    <3>1. NotDecided(c)
      BY <1>t, <2>2, <2>5, DecidedOnce
    <3>2. Untouched /\ server.requestQ \in Seq(Ungranting)
      BY <3>1 DEF NotDecided, Session, RoomInv, SharerInv
    <3>3. m \in Ungranting
      BY <1>3, <3>2
    <3>4. viewerIn' \in Seq(Ungranting) /\ Ungranting' = Ungranting
      BY <2>1, <3>2, <3>3 DEF Untouched, Ungranting, Granting
    <3> QED BY <1>t, <3>2, <3>4 DEF Untouched
  <2>6. \A r \in Rooms : "V" \in relay'.members[r] => r = c
    BY <1>2, <1>5 DEF NotEntered, Session
  <2> QED BY <1>t, <2>2, <2>4, <2>5, <2>6 DEF Session, NotDecided, ViewerRequests, Answers,
       NotCreating
<1> QED BY <1>5, <1>6, <1>7

(* A new request of the viewer: a new endpoint, a connection with nothing   *)
(* in it, no room; and then the request to create one.                      *)
LEMMA SessionBegins ==
  ASSUME RoomInv, RequestInit \/ RequestCreate
  PROVE  Session(0)'
<1>t. /\ relay \in Relays /\ Handed /\ "V" \in Members /\ VwrInv /\ Next
      /\ accepted \subseteq Rooms
  BY DEF RoomInv, Typed, Members, Next, Calls, Relays
<1>e. \A M : << >> \in Seq(M)
  OBVIOUS
<1>0. 0 \notin RoomsJoined
  BY <1>t, VncAssumption DEF RoomsJoined
<1>1. CASE RequestInit
  <2>1. /\ \A r \in Rooms : "V" \notin relay'.members[r]
        /\ viewerIn' = << >> /\ viewer'.requestQ = << >> /\ viewer'.room = -1
        /\ viewer'.rc = "Normal"
    BY <1>1, <1>t, ForgottenKept DEF RequestInit, initViewer, NewViewer
  <2>2. Untouched'
    BY <1>e, <2>1 DEF Untouched
  <2> QED BY <1>e, <2>1, <2>2 DEF Session
<1>2. CASE RequestCreate
  <2>1. PICK c \in Rooms \cup {0} : Session(c)
    BY DEF RoomInv
  <2>2. /\ requesting /\ ~requesting' /\ c = 0 /\ relay' = relay
        /\ viewer.requestQ \in Seq(NotCreating)
        /\ viewer.room \in {0, -1} /\ viewerIn \in Seq(Answers(0))
        /\ \A r \in Rooms : "V" \in relay.members[r] => r = 0
        /\ Untouched
    BY <1>2, <1>0, <2>1 DEF RequestCreate, Session
  <2>3. viewer'.requestQ \in Seq(ViewerRequests(0))
    BY <1>t, <2>1, <2>2, SessionQueue
  <2>4. viewerIn' = viewerIn /\ viewer'.room = viewer.room
        /\ viewer'.rc \in {"Normal", viewer.rc}
    BY <1>2, <1>t, CreateFacts DEF RequestCreate
  <2>5. Untouched'
    BY <2>2, <2>4 DEF Untouched, Ungranting, Granting
  <2>6. Session(0)'
    BY <2>2, <2>3, <2>4, <2>5 DEF Session, ViewerRequests, Answers, NotCreating
  <2> QED BY <2>6
<1> QED BY <1>1, <1>2

(* Calls and turns of the viewer, its requests apart: a message it handles  *)
(* brings it into its own room only, and in control only if it grants it.   *)
LEMMA SessionViewer ==
  ASSUME RoomInv, NEW c \in Rooms \cup {0}, Session(c),
         \/ ViewerQuits \/ ViewerUninit \/ ViewerControl \/ ViewerHandles
         \/ ViewerBreaks \/ ViewerDetects \/ ViewerReconnects
  PROVE  Session(c)'
<1>t. /\ relay \in Relays /\ Handed /\ "V" \in Members /\ VwrInv /\ Next
      /\ viewer \in ViewerFields /\ viewerIn \in Seq(Answers(c)) /\ ~RequestCreate
  BY DEF RoomInv, Typed, Members, Next, Calls, Threads, Network, VwrInv, VwrTypeOK, Session,
     RequestCreate, ViewerQuits, ViewerUninit, ViewerControl, ViewerHandles,
     ViewerBreaks, ViewerDetects, ViewerReconnects, ui
<1>u. Untouched' <=> viewer'.rc \in {"Normal", "ReqControling"} /\ viewerIn' \in Seq(Ungranting)
  BY DEF Untouched, Ungranting, Granting
<1>e. << >> \in Seq(Answers(c)) /\ << >> \in Seq(Ungranting)
  OBVIOUS
<1>1. CASE ViewerQuits
  <2>1. /\ viewer'.room = viewer.room /\ viewer'.rc = viewer.rc /\ viewerIn' = viewerIn
        /\ relay' = relay /\ requesting' = requesting
    BY <1>1, <1>t, QuitFacts DEF ViewerQuits, ui
  <2> QED BY <1>t, <1>u, <2>1, SessionKept DEF Untouched
<1>2. CASE ViewerUninit
  <2>1. /\ viewer'.room = viewer.room /\ viewer'.rc = viewer.rc /\ viewerIn' = << >>
        /\ relay' = relay /\ requesting' = requesting
    BY <1>2, <1>t DEF ViewerUninit, uninitViewer, ViewerFields, ui
  <2> QED BY <1>t, <1>u, <1>e, <2>1, SessionKept DEF Untouched
<1>3. CASE ViewerControl
  <2>1. /\ viewer'.room = viewer.room /\ viewerIn' = viewerIn
        /\ viewer.rc \in {"Normal", "ReqControling"} => viewer'.rc \in {"Normal", "ReqControling"}
        /\ relay' = relay /\ requesting' = requesting
    BY <1>3, <1>t, ViewerControlFacts DEF ViewerControl, ui
  <2> QED BY <1>t, <1>u, <2>1, SessionKept DEF Untouched
<1>4. CASE ViewerHandles
  <2> DEFINE m == Head(viewerIn)
  <2>1. viewerIn # << >> /\ VwrHandle /\ relay' = relay /\ requesting' = requesting
    BY <1>4 DEF ViewerHandles, VwrHandle, ui
  <2>2. m \in Answers(c) /\ Tail(viewerIn) \in Seq(Answers(c))
    BY <1>t, <2>1, TailKept
  <2>3. /\ viewerIn' = Tail(viewerIn)
        /\ \/ viewer'.room \in {viewer.room, 0}
           \/ m.type = "CreateRoomRsp" /\ m.status = 0 /\ viewer'.room = m.room
        /\ viewer.rc \in {"Normal", "ReqControling"} /\ ~Granting(m)
             => viewer'.rc \in {"Normal", "ReqControling"}
    BY <1>t, <2>1, ViewerHandleFacts
  <2>4. viewerIn \in Seq(Ungranting) => ~Granting(m) /\ Tail(viewerIn) \in Seq(Ungranting)
    <3>1. viewerIn \in Seq(Ungranting) => m \in Ungranting /\ Tail(viewerIn) \in Seq(Ungranting)
      BY <2>1, TailKept
    <3> QED BY <3>1 DEF Ungranting
  <2>5. viewer'.room \in {viewer.room, c, 0}
    BY <2>2, <2>3 DEF Answers
  <2> HIDE DEF m
  <2>6. Untouched => Untouched'
    BY <1>u, <2>3, <2>4 DEF Untouched
  <2> QED BY <1>t, <2>1, <2>2, <2>3, <2>5, <2>6, SessionKept
<1>5. CASE ViewerBreaks \/ ViewerDetects
  <2>1. /\ viewer'.room = viewer.room /\ viewer'.rc = viewer.rc /\ viewerIn' = << >>
        /\ relay' = relay /\ requesting' = requesting
    BY <1>5, <1>t DEF ViewerBreaks, ViewerDetects, VwrDisconnected, ViewerFields, ui
  <2> QED BY <1>t, <1>u, <1>e, <2>1, SessionKept DEF Untouched
<1>6. CASE ViewerReconnects
  <2>1. /\ viewer'.room = viewer.room /\ viewer'.rc = viewer.rc /\ viewerIn' = << >>
        /\ relay' = Forgotten("V") /\ requesting' = requesting
    BY <1>6, <1>t, ViewerReconnectFacts DEF ViewerReconnects, ui
  <2>2. NotEntered("V", relay')
    BY <1>t, <2>1, ForgottenKept
  <2> QED BY <1>t, <1>u, <1>e, <2>1, <2>2, SessionKept DEF Untouched, NotEntered
<1> QED BY <1>1, <1>2, <1>3, <1>4, <1>5, <1>6

(* The viewer's requests.  The answer to its one request to create a room   *)
(* names a room nobody was asked to join yet, which is the viewer's from    *)
(* then on.                                                                 *)
LEMMA SessionViewerSends ==
  ASSUME RoomInv, NEW c \in Rooms \cup {0}, Session(c), ViewerSends
  PROVE  \E d \in Rooms \cup {0} : Session(d)'
<1>t. /\ relay \in Relays /\ Handed /\ "V" \in Members /\ VwrInv /\ Next
      /\ viewer \in ViewerFields /\ viewerIn \in Seq(Answers(c)) /\ ~RequestCreate
      /\ Inbox("V") = viewerIn /\ accepted \subseteq relay.used
      /\ OneCreate(viewer.requestQ) /\ viewer.requestQ \in Seq(ViewerRequests(c))
      /\ UNCHANGED <<ui, server>>
  BY DEF RoomInv, Typed, Members, Next, Threads, VwrInv, VwrTypeOK, Session,
     RequestCreate, ViewerSends, ui, Inbox
<1>u. Untouched' <=> viewer'.rc \in {"Normal", "ReqControling"} /\ viewerIn' \in Seq(Ungranting)
  BY DEF Untouched, Ungranting, Granting
<1>1. PICK i \in {1} \cap DOMAIN viewer.requestQ :
         /\ VwrSend(viewer.requestQ[i])
         /\ \E re \in Reactions("V", viewer.requestQ[i]) :
              /\ relay' = re.relay
              /\ viewerIn' = Delivered("V", re.self)
  BY DEF ViewerSends
<1>h. viewer.requestQ[i] = Head(viewer.requestQ)
  BY <1>1 DEF VwrSend
<1> DEFINE m == viewer.requestQ[i]
<1>2. PICK re \in Reactions("V", m) : relay' = re.relay /\ viewerIn' = Delivered("V", re.self)
  BY <1>1
<1>3. \A M : viewer.requestQ \in Seq(M) => m \in M
  BY <1>1, ElementOfSeq, LenProperties
<1>4. /\ m \in Messages /\ m.type \in RequestTypes
      /\ m.type = "JoinRoom" => m.room \in {c, 0, -1}
  BY <1>t, <1>3 DEF ViewerRequests
<1>5. viewer.requestQ # << >> /\ viewer' = [viewer EXCEPT !.requestQ = Tail(viewer.requestQ)]
  BY <1>1 DEF VwrSend
<1>6. /\ viewer'.requestQ = Tail(viewer.requestQ) /\ viewer'.room = viewer.room
      /\ viewer'.rc = viewer.rc
  BY <1>t, <1>5 DEF ViewerFields
<1>c. m.type = "CreateRoom" => Tail(viewer.requestQ) \in Seq(NotCreating)
  BY <1>t, <1>h, <1>5, OneCreateTail DEF VwrInv, VwrTypeOK, ViewerFields
<1>d. ASSUME NEW M, viewerIn \in Seq(M), re.self \in Seq(M)
      PROVE  viewerIn' \in Seq(M)
  BY <1>t, <1>2, <1>d, DeliveredKept
<1> HIDE DEF m
<1>7. \/ /\ m.type = "CreateRoom"
         /\ \E r \in Rooms \ relay.used :
              /\ re.self = <<FromRelay("CreateRoomRsp", r, 0)>>
              /\ "V" \in re.relay.members[r]
              /\ \A q \in Rooms : "V" \in re.relay.members[q]
                   => q = r \/ "V" \in relay.members[q]
      \/ /\ re.self \in Seq(PlainAnswers)
         /\ \A q \in Rooms : "V" \in re.relay.members[q]
              => "V" \in relay.members[q] \/ (m.type = "JoinRoom" /\ q = m.room)
  BY <1>t, <1>4, ViewerReaction
<1>8. CASE /\ re.self \in Seq(PlainAnswers)
           /\ \A q \in Rooms : "V" \in re.relay.members[q]
                => "V" \in relay.members[q] \/ (m.type = "JoinRoom" /\ q = m.room)
  <2>1. PlainAnswers \subseteq Answers(c) /\ PlainAnswers \subseteq Ungranting
    BY DEF PlainAnswers, Answers, Ungranting, Granting
  <2>2. re.self \in Seq(Answers(c)) /\ re.self \in Seq(Ungranting)
    BY <1>8, <2>1, SeqMonotonic
  <2>3. viewerIn' \in Seq(Answers(c))
    BY <1>t, <1>d, <2>2
  <2>4. Untouched => Untouched'
    BY <1>u, <1>d, <1>6, <2>2 DEF Untouched
  <2>5. \A q \in Rooms : "V" \in relay'.members[q] => q = c \/ "V" \in relay.members[q]
    BY <1>2, <1>4, <1>8, VncAssumption
  <2>6. requesting' = requesting
    BY <1>t DEF ui
  <2> QED BY <1>t, <1>6, <2>3, <2>4, <2>5, <2>6, SessionKept
<1>9. CASE /\ m.type = "CreateRoom"
           /\ \E r \in Rooms \ relay.used :
                /\ re.self = <<FromRelay("CreateRoomRsp", r, 0)>>
                /\ "V" \in re.relay.members[r]
                /\ \A q \in Rooms : "V" \in re.relay.members[q]
                     => q = r \/ "V" \in relay.members[q]
  <2>1. PICK r \in Rooms \ relay.used :
                /\ re.self = <<FromRelay("CreateRoomRsp", r, 0)>>
                /\ \A q \in Rooms : "V" \in re.relay.members[q]
                     => q = r \/ "V" \in relay.members[q]
    BY <1>9
  <2>2. c = 0 /\ ~requesting
    <3>1. m \notin NotCreating
      BY <1>9 DEF NotCreating
    <3> QED BY <1>3, <3>1 DEF Session
  <2>3. Untouched
    BY <1>t, <2>2, VncAssumption DEF Session, RoomsJoined, Relays
  <2>4. FromRelay("CreateRoomRsp", r, 0) \in Answers(r) \cap Ungranting
    BY <2>1, RelayMessages, RelayFields DEF Answers, Ungranting, Granting
  <2>5. re.self \in Seq(Answers(r)) /\ re.self \in Seq(Ungranting)
    BY <2>1, <2>4
  <2>6. Answers(0) \subseteq Answers(r) /\ ViewerRequests(0) \subseteq ViewerRequests(r)
    BY VncAssumption DEF Answers, ViewerRequests
  <2>7. viewerIn' \in Seq(Answers(r))
    BY <1>t, <1>d, <2>2, <2>5, <2>6, SeqMonotonic
  <2>8. Untouched'
    BY <1>u, <1>d, <1>6, <2>3, <2>5 DEF Untouched
  <2>9. /\ viewer'.requestQ \in Seq(ViewerRequests(r)) /\ viewer'.requestQ \in Seq(NotCreating)
    BY <1>t, <1>5, <1>6, <1>9, <1>c, <2>2, <2>6, TailKept, SeqMonotonic
  <2>10. \A q \in Rooms : "V" \in relay'.members[q] => q = r
    BY <1>2, <2>1, <2>2, VncAssumption DEF Session
  <2>11. viewer'.room \in {r, 0, -1} /\ ~requesting'
    BY <1>t, <1>6, <2>2 DEF Session, ui
  <2>12. Session(r)'
    BY <2>7, <2>8, <2>9, <2>10, <2>11 DEF Session, ViewerRequests, Answers, NotCreating
  <2> QED BY <2>12
<1> QED BY <1>7, <1>8, <1>9

LEMMA SessionStep == RoomInv /\ Next => \E c \in Rooms \cup {0} : Session(c)'
<1> SUFFICES ASSUME RoomInv, Next PROVE \E c \in Rooms \cup {0} : Session(c)'
  OBVIOUS
<1>1. PICK c \in Rooms \cup {0} : Session(c)
  BY DEF RoomInv
<1>2. CASE RequestInit \/ RequestCreate
  BY <1>2, SessionBegins
<1>3. CASE ViewerSends
  BY <1>1, <1>3, SessionViewerSends
<1>4. CASE ServerSends
  BY <1>1, <1>4, SessionSharerSends
<1>5. CASE \/ ViewerQuits \/ ViewerUninit \/ ViewerControl \/ ViewerHandles
           \/ ViewerBreaks \/ ViewerDetects \/ ViewerReconnects
  BY <1>1, <1>5, SessionViewer
<1>6. CASE \/ AcceptInit \/ AcceptJoin \/ ServerQuits \/ ServerUninit \/ ServerControl
           \/ ServerHandles \/ ServerBreaks \/ ServerDetects \/ ServerReconnects
           \/ RelayDrops \/ RelayCloses
  BY <1>1, <1>6, SessionOthers
<1> QED BY <1>2, <1>3, <1>4, <1>5, <1>6 DEF Next, Calls, Threads, Network

-----------------------------------------------------------------------------
(* The theorems *)

LEMMA InitRoomInv == Init => RoomInv
<1> SUFFICES ASSUME Init PROVE RoomInv
  OBVIOUS
<1>e. \A M : << >> \in Seq(M)
  OBVIOUS
<1>1. SrvInv
  BY InitSrvInv DEF Init
<1>2. VwrInv
  <2>1. viewer = NewViewer /\ viewerIn = << >>
    BY DEF Init, VwrInit
  <2>2. -1 \in RoomIds /\ Len(<< >>) <= QueueBound + 1
    BY VncAssumption DEF RoomIds
  <2>3. viewer \in ViewerFields
    BY <2>1, <2>2, <1>e, Bounds, VncAssumption, Names, VwrNames DEF NewViewer, ViewerFields
  <2>4. viewer.requestQ = << >> /\ viewer.viewOnly = TRUE /\ viewer.rc = "Normal"
    BY <2>1 DEF NewViewer
  <2>5. ViewOnlyUnlessControling
    BY <2>4 DEF ViewOnlyUnlessControling
  <2> QED BY <2>1, <2>2, <2>3, <2>4, <2>5, <1>e DEF VwrInv, VwrTypeOK
<1>3. Typed
  <2>1. /\ relay.members = [r \in Rooms |-> {}] /\ relay.used = {}
        /\ relay = [members |-> [r \in Rooms |-> {}], used |-> {}]
        /\ accepting = 0 /\ joining = FALSE /\ accepted = {} /\ requesting = FALSE
        /\ breaks = 0
    BY DEF Init
  <2>2. relay \in Relays /\ Handed
    BY <2>1 DEF Relays, Handed
  <2>3. accepting \in Rooms \cup {0} /\ accepted \subseteq relay.used
    BY <2>1
  <2>4. joining \in BOOLEAN /\ requesting \in BOOLEAN
    BY <2>1
  <2>5. breaks \in 0 .. MaxBreaks
    BY <2>1, ShareRoomAssumption
  <2> QED BY <1>1, <1>2, <2>2, <2>3, <2>4, <2>5 DEF Typed
<1>4. SharerInv
  BY <1>e DEF Init, SrvInit, SharerInv, RoomsJoined
<1>5. ViewerSharesRealRoom /\ OneCreate(viewer.requestQ)
  BY DEF Init, VwrInit, NewViewer, ViewerSharesRealRoom, OneCreate
<1>6. Session(0)
  BY <1>e DEF Init, VwrInit, NewViewer, Session, Untouched
<1> QED BY <1>3, <1>4, <1>5, <1>6 DEF RoomInv

LEMMA RoomInvStep == RoomInv /\ [Next]_vars => RoomInv'
<1>1. CASE RoomInv /\ Next
  <2>1. Typed'
    BY <1>1, TypedCalls, TypedThreads, TypedNetwork DEF Next
  <2>2. SharerInv' /\ ViewerSharesRealRoom' /\ OneCreate(viewer.requestQ)'
    BY <1>1, SharerStep, RealRoomStep, OneCreateStep DEF OneCreate
  <2>3. \E c \in Rooms \cup {0} : Session(c)'
    BY <1>1, SessionStep
  <2> QED BY <2>1, <2>2, <2>3 DEF RoomInv
<1>2. CASE RoomInv /\ UNCHANGED vars
  BY <1>2 DEF vars, RoomInv, Typed, SrvInv, SrvTypeOK, InputOnlyWhileGranted, GrantTakesInput,
     VwrInv, VwrTypeOK, ViewOnlyUnlessControling, Handed, SharerInv, ViewerSharesRealRoom,
     OneCreate, Session, Untouched, SharerRequests, ViewerRequests, Answers, RoomsJoined,
     NotCreating, Ungranting, Granting
<1> QED BY <1>1, <1>2

(* The invariant holds in every state, whatever was broken, refused or      *)
(* closed, in whatever order.                                               *)
THEOREM RoomInvariance == Spec => []RoomInv
BY InitRoomInv, RoomInvStep, PTL DEF Spec

(* The two endpoints, the share server's rooms and the plugin's own         *)
(* variables have their types, and no endpoint queues more than its plugin  *)
(* and one reconnection put there.                                          *)
THEOREM RoomTyping == Spec => []TypeOK
<1>1. RoomInv => TypeOK
  <2> SUFFICES ASSUME RoomInv PROVE TypeOK
    OBVIOUS
  <2>1. /\ SrvTypeOK /\ VwrTypeOK /\ relay \in Relays
        /\ accepting \in Rooms \cup {0} /\ accepted \subseteq relay.used
        /\ joining \in BOOLEAN /\ requesting \in BOOLEAN /\ breaks \in 0 .. MaxBreaks
    BY DEF RoomInv, Typed, SrvInv, VwrInv
  <2> QED BY <2>1 DEF TypeOK, Relays
<1> QED BY <1>1, RoomInvariance, PTL

(* A viewer that counts as sharing, or as leaving, is in a room the share   *)
(* server handed out (CCPVncViewer.cpp, HandleVncMsgPacket).                *)
THEOREM SharedRoomIsReal == Spec => []ViewerSharesRealRoom
<1>1. RoomInv => ViewerSharesRealRoom
  BY DEF RoomInv
<1> QED BY <1>1, RoomInvariance, PTL

(* In the room of the share request accepted last, the viewer drives the    *)
(* sharer's desktop only while the sharer's endpoint knows it: over         *)
(* rejoins, refused joins, broken connections and sessions one after the    *)
(* other.                                                                   *)
THEOREM ControlIsConsented == Spec => []RoomControlIsConsented
<1>1. RoomInv => RoomControlIsConsented
  <2> SUFFICES ASSUME RoomInv, server.state = "Sharing", viewer.state = "Sharing",
                      server.room = viewer.room, server.room = accepting,
                      ~viewer.viewOnly, server.input # "disabled",
                      server.rc \notin {"Controling", "ReqControling"}
               PROVE  FALSE
    BY DEF RoomControlIsConsented
  <2>1. PICK c \in Rooms \cup {0} : Session(c)
    BY DEF RoomInv
  <2>2. viewer.room \in Rooms
    BY DEF RoomInv, ViewerSharesRealRoom
  <2>3. c = viewer.room
    BY <2>1, <2>2, VncAssumption DEF Session
  <2>4. viewer.rc = "Controling"
    BY DEF RoomInv, Typed, VwrInv, VwrTypeOK, ViewerFields, ViewOnlyUnlessControling
  <2>5. server.input = "default"
    BY DEF RoomInv, Typed, SrvInv, SrvTypeOK, ServerFields, InputOnlyWhileGranted, InputModes
  <2>6. Untouched
    BY <2>1, <2>3, <2>5 DEF Session
  <2> QED BY <2>4, <2>6 DEF Untouched
<1> QED BY <1>1, RoomInvariance, PTL

-----------------------------------------------------------------------------
(* While no connection broke *)

(* A queue whose head and tail are of a set, and the two parts of a queue   *)
(* that is.                                                                 *)
LEMMA HeadAndTail ==
  ASSUME NEW M, NEW q \in Seq(Messages), q # << >>, Head(q) \in M, Tail(q) \in Seq(M)
  PROVE  q \in Seq(M)
<1>1. /\ Head(q) = q[1] /\ Len(q) \in Nat \ {0} /\ Len(Tail(q)) = Len(q) - 1
      /\ \A i \in 1 .. Len(q) - 1 : Tail(q)[i] = q[i + 1]
  BY TailKept
<1>2. \A i \in 1 .. Len(q) - 1 : Tail(q)[i] \in M
  BY <1>1, ElementOfSeq
<1>3. ASSUME NEW i \in 1 .. Len(q) PROVE q[i] \in M
  <2>1. CASE i = 1
    BY <1>1, <2>1
  <2>2. CASE i # 1
    <3>1. i - 1 \in 1 .. Len(q) - 1 /\ q[(i - 1) + 1] = q[i]
      BY <1>1, <2>2
    <3> QED BY <1>1, <1>2, <3>1
  <2> QED BY <2>1, <2>2
<1> QED BY <1>3, SeqOver

LEMMA ConcatParts ==
  ASSUME NEW M, NEW q \in Seq(Messages), NEW s \in Seq(Messages), q \o s \in Seq(M)
  PROVE  q \in Seq(M) /\ s \in Seq(M)
<1>1. /\ Len(q) \in Nat /\ Len(s) \in Nat /\ Len(q \o s) = Len(q) + Len(s)
      /\ \A i \in 1 .. Len(q) + Len(s) :
           (q \o s)[i] = IF i <= Len(q) THEN q[i] ELSE s[i - Len(q)]
  BY ConcatProperties, LenProperties
<1>2. \A i \in 1 .. Len(q) + Len(s) : (q \o s)[i] \in M
  BY <1>1, ElementOfSeq
<1>3. ASSUME NEW i \in 1 .. Len(q) PROVE q[i] \in M
  BY <1>1, <1>2
<1>4. ASSUME NEW i \in 1 .. Len(s) PROVE s[i] \in M
  <2>1. /\ Len(q) + i \in 1 .. Len(q) + Len(s) /\ ~(Len(q) + i <= Len(q))
        /\ (Len(q) + i) - Len(q) = i
    BY <1>1
  <2> QED BY <1>1, <1>2, <2>1
<1> QED BY <1>3, <1>4, SeqOver

(* A message that decides nothing does not change what the ones before it   *)
(* decide; one that decides against sharing overrules them.                 *)
LEMMA ShareBefore ==
  ASSUME NEW st, NEW q \in Seq(Messages), NEW s \in Seq(Undecided), WillShare(st, q \o s)
  PROVE  WillShare(st, q)
<1>1. s \in Seq(Messages)
  BY SeqMonotonic DEF Undecided
<1>2. /\ Len(q) \in Nat /\ Len(s) \in Nat /\ Len(q \o s) = Len(q) + Len(s)
      /\ \A i \in 1 .. Len(q) + Len(s) :
           (q \o s)[i] = IF i <= Len(q) THEN q[i] ELSE s[i - Len(q)]
  BY <1>1, ConcatProperties, LenProperties
<1>3. CASE st = "Sharing" /\ q \o s \in Seq(Undecided)
  BY <1>1, <1>3, ConcatParts DEF WillShare
<1>4. CASE \E i \in 1 .. Len(q \o s) :
             /\ (q \o s)[i].type = "JoinRoomRsp" /\ (q \o s)[i].status = 0
             /\ \A j \in i + 1 .. Len(q \o s) : (q \o s)[j] \in Undecided
  <2>1. PICK i \in 1 .. Len(q \o s) :
             /\ (q \o s)[i].type = "JoinRoomRsp" /\ (q \o s)[i].status = 0
             /\ \A j \in i + 1 .. Len(q \o s) : (q \o s)[j] \in Undecided
    BY <1>4
  <2>2. i <= Len(q)
    <3>1. SUFFICES ASSUME ~(i <= Len(q)) PROVE FALSE
      OBVIOUS
    <3>2. i - Len(q) \in 1 .. Len(s) /\ (q \o s)[i] = s[i - Len(q)]
      BY <1>2, <3>1
    <3>3. s[i - Len(q)] \in Undecided
      BY <3>2, ElementOfSeq
    <3> QED BY <2>1, <3>2, <3>3 DEF Undecided, DecidingTypes
  <2>3. i \in 1 .. Len(q) /\ (q \o s)[i] = q[i]
    BY <1>2, <2>2
  <2>4. \A j \in i + 1 .. Len(q) : q[j] \in Undecided
    <3> TAKE j \in i + 1 .. Len(q)
    <3>1. j \in i + 1 .. Len(q \o s) /\ (q \o s)[j] = q[j]
      BY <1>2, <2>3
    <3> QED BY <2>1, <3>1
  <2> QED BY <2>1, <2>3, <2>4 DEF WillShare
<1> QED BY <1>3, <1>4 DEF WillShare

LEMMA ShareRefused ==
  ASSUME NEW st, NEW q \in Seq(Messages), NEW s, Refusing(s)
  PROVE  ~WillShare(st, q \o s)
<1>1. PICK d \in Messages : /\ s = <<d>> /\ d.type \in DecidingTypes
                            /\ ~(d.type = "JoinRoomRsp" /\ d.status = 0)
  BY DEF Refusing
<1>2. s \in Seq(Messages) /\ Len(s) = 1 /\ s[1] = d
  BY <1>1
<1>c. /\ Len(q) \in Nat /\ Len(q \o s) = Len(q) + Len(s)
      /\ \A i \in 1 .. Len(q) + Len(s) :
           (q \o s)[i] = IF i <= Len(q) THEN q[i] ELSE s[i - Len(q)]
      /\ q \o s \in Seq(Messages)
  <2>1. s \in Seq(Messages)
    BY <1>2
  <2> QED BY <2>1, ConcatProperties, LenProperties
<1>3. /\ Len(q) \in Nat /\ Len(q \o s) = Len(q) + 1 /\ (q \o s)[Len(q) + 1] = d
      /\ q \o s \in Seq(Messages)
  <2>1. Len(q) + 1 \in 1 .. Len(q) + Len(s) /\ ~(Len(q) + 1 <= Len(q))
        /\ (Len(q) + 1) - Len(q) = 1
    BY <1>2, <1>c
  <2> QED BY <1>2, <1>c, <2>1
<1>4. d \notin Undecided
  BY <1>1 DEF Undecided
<1>5. q \o s \notin Seq(Undecided)
  <2>1. Len(q) + 1 \in 1 .. Len(q \o s)
    BY <1>3
  <2> QED BY <1>3, <1>4, <2>1, ElementOfSeq
<1>6. ~ \E i \in 1 .. Len(q \o s) :
             /\ (q \o s)[i].type = "JoinRoomRsp" /\ (q \o s)[i].status = 0
             /\ \A j \in i + 1 .. Len(q \o s) : (q \o s)[j] \in Undecided
  <2>1. SUFFICES ASSUME NEW i \in 1 .. Len(q \o s),
                        (q \o s)[i].type = "JoinRoomRsp", (q \o s)[i].status = 0,
                        \A j \in i + 1 .. Len(q \o s) : (q \o s)[j] \in Undecided
                 PROVE  FALSE
    OBVIOUS
  <2>2. i = Len(q) + 1 \/ Len(q) + 1 \in i + 1 .. Len(q \o s)
    BY <1>3
  <2> QED BY <1>1, <1>3, <1>4, <2>1, <2>2
<1> QED BY <1>5, <1>6 DEF WillShare

(* Handling the head of the queue puts into the state what it decided.      *)
LEMMA ShareTail ==
  ASSUME NEW st, NEW new, NEW q \in Seq(Messages), q # << >>, NEW m, m = Head(q),
         m.type \notin DecidingTypes => new = st,
         m.type \in DecidingTypes /\ new = "Sharing" => m.type = "JoinRoomRsp" /\ m.status = 0,
         WillShare(new, Tail(q))
  PROVE  WillShare(st, q)
<1>1. /\ m \in Messages /\ m = q[1] /\ Len(q) \in Nat \ {0} /\ Len(Tail(q)) = Len(q) - 1
      /\ \A i \in 1 .. Len(q) - 1 : Tail(q)[i] = q[i + 1]
  BY TailKept
<1>2. CASE new = "Sharing" /\ Tail(q) \in Seq(Undecided)
  <2>1. CASE m.type \notin DecidingTypes
    <3>1. m \in Undecided
      BY <1>1, <2>1 DEF Undecided
    <3>2. q \in Seq(Undecided)
      BY <1>2, <3>1, HeadAndTail
    <3> QED BY <1>2, <2>1, <3>2 DEF WillShare
  <2>2. CASE m.type \in DecidingTypes
    <3>1. q[1].type = "JoinRoomRsp" /\ q[1].status = 0 /\ 1 \in 1 .. Len(q)
      BY <1>1, <1>2, <2>2
    <3>2. \A j \in 1 + 1 .. Len(q) : q[j] \in Undecided
      <4> TAKE j \in 1 + 1 .. Len(q)
      <4>1. j - 1 \in 1 .. Len(Tail(q)) /\ Tail(q)[j - 1] = q[(j - 1) + 1] /\ (j - 1) + 1 = j
        BY <1>1
      <4> QED BY <1>2, <4>1, ElementOfSeq
    <3> QED BY <3>1, <3>2 DEF WillShare
  <2> QED BY <2>1, <2>2
<1>3. CASE \E i \in 1 .. Len(Tail(q)) :
             /\ Tail(q)[i].type = "JoinRoomRsp" /\ Tail(q)[i].status = 0
             /\ \A j \in i + 1 .. Len(Tail(q)) : Tail(q)[j] \in Undecided
  <2>1. PICK i \in 1 .. Len(Tail(q)) :
             /\ Tail(q)[i].type = "JoinRoomRsp" /\ Tail(q)[i].status = 0
             /\ \A j \in i + 1 .. Len(Tail(q)) : Tail(q)[j] \in Undecided
    BY <1>3
  <2>2. i + 1 \in 1 .. Len(q) /\ Tail(q)[i] = q[i + 1]
    BY <1>1
  <2>3. \A j \in (i + 1) + 1 .. Len(q) : q[j] \in Undecided
    <3> TAKE j \in (i + 1) + 1 .. Len(q)
    <3>1. /\ j - 1 \in i + 1 .. Len(Tail(q)) /\ j - 1 \in 1 .. Len(q) - 1
          /\ (j - 1) + 1 = j
      BY <1>1
    <3> QED BY <1>1, <2>1, <3>1
  <2> QED BY <2>1, <2>2, <2>3 DEF WillShare
<1> QED BY <1>2, <1>3 DEF WillShare

LEMMA ClosingRefuses ==
  ASSUME NEW s, Closing(s)
  PROVE  Refusing(s)
<1>1. PICK r \in Rooms : s = <<FromRelay("RoomClosed", r, 0)>>
  BY DEF Closing
<1>2. /\ FromRelay("RoomClosed", r, 0) \in Messages
      /\ FromRelay("RoomClosed", r, 0).type = "RoomClosed"
  BY RelayMessages, RelayFields
<1> QED BY <1>1, <1>2 DEF Refusing, DecidingTypes

(* Where nothing broke, a connection is up while its endpoint runs: what    *)
(* the share server says is delivered, to the sharer as to the viewer.      *)
LEMMA SharerTold ==
  ASSUME SharerSteady, serverIn \in Seq(Messages),
         server'.state = server.state, server'.conn = server.conn,
         server'.reconnecting = server.reconnecting, NEW s, serverIn' = Delivered("S", s),
         \/ s \in Seq(Undecided) /\ Stays("S", relay')
         \/ Refusing(s)
         \/ \E r \in Rooms : "S" \in relay'.members[r]
  PROVE  SharerSteady'
<1>1. /\ server'.conn = IF server'.state = "UnInit" THEN "none" ELSE "up"
      /\ ~server'.reconnecting
      /\ server.state = "UnInit" => serverIn = << >>
      /\ WillShare(server.state, serverIn) => RoomsOf("S") # {}
  BY DEF SharerSteady
<1>2. serverIn' = IF server.state = "UnInit" THEN serverIn ELSE serverIn \o s
  BY <1>1 DEF Delivered, Conn, Inbox
<1>3. ASSUME WillShare(server.state, serverIn') PROVE RoomsOf("S")' # {}
  <2>1. CASE \E r \in Rooms : "S" \in relay'.members[r]
    BY <2>1 DEF RoomsOf
  <2>2. CASE server.state = "UnInit"
    <3>1. ~WillShare(server.state, serverIn')
      BY <1>1, <1>2, <2>2 DEF WillShare
    <3> QED BY <1>3, <3>1
  <2>3. CASE server.state # "UnInit" /\ Refusing(s)
    BY <1>2, <1>3, <2>3, ShareRefused
  <2>4. CASE server.state # "UnInit" /\ s \in Seq(Undecided) /\ Stays("S", relay')
    <3>1. WillShare(server.state, serverIn)
      BY <1>2, <1>3, <2>4, ShareBefore
    <3>2. RoomsOf("S") # {}
      BY <1>1, <3>1
    <3> QED BY <2>4, <3>2 DEF RoomsOf, Stays
  <2> QED BY <2>1, <2>2, <2>3, <2>4
<1>4. server'.state = "UnInit" => serverIn' = << >>
  BY <1>1, <1>2
<1>5. WillShare(server.state, serverIn)' <=> WillShare(server.state, serverIn')
  BY DEF WillShare, Undecided, DecidingTypes
<1> QED BY <1>1, <1>3, <1>4, <1>5 DEF SharerSteady

(* A step of the sharer that does not make it share.                        *)
LEMMA SharerMoves ==
  ASSUME SharerSteady, relay' = relay,
         server'.conn = IF server'.state = "UnInit" THEN "none" ELSE "up",
         ~server'.reconnecting,
         serverIn' \in {serverIn, << >>},
         server'.state = "UnInit" => serverIn' = << >>,
         server'.state = "Sharing" => server.state = "Sharing" /\ serverIn' = serverIn
  PROVE  SharerSteady'
<1>1. WillShare(server.state, serverIn)' => WillShare(server.state, serverIn)
  BY DEF WillShare, Undecided, DecidingTypes
<1> QED BY <1>1 DEF SharerSteady, RoomsOf

LEMMA SharerSteadyStep ==
  ASSUME RoomInv, Next, SharerSteady, ViewerSteady, breaks' = breaks
  PROVE  SharerSteady'
<1>t. /\ relay \in Relays /\ Handed /\ "S" \in Members /\ "V" \in Members /\ SrvInv
      /\ server \in ServerFields /\ serverIn \in Seq(Messages) /\ breaks \in Nat
      /\ server.requestQ \in Seq(Messages)
  BY ShareRoomAssumption DEF RoomInv, Typed, Members, SrvInv, SrvTypeOK, ServerFields
<1>s. /\ server.conn = IF server.state = "UnInit" THEN "none" ELSE "up"
      /\ ~server.reconnecting /\ ~viewer.reconnecting
      /\ server.state = "UnInit" => serverIn = << >>
  BY DEF SharerSteady, ViewerSteady
<1>b. ~ServerBreaks /\ ~ViewerBreaks
  <2>1. breaks + 1 # breaks
    BY <1>t
  <2>2. ServerBreaks \/ ViewerBreaks => breaks' = breaks + 1
    BY DEF ServerBreaks, ViewerBreaks
  <2> QED BY <2>1, <2>2
<1>n. /\ \A x : \A n \in Notices(x) : n \in Seq(Undecided)
      /\ << >> \in Seq(Undecided)
  <2>1. Notes \subseteq Undecided
    BY DEF Notes, Undecided, DecidingTypes
  <2> QED BY <2>1, NoticesQuiet, SeqMonotonic
<1>k. ASSUME server' = server, serverIn' = serverIn, Stays("S", relay') \/ relay' = relay
      PROVE  SharerSteady'
  <2>1. WillShare(server.state, serverIn)' <=> WillShare(server.state, serverIn)
    BY <1>k DEF WillShare, Undecided, DecidingTypes
  <2>2. RoomsOf("S") # {} => RoomsOf("S")' # {}
    BY <1>k DEF RoomsOf, Stays
  <2> QED BY <1>k, <2>1, <2>2 DEF SharerSteady
<1>1. CASE AcceptInit
  <2>1. CASE UNCHANGED <<server, serverIn, viewerIn, relay>>
    BY <1>k, <2>1
  <2>2. CASE initServer
    <3>1. server'.state = "Init" /\ server'.conn = "up" /\ ~server'.reconnecting
          /\ serverIn' = << >>
      BY <1>t, <1>s, <2>2 DEF initServer, ServerFields
    <3>2. ~WillShare(server.state, serverIn)'
      BY <3>1 DEF WillShare
    <3> QED BY <3>1, <3>2 DEF SharerSteady
  <2> QED BY <1>1, <2>1, <2>2 DEF AcceptInit
<1>2. CASE AcceptJoin
  <2>1. CASE UNCHANGED <<server, serverIn>>
    BY <1>2, <1>k, <2>1 DEF AcceptJoin
  <2>2. CASE joinShareRoom(accepting)
    <3>1. /\ server'.state = "Joining" /\ server'.conn = server.conn
          /\ server'.reconnecting = server.reconnecting /\ serverIn' = serverIn
          /\ server.state # "UnInit"
      BY <1>t, <2>2 DEF joinShareRoom, Joined, ServerFields
    <3>2. relay' = relay
      BY <1>2 DEF AcceptJoin
    <3> QED BY <1>s, <3>1, <3>2, SharerMoves
  <2> QED BY <1>2, <2>1, <2>2 DEF AcceptJoin
<1>3. CASE RequestInit
  <2>1. PICK n \in Notices("V") : serverIn' = Delivered("S", n)
    BY <1>3 DEF RequestInit
  <2>2. server' = server /\ Stays("S", relay')
    BY <1>3, <1>t, ForgottenKept DEF RequestInit
  <2> QED BY <1>t, <1>n, <2>1, <2>2, SharerTold
<1>4. CASE RequestCreate \/ ViewerQuits \/ ViewerUninit \/ ViewerControl \/ ViewerHandles
           \/ ViewerDetects
  BY <1>4, <1>k DEF RequestCreate, ViewerQuits, ViewerUninit, ViewerControl, ViewerHandles,
                    ViewerDetects
<1>5. CASE ServerQuits \/ ServerControl
  <2>1. /\ server'.state = server.state /\ server'.conn = server.conn
        /\ server'.reconnecting = server.reconnecting /\ serverIn' = serverIn
        /\ relay' = relay
    <3>1. CASE ServerQuits
      BY <1>t, <3>1 DEF ServerQuits, quitShareRoom, ServerFields
    <3>2. CASE ServerControl
      BY <1>t, <3>2, SharerControlFacts DEF ServerControl
    <3> QED BY <1>5, <3>1, <3>2
  <2> QED BY <1>s, <2>1, SharerMoves
<1>6. CASE ServerUninit
  <2>1. /\ server'.state = "UnInit" /\ server'.conn = "none"
        /\ server'.reconnecting = server.reconnecting /\ serverIn' = << >>
        /\ relay' = relay
    BY <1>6, <1>t DEF ServerUninit, uninitServer, ServerFields
  <2> QED BY <1>s, <2>1, SharerMoves
<1>7. CASE ServerSends
  <2>1. PICK i \in {1} \cap DOMAIN server.requestQ :
           /\ SrvSend(server.requestQ[i])
           /\ \E re \in Reactions("S", server.requestQ[i]) :
                relay' = re.relay /\ serverIn' = Delivered("S", re.self)
    BY <1>7 DEF ServerSends
  <2> DEFINE m == server.requestQ[i]
  <2>2. PICK re \in Reactions("S", m) : relay' = re.relay /\ serverIn' = Delivered("S", re.self)
    BY <2>1
  <2>3. m \in SharerRequests
    BY <2>1, ElementOfSeq, LenProperties DEF RoomInv, SharerInv
  <2>4. m \in Messages /\ m.type \in RequestTypes
    BY <2>3 DEF SharerRequests
  <2>5. /\ server'.state = server.state /\ server'.conn = server.conn
        /\ server'.reconnecting = server.reconnecting
    BY <1>t, <2>1 DEF SrvSend, ServerFields
  <2> HIDE DEF m
  <2>6. \/ re.self \in Seq(Undecided) /\ Stays("S", re.relay)
        \/ \E r \in Rooms : "S" \in re.relay.members[r]
        \/ Refusing(re.self)
    BY <1>t, <2>4, SharerReaction
  <2> QED BY <1>t, <2>2, <2>5, <2>6, SharerTold
<1>8. CASE ViewerSends
  <2>1. PICK i \in {1} \cap DOMAIN viewer.requestQ :
           \E re \in Reactions("V", viewer.requestQ[i]) :
                relay' = re.relay /\ serverIn' = Delivered("S", re.peer)
    BY <1>8 DEF ViewerSends
  <2> DEFINE m == viewer.requestQ[i]
  <2>2. PICK re \in Reactions("V", m) : relay' = re.relay /\ serverIn' = Delivered("S", re.peer)
    BY <2>1
  <2>3. PICK c \in Rooms \cup {0} : Session(c)
    BY DEF RoomInv
  <2>4. m \in ViewerRequests(c)
    BY <2>1, <2>3, ElementOfSeq, LenProperties DEF Session
  <2>5. m \in Messages /\ m.type \in RequestTypes
    BY <2>4 DEF ViewerRequests
  <2> HIDE DEF m
  <2>6. \/ re.peer \in Seq(Undecided) /\ Stays("S", re.relay)
        \/ Refusing(re.peer)
    BY <1>t, <2>5, ViewerReaction, ClosingRefuses
  <2>7. server' = server
    BY <1>8 DEF ViewerSends
  <2> QED BY <1>t, <2>2, <2>6, <2>7, SharerTold
<1>9. CASE ServerHandles
  <2> DEFINE m == Head(serverIn)
  <2>1. SrvHandle /\ relay' = relay
    BY <1>9 DEF ServerHandles
  <2>2. /\ serverIn # << >> /\ serverIn' = Tail(serverIn)
        /\ server.state # "UnInit" /\ server'.state # "UnInit"
        /\ server'.conn = server.conn /\ server'.reconnecting = server.reconnecting
        /\ m.type \notin DecidingTypes => server'.state = server.state
        /\ m.type \in DecidingTypes /\ server'.state = "Sharing"
             => m.type = "JoinRoomRsp" /\ m.status = 0
    BY <1>t, <2>1, SharerHandleFacts
  <2> HIDE DEF m
  <2>3. WillShare(server.state, serverIn)' => WillShare(server.state, serverIn)
    <3>1. WillShare(server.state, serverIn)' => WillShare(server'.state, Tail(serverIn))
      BY <2>2 DEF WillShare, Undecided, DecidingTypes
    <3>2. m = Head(serverIn)
      BY DEF m
    <3>3. WillShare(server'.state, Tail(serverIn)) => WillShare(server.state, serverIn)
      BY <1>t, <2>2, <3>2, ShareTail
    <3> QED BY <3>1, <3>3
  <2> QED BY <1>s, <2>1, <2>2, <2>3 DEF SharerSteady, RoomsOf
<1>10. CASE ServerDetects \/ ServerReconnects \/ ViewerReconnects
  BY <1>10, <1>s DEF ServerDetects, SrvDisconnected, ServerReconnects, SrvReconnected,
                     ViewerReconnects, VwrReconnected
<1>11. CASE RelayDrops
  <2>1. PICK x \in Members :
          /\ Conn(x) # "up" /\ relay' = Forgotten(x) /\ server' = server
          /\ \E n \in Notices(x) :
               IF x = "S" THEN viewerIn' = Delivered("V", n) /\ UNCHANGED serverIn
                          ELSE serverIn' = Delivered("S", n) /\ UNCHANGED viewerIn
    BY <1>11 DEF RelayDrops
  <2>2. CASE x = "S"
    <3>1. server.state = "UnInit" /\ serverIn' = << >>
      BY <1>s, <2>1, <2>2 DEF Conn
    <3>2. ~WillShare(server.state, serverIn)'
      BY <2>1, <3>1 DEF WillShare
    <3> QED BY <1>s, <2>1, <3>1, <3>2 DEF SharerSteady
  <2>3. CASE x = "V"
    <3>1. PICK n \in Notices("V") : serverIn' = Delivered("S", n)
      BY <2>1, <2>3
    <3>2. Stays("S", relay')
      BY <1>t, <2>1, <2>3, ForgottenKept
    <3> QED BY <1>t, <1>n, <2>1, <3>1, <3>2, SharerTold
  <2> QED BY <2>1, <2>2, <2>3 DEF Members
<1>12. CASE RelayCloses
  <2> DEFINE told(x, r) == IF x \in relay.members[r]
                             THEN <<FromRelay("RoomClosed", r, 0)>> ELSE << >>
  <2>1. PICK r \in Rooms : /\ relay' = [relay EXCEPT !.members[r] = {}]
                           /\ serverIn' = Delivered("S", told("S", r))
                           /\ server' = server
    BY <1>12 DEF RelayCloses
  <2>2. CASE "S" \in relay.members[r]
    <3>1. Closing(told("S", r))
      BY <2>2 DEF Closing
    <3> HIDE DEF told
    <3> QED BY <1>t, <2>1, <3>1, ClosingRefuses, SharerTold
  <2>3. CASE "S" \notin relay.members[r]
    <3>1. told("S", r) \in Seq(Undecided)
      BY <1>n, <2>3
    <3> HIDE DEF told
    <3>2. Stays("S", relay')
      BY <1>t, <2>1, <2>3, ClosedKept
    <3> QED BY <1>t, <2>1, <3>1, <3>2, SharerTold
  <2> QED BY <2>2, <2>3
<1> QED BY <1>1, <1>2, <1>3, <1>4, <1>5, <1>6, <1>7, <1>8, <1>9, <1>10, <1>11, <1>12, <1>b
        DEF Next, Calls, Threads, Network

(* What the viewer is told without anything ending for it: no answer to a   *)
(* request to create a room, or one that names a room it is in.             *)
LEMMA ViewerTold ==
  ASSUME ViewerSteady, viewerIn \in Seq(Messages), viewer.room \in RoomIds,
         viewer'.state = viewer.state, viewer'.conn = viewer.conn,
         viewer'.reconnecting = viewer.reconnecting, viewer'.room = viewer.room,
         requesting' = requesting,
         \A M : viewer.requestQ \in Seq(M) => viewer'.requestQ \in Seq(M),
         NEW s \in Seq(Messages), viewerIn' = Delivered("V", s),
         \/ s \in Seq(Entered') /\ Stays("V", relay')
         \/ Closing(s)
         \/ viewer.state \notin {"Sharing", "RoomCreating"}
  PROVE  ViewerSteady'
<1>1. /\ viewer'.conn = IF viewer'.state = "UnInit" THEN "none" ELSE "up"
      /\ ~viewer'.reconnecting
      /\ viewer'.state # "RoomJoining"
      /\ requesting' => viewer'.state = "Init"
  BY DEF ViewerSteady
<1>2. \/ viewer'.requestQ \in Seq(NotQuitting)
      \/ viewer'.state \notin {"Sharing", "RoomCreating"} /\ ~requesting'
  BY DEF ViewerSteady
<1>3. NotQuitting' = NotQuitting /\ NotClosing' = NotClosing
  BY DEF NotQuitting, NotClosing
<1>4. CASE viewer.state \notin {"Sharing", "RoomCreating"}
  BY <1>1, <1>2, <1>3, <1>4 DEF ViewerSteady
<1>5. CASE viewer.state \in {"Sharing", "RoomCreating"}
  <2>1. viewerIn' = viewerIn \o s
    BY <1>5 DEF ViewerSteady, Delivered, Conn, Inbox
  <2>2. CASE Closing(s)
    <3>1. viewerIn' \notin Seq(NotClosing)
      <4>1. PICK r \in Rooms : s = <<FromRelay("RoomClosed", r, 0)>>
        BY <2>2 DEF Closing
      <4>2. FromRelay("RoomClosed", r, 0) \notin NotClosing
        BY RelayFields DEF NotClosing
      <4>3. s \notin Seq(NotClosing)
        <5>1. Len(s) = 1 /\ s[1] = FromRelay("RoomClosed", r, 0)
          BY <4>1
        <5>2. 1 \in 1 .. Len(s)
          BY <5>1
        <5> QED BY <4>2, <5>1, <5>2, ElementOfSeq
      <4> QED BY <2>1, <4>3, ConcatParts
    <3> QED BY <1>1, <1>2, <1>3, <3>1 DEF ViewerSteady
  <2>3. CASE s \in Seq(Entered') /\ Stays("V", relay')
    <3>1. viewerIn' \in Seq(NotClosing) => viewerIn \in Seq(NotClosing)
      BY <2>1, ConcatParts
    <3>2. RoomsOf("V") \subseteq RoomsOf("V")'
      BY <2>3 DEF RoomsOf, Stays
    <3>3. Entered \subseteq Entered'
      BY <3>2 DEF Entered
    <3>4. viewerIn \in Seq(Entered) => viewerIn' \in Seq(Entered')
      <4>1. viewerIn \in Seq(Entered) => viewerIn \in Seq(Entered')
        BY <3>3, SeqMonotonic
      <4> QED BY <2>1, <2>3, <4>1, ConcatProperties
    <3>5. viewer'.state = "Sharing" /\ viewerIn' \in Seq(NotClosing)
            => viewer'.room \in RoomsOf("V")'
      BY <3>1, <3>2 DEF ViewerSteady
    <3>6. viewer'.state = "RoomCreating" /\ viewerIn' \in Seq(NotClosing)
            => viewerIn' \in Seq(Entered')
      BY <3>1, <3>4 DEF ViewerSteady
    <3> QED BY <1>1, <1>2, <1>3, <3>5, <3>6 DEF ViewerSteady
  <2> QED BY <1>5, <2>2, <2>3
<1> QED BY <1>4, <1>5

(* A step of the viewer's that does not make it share, with nothing new     *)
(* from the share server.                                                   *)
LEMMA ViewerMoves ==
  ASSUME ViewerSteady, relay' = relay, viewerIn' \in {viewerIn, << >>},
         viewer'.conn = IF viewer'.state = "UnInit" THEN "none" ELSE "up",
         ~viewer'.reconnecting, viewer'.state # "RoomJoining",
         requesting' => viewer'.state = "Init",
         \/ viewer'.state \notin {"Sharing", "RoomCreating"}
         \/ /\ viewer'.state = viewer.state /\ viewer'.room = viewer.room
            /\ viewerIn' = viewerIn,
         \/ viewer'.requestQ \in Seq(NotQuitting)
         \/ viewer'.state \notin {"Sharing", "RoomCreating"} /\ ~requesting'
  PROVE  ViewerSteady'
<1>1. /\ NotQuitting' = NotQuitting /\ NotClosing' = NotClosing
      /\ RoomsOf("V")' = RoomsOf("V")
  BY DEF NotQuitting, NotClosing, RoomsOf
<1>2. Entered' = Entered
  BY <1>1 DEF Entered
<1> QED BY <1>1, <1>2 DEF ViewerSteady

LEMMA ViewerSteadyStep ==
  ASSUME RoomInv, Next, SharerSteady, ViewerSteady, breaks' = breaks
  PROVE  ViewerSteady'
<1>t. /\ relay \in Relays /\ Handed /\ "S" \in Members /\ "V" \in Members /\ VwrInv
      /\ viewer \in ViewerFields /\ viewerIn \in Seq(Messages) /\ breaks \in Nat
      /\ viewer.requestQ \in Seq(Messages) /\ viewer.room \in RoomIds
  BY ShareRoomAssumption DEF RoomInv, Typed, Members, VwrInv, VwrTypeOK, ViewerFields
<1>s. /\ viewer.conn = IF viewer.state = "UnInit" THEN "none" ELSE "up"
      /\ ~viewer.reconnecting /\ ~server.reconnecting /\ viewer.state # "RoomJoining"
      /\ requesting => viewer.state = "Init"
      /\ \/ viewer.requestQ \in Seq(NotQuitting)
         \/ viewer.state \notin {"Sharing", "RoomCreating"} /\ ~requesting
  BY DEF SharerSteady, ViewerSteady
<1>b. ~ServerBreaks /\ ~ViewerBreaks
  <2>1. breaks + 1 # breaks
    BY <1>t
  <2>2. ServerBreaks \/ ViewerBreaks => breaks' = breaks + 1
    BY DEF ServerBreaks, ViewerBreaks
  <2> QED BY <2>1, <2>2
<1>e. << >> \in Seq(NotQuitting) /\ << >> \in Seq(Messages) /\ << >> \in Seq(Entered')
  OBVIOUS
<1>n. \A s \in Seq(Notes) : s \in Seq(Entered') /\ s \in Seq(Messages)
  <2>1. Notes \subseteq Entered' /\ Notes \subseteq Messages
    BY DEF Notes, Entered
  <2> QED BY <2>1, SeqMonotonic
<1>c. \A s : Closing(s) => s \in Seq(Messages)
  BY ClosingQuiet, QuietFacts
<1>k. ASSUME viewer' = viewer, viewerIn' = viewerIn, requesting' = requesting,
             Stays("V", relay') \/ viewer.state \notin {"Sharing", "RoomCreating"}
      PROVE  ViewerSteady'
  <2>1. NotQuitting' = NotQuitting /\ NotClosing' = NotClosing
    BY DEF NotQuitting, NotClosing
  <2>2. CASE viewer.state \notin {"Sharing", "RoomCreating"}
    BY <1>k, <2>1, <2>2 DEF ViewerSteady
  <2>3. CASE Stays("V", relay')
    <3>1. RoomsOf("V") \subseteq RoomsOf("V")'
      BY <2>3 DEF RoomsOf, Stays
    <3>2. Entered \subseteq Entered'
      BY <3>1 DEF Entered
    <3>3. viewerIn \in Seq(Entered) => viewerIn \in Seq(Entered')
      BY <3>2, SeqMonotonic
    <3> QED BY <1>k, <2>1, <3>1, <3>3 DEF ViewerSteady
  <2> QED BY <1>k, <2>2, <2>3
<1>r. relay' = relay => Stays("V", relay')
  BY DEF Stays
<1>o. ASSUME viewer' = viewer, requesting' = requesting,
             NEW s \in Seq(Messages), viewerIn' = Delivered("V", s),
             \/ s \in Seq(Entered') /\ Stays("V", relay')
             \/ Closing(s)
             \/ viewer.state \notin {"Sharing", "RoomCreating"}
      PROVE  ViewerSteady'
  <2>1. \A M : viewer.requestQ \in Seq(M) => viewer'.requestQ \in Seq(M)
    BY <1>o
  <2> QED BY <1>t, <1>o, <2>1, ViewerTold
<1>1. CASE AcceptInit
  <2>1. CASE UNCHANGED <<server, serverIn, viewerIn, relay>>
    BY <1>1, <1>k, <1>r, <2>1 DEF AcceptInit
  <2>2. CASE relay' = Forgotten("S") /\ \E n \in Notices("S") : viewerIn' = Delivered("V", n)
    <3>1. PICK n \in Notices("S") : viewerIn' = Delivered("V", n)
      BY <2>2
    <3>2. n \in Seq(Entered') /\ n \in Seq(Messages)
      BY <1>n, NoticesQuiet
    <3>3. Stays("V", relay') /\ viewer' = viewer /\ requesting' = requesting
      BY <1>1, <1>t, <2>2, ForgottenKept DEF AcceptInit
    <3> QED BY <1>o, <3>1, <3>2, <3>3
  <2> QED BY <1>1, <2>1, <2>2 DEF AcceptInit
<1>2. CASE \/ AcceptJoin \/ ServerQuits \/ ServerUninit \/ ServerControl \/ ServerHandles
           \/ ServerDetects
  BY <1>2, <1>k, <1>r DEF AcceptJoin, ServerQuits, ServerUninit, ServerControl, ServerHandles,
                          ServerDetects, ui
<1>3. CASE RequestInit
  <2>1. /\ viewer'.state = "Init" /\ viewer'.conn = "up" /\ ~viewer'.reconnecting
        /\ viewer'.requestQ = << >>
    BY <1>3 DEF RequestInit, initViewer, NewViewer
  <2>2. NotQuitting' = NotQuitting
    BY DEF NotQuitting
  <2> QED BY <1>e, <2>1, <2>2 DEF ViewerSteady
<1>4. CASE RequestCreate
  <2>1. requesting /\ ~requesting' /\ viewer.state = "Init" /\ relay' = relay
    BY <1>4, <1>s DEF RequestCreate
  <2>2. vwrCreateShareRoom
    BY <1>4, <2>1 DEF RequestCreate
  <2> DEFINE m == Msg("CreateRoom", "VncViewer", 0, 0)
  <2>3. /\ m \in Messages /\ m.type = "CreateRoom"
        /\ viewer'.requestQ = Append(viewer.requestQ, m)
        /\ viewer'.state = "RoomCreating" /\ viewerIn' = viewerIn
        /\ viewer'.conn = viewer.conn /\ viewer'.reconnecting = viewer.reconnecting
    BY <1>t, <2>2, CreateFacts, ViewerMessageFacts
  <2> HIDE DEF m
  <2>4. viewer'.requestQ \in Seq(NotQuitting')
    <3>1. m \in NotQuitting' /\ NotQuitting' = NotQuitting
      BY <2>3 DEF NotQuitting
    <3> QED BY <1>s, <2>1, <2>3, <3>1, AppendKept
  <2>5. viewerIn' \in Seq(Entered')
    <3>1. viewerIn \in Seq(Answers(0))
      BY <2>1 DEF RoomInv, Session
    <3>2. Answers(0) \subseteq Entered'
      BY VncAssumption DEF Answers, Entered
    <3> QED BY <2>3, <3>1, <3>2, SeqMonotonic
  <2> QED BY <1>s, <2>1, <2>3, <2>4, <2>5 DEF ViewerSteady
<1>5. CASE ViewerQuits
  <2>1. /\ viewer'.state = "Quiting" /\ viewer.state = "Sharing" /\ viewerIn' = viewerIn
        /\ viewer'.conn = viewer.conn /\ viewer'.reconnecting = viewer.reconnecting
        /\ relay' = relay /\ requesting' = requesting
    BY <1>5, <1>t, QuitFacts DEF ViewerQuits, ui
  <2> QED BY <1>s, <2>1, ViewerMoves
<1>6. CASE ViewerUninit
  <2>1. /\ viewer'.state = "UnInit" /\ viewerIn' = << >> /\ viewer'.conn = "none"
        /\ viewer'.reconnecting = viewer.reconnecting /\ viewer'.requestQ = << >>
        /\ relay' = relay /\ ~requesting'
    BY <1>6, <1>t DEF ViewerUninit, uninitViewer, ViewerFields, ui
  <2> QED BY <1>s, <1>e, <2>1, ViewerMoves
<1>7. CASE ViewerControl
  <2>1. /\ viewer'.state = viewer.state /\ viewerIn' = viewerIn /\ viewer'.conn = viewer.conn
        /\ viewer'.reconnecting = viewer.reconnecting /\ viewer'.room = viewer.room
        /\ relay' = relay /\ requesting' = requesting
        /\ \E m \in Messages : /\ viewer'.requestQ = Append(viewer.requestQ, m)
                               /\ m.type \in {"ReqControl", "ControlRsp"}
    BY <1>7, <1>t, ViewerControlFacts DEF ViewerControl, ui
  <2>2. PICK m \in Messages : /\ viewer'.requestQ = Append(viewer.requestQ, m)
                              /\ m.type \in {"ReqControl", "ControlRsp"}
    BY <2>1
  <2>3. m \in NotQuitting
    BY <2>2 DEF NotQuitting
  <2>4. viewer.requestQ \in Seq(NotQuitting) => viewer'.requestQ \in Seq(NotQuitting)
    BY <2>2, <2>3, AppendKept
  <2> QED BY <1>s, <2>1, <2>4, ViewerMoves
<1>8. CASE ServerSends
  <2>1. PICK i \in {1} \cap DOMAIN server.requestQ :
           \E re \in Reactions("S", server.requestQ[i]) :
                relay' = re.relay /\ viewerIn' = Delivered("V", re.peer)
    BY <1>8 DEF ServerSends
  <2> DEFINE m == server.requestQ[i]
  <2>2. PICK re \in Reactions("S", m) : relay' = re.relay /\ viewerIn' = Delivered("V", re.peer)
    BY <2>1
  <2>3. m \in SharerRequests
    BY <2>1, ElementOfSeq, LenProperties DEF RoomInv, SharerInv
  <2>4. m \in Messages /\ m.type \in RequestTypes
    BY <2>3 DEF SharerRequests
  <2>5. viewer' = viewer /\ requesting' = requesting
    BY <1>8 DEF ServerSends, ui
  <2> HIDE DEF m
  <2>6. \/ re.peer \in Seq(Notes) /\ Stays("V", re.relay)
        \/ Closing(re.peer)
        \/ /\ re.peer = <<m>> /\ m.type \in {"ReqControl", "ControlRsp"}
           /\ Stays("V", re.relay)
    BY <1>t, <2>4, SharerReaction
  <2>7. CASE re.peer \in Seq(Notes) /\ Stays("V", re.relay)
    BY <1>n, <1>o, <2>2, <2>5, <2>7
  <2>8. CASE Closing(re.peer)
    BY <1>c, <1>o, <2>2, <2>5, <2>8
  <2>9. CASE /\ re.peer = <<m>> /\ m.type \in {"ReqControl", "ControlRsp"}
             /\ Stays("V", re.relay)
    <3>1. m \in Entered'
      BY <2>4, <2>9 DEF Entered
    <3>2. re.peer \in Seq(Entered') /\ re.peer \in Seq(Messages)
      BY <2>4, <2>9, <3>1
    <3> QED BY <1>o, <2>2, <2>5, <2>9, <3>2
  <2> QED BY <2>6, <2>7, <2>8, <2>9
<1>9. CASE ServerReconnects \/ ViewerReconnects \/ ViewerDetects
  BY <1>9, <1>s DEF ServerReconnects, SrvReconnected, ViewerReconnects, VwrReconnected,
                    ViewerDetects, VwrDisconnected
<1>10. CASE RelayDrops
  <2>1. PICK x \in Members :
          /\ Conn(x) # "up" /\ relay' = Forgotten(x)
          /\ viewer' = viewer /\ requesting' = requesting
          /\ \E n \in Notices(x) :
               IF x = "S" THEN viewerIn' = Delivered("V", n) /\ UNCHANGED serverIn
                          ELSE serverIn' = Delivered("S", n) /\ UNCHANGED viewerIn
    BY <1>10 DEF RelayDrops, ui
  <2>2. CASE x = "S"
    <3>1. PICK n \in Notices("S") : viewerIn' = Delivered("V", n)
      BY <2>1, <2>2
    <3>2. n \in Seq(Entered') /\ n \in Seq(Messages)
      BY <1>n, NoticesQuiet
    <3>3. Stays("V", relay')
      BY <1>t, <2>1, <2>2, ForgottenKept
    <3> QED BY <1>o, <2>1, <3>1, <3>2, <3>3
  <2>3. CASE x = "V"
    <3>1. viewer.state = "UnInit" /\ viewerIn' = viewerIn
      BY <1>s, <2>1, <2>3 DEF Conn
    <3> QED BY <1>k, <2>1, <3>1
  <2> QED BY <2>1, <2>2, <2>3 DEF Members
<1>11. CASE RelayCloses
  <2> DEFINE told(x, r) == IF x \in relay.members[r]
                             THEN <<FromRelay("RoomClosed", r, 0)>> ELSE << >>
  <2>1. PICK r \in Rooms : /\ relay' = [relay EXCEPT !.members[r] = {}]
                           /\ viewerIn' = Delivered("V", told("V", r))
    BY <1>11 DEF RelayCloses
  <2>2. viewer' = viewer /\ requesting' = requesting
    BY <1>11 DEF RelayCloses, ui
  <2>3. CASE "V" \in relay.members[r]
    <3>1. Closing(told("V", r))
      BY <2>3 DEF Closing
    <3> HIDE DEF told
    <3> QED BY <1>c, <1>o, <2>1, <2>2, <3>1
  <2>4. CASE "V" \notin relay.members[r]
    <3>1. told("V", r) \in Seq(Entered') /\ told("V", r) \in Seq(Messages)
      BY <1>e, <2>4
    <3> HIDE DEF told
    <3>2. Stays("V", relay')
      BY <1>t, <2>1, <2>4, ClosedKept
    <3> QED BY <1>o, <2>1, <2>2, <3>1, <3>2
  <2> QED BY <2>3, <2>4
<1>12. CASE ViewerSends
  <2>1. PICK i \in {1} \cap DOMAIN viewer.requestQ :
           /\ VwrSend(viewer.requestQ[i])
           /\ \E re \in Reactions("V", viewer.requestQ[i]) :
                relay' = re.relay /\ viewerIn' = Delivered("V", re.self)
    BY <1>12 DEF ViewerSends
  <2> DEFINE m == viewer.requestQ[i]
  <2>2. PICK re \in Reactions("V", m) : relay' = re.relay /\ viewerIn' = Delivered("V", re.self)
    BY <2>1
  <2>3. \A M : viewer.requestQ \in Seq(M) => m \in M
    BY <2>1, ElementOfSeq, LenProperties
  <2>4. PICK c \in Rooms \cup {0} : Session(c)
    BY DEF RoomInv
  <2>5. m \in Messages /\ m.type \in RequestTypes
    BY <2>3, <2>4 DEF Session, ViewerRequests
  <2>6. viewer.requestQ # << >> /\ viewer' = [viewer EXCEPT !.requestQ = Tail(viewer.requestQ)]
    BY <2>1 DEF VwrSend
  <2>7. /\ viewer'.requestQ = Tail(viewer.requestQ) /\ viewer'.room = viewer.room
        /\ viewer'.state = viewer.state /\ viewer'.conn = viewer.conn
        /\ viewer'.reconnecting = viewer.reconnecting
    BY <1>t, <2>6 DEF ViewerFields
  <2>8. \A M : viewer.requestQ \in Seq(M) => viewer'.requestQ \in Seq(M)
    BY <2>6, <2>7, TailKept
  <2>9. m.type = "QuitRoom" => viewer.state \notin {"Sharing", "RoomCreating"}
    BY <1>s, <2>3 DEF NotQuitting
  <2> HIDE DEF m
  <2>10. /\ m.type # "QuitRoom" => Stays("V", re.relay)
         /\ \/ \E r \in Rooms \ relay.used :
                 /\ re.self = <<FromRelay("CreateRoomRsp", r, 0)>>
                 /\ "V" \in re.relay.members[r]
            \/ re.self \in Seq(PlainAnswers)
    BY <1>t, <2>5, ViewerReaction
  <2>11. re.self \in Seq(Entered') /\ re.self \in Seq(Messages)
    <3>1. CASE \E r \in Rooms \ relay.used :
                 /\ re.self = <<FromRelay("CreateRoomRsp", r, 0)>>
                 /\ "V" \in re.relay.members[r]
      <4>1. PICK r \in Rooms \ relay.used :
                 /\ re.self = <<FromRelay("CreateRoomRsp", r, 0)>>
                 /\ "V" \in re.relay.members[r]
        BY <3>1
      <4>2. FromRelay("CreateRoomRsp", r, 0) \in Messages
        BY <4>1, RelayMessages
      <4>3. FromRelay("CreateRoomRsp", r, 0) \in Entered'
        BY <2>2, <4>1, <4>2, RelayFields DEF Entered, RoomsOf
      <4> QED BY <4>1, <4>2, <4>3
    <3>2. CASE re.self \in Seq(PlainAnswers)
      <4>1. PlainAnswers \subseteq Entered' /\ PlainAnswers \subseteq Messages
        BY DEF PlainAnswers, Entered
      <4> QED BY <3>2, <4>1, SeqMonotonic
    <3> QED BY <2>10, <3>1, <3>2
  <2>12. requesting' = requesting
    BY <1>12 DEF ViewerSends, ui
  <2>13. Stays("V", relay') \/ viewer.state \notin {"Sharing", "RoomCreating"}
    BY <2>2, <2>9, <2>10
  <2> QED BY <1>t, <2>2, <2>7, <2>8, <2>11, <2>12, <2>13, ViewerTold
<1>13. CASE ViewerHandles
  <2> DEFINE m == Head(viewerIn)
  <2>1. VwrHandle /\ relay' = relay /\ requesting' = requesting
    BY <1>13 DEF ViewerHandles, ui
  <2>2. /\ viewerIn # << >> /\ viewerIn' = Tail(viewerIn)
        /\ viewer.state # "UnInit" /\ viewer'.state # "UnInit"
        /\ viewer'.conn = viewer.conn /\ viewer'.reconnecting = viewer.reconnecting
        /\ \/ viewer'.requestQ = viewer.requestQ
           \/ viewer.state = "Sharing" /\ viewer'.state = "Quiting"
        /\ viewer'.state \in {"Sharing", "Quiting"} =>
             \/ /\ viewer.state \in {"Sharing", viewer'.state}
                /\ viewer'.room = viewer.room /\ m.type # "RoomClosed"
             \/ /\ viewer.state = "RoomCreating" /\ m.type = "CreateRoomRsp"
                /\ m.status = 0 /\ viewer'.room = m.room
             \/ viewer.state = "RoomJoining"
        /\ viewer'.state = "RoomCreating"
             => viewer.state = "RoomCreating" /\ m.type # "RoomClosed"
        /\ viewer'.state = "RoomJoining" => viewer.state = "RoomJoining"
        /\ viewer.state = "Init" => viewer'.state = "Init"
    BY <1>t, <2>1, ViewerHandleFacts
  <2>3. \A M : viewerIn \in Seq(M) => m \in M /\ Tail(viewerIn) \in Seq(M)
    BY <2>2, TailKept
  <2>4. m.type # "RoomClosed" /\ viewerIn' \in Seq(NotClosing) => viewerIn \in Seq(NotClosing)
    <3>1. m \in Messages
      BY <1>t, <2>3
    <3>2. m.type # "RoomClosed" => m \in NotClosing
      BY <3>1 DEF NotClosing
    <3> QED BY <1>t, <2>2, <3>2, HeadAndTail
  <2> HIDE DEF m
  <2>5. /\ NotQuitting' = NotQuitting /\ NotClosing' = NotClosing
        /\ RoomsOf("V")' = RoomsOf("V")
    BY <2>1 DEF NotQuitting, NotClosing, RoomsOf
  <2>6. Entered' = Entered
    BY <2>5 DEF Entered
  <2>7. viewer'.state = "Sharing" /\ viewerIn' \in Seq(NotClosing)
          => viewer'.room \in RoomsOf("V")
    <3>1. SUFFICES ASSUME viewer'.state = "Sharing", viewerIn' \in Seq(NotClosing)
                   PROVE  viewer'.room \in RoomsOf("V")
      OBVIOUS
    <3>2. CASE viewer.state = "Sharing" /\ viewer'.room = viewer.room /\ m.type # "RoomClosed"
      BY <2>4, <3>1, <3>2 DEF ViewerSteady
    <3>3. CASE /\ viewer.state = "RoomCreating" /\ m.type = "CreateRoomRsp"
               /\ m.status = 0 /\ viewer'.room = m.room
      <4>1. viewerIn \in Seq(Entered)
        BY <2>4, <3>1, <3>3 DEF ViewerSteady
      <4>2. m \in Entered
        BY <2>3, <4>1
      <4> QED BY <3>3, <4>2 DEF Entered
    <3> QED BY <1>s, <2>2, <3>1, <3>2, <3>3
  <2>8. viewer'.state = "RoomCreating" /\ viewerIn' \in Seq(NotClosing)
          => viewerIn' \in Seq(Entered)
    BY <2>2, <2>3, <2>4 DEF ViewerSteady
  <2>9. \/ viewer'.requestQ \in Seq(NotQuitting)
        \/ viewer'.state \notin {"Sharing", "RoomCreating"} /\ ~requesting'
    BY <1>s, <2>1, <2>2
  <2>10. requesting' => viewer'.state = "Init"
    BY <1>s, <2>1, <2>2
  <2> QED BY <1>s, <2>2, <2>5, <2>6, <2>7, <2>8, <2>9, <2>10 DEF ViewerSteady
<1> QED BY <1>1, <1>2, <1>3, <1>4, <1>5, <1>6, <1>7, <1>8, <1>9, <1>10, <1>11, <1>12, <1>13,
           <1>b
        DEF Next, Calls, Threads, Network

LEMMA SteadyStep == RoomInv /\ SteadyInv /\ [Next]_vars => SteadyInv'
<1> SUFFICES ASSUME RoomInv, SteadyInv, [Next]_vars PROVE SteadyInv'
  OBVIOUS
<1>1. CASE Next
  <2>1. breaks \in Nat
    BY <1>1, ShareRoomAssumption DEF RoomInv, Typed
  <2>2. breaks' = breaks \/ breaks' = breaks + 1
    BY <1>1 DEF Next, Calls, Threads, Network, AcceptInit, AcceptJoin, RequestInit,
       RequestCreate, ServerQuits, ViewerQuits, ServerUninit, ViewerUninit, ServerControl,
       ViewerControl, ServerSends, ViewerSends, ServerHandles, ViewerHandles, ServerDetects,
       ViewerDetects, ServerReconnects, ViewerReconnects, ServerBreaks, ViewerBreaks,
       RelayDrops, RelayCloses
  <2>3. breaks' = 0 => breaks = 0 /\ breaks' = breaks
    BY <2>1, <2>2
  <2> QED BY <1>1, <2>3, SharerSteadyStep, ViewerSteadyStep DEF SteadyInv
<1>2. CASE UNCHANGED vars
  BY <1>2 DEF vars, SteadyInv, SharerSteady, ViewerSteady, WillShare, Undecided, DecidingTypes,
     NotClosing, NotQuitting, Entered, RoomsOf
<1> QED BY <1>1, <1>2

LEMMA InitSteadyInv == Init => SteadyInv
<1> SUFFICES ASSUME Init PROVE SteadyInv
  OBVIOUS
<1>1. SharerSteady
  BY DEF Init, SrvInit, SharerSteady, WillShare
<1>2. ViewerSteady
  BY DEF Init, VwrInit, NewViewer, ViewerSteady
<1> QED BY <1>1, <1>2 DEF SteadyInv

(* Until a connection breaks, what each endpoint believes of its room is    *)
(* what the share server will have told it by the time its queues are       *)
(* empty: whoever quits, whatever is closed or refused, when nothing is     *)
(* under way an endpoint that counts as sharing is a member of a room, the  *)
(* viewer of the one it names.                                              *)
THEOREM SharersAreMembers == Spec => []SharingMeansMember
<1>1. RoomInv /\ SteadyInv => SharingMeansMember
  <2> SUFFICES ASSUME RoomInv, SteadyInv, breaks = 0, AtRest
               PROVE  /\ server.state = "Sharing" => RoomsOf("S") # {}
                      /\ viewer.state = "Sharing" => viewer.room \in RoomsOf("V")
    BY DEF SharingMeansMember
  <2>1. serverIn = << >> /\ viewerIn = << >> /\ SharerSteady /\ ViewerSteady
    BY DEF AtRest, SteadyInv
  <2>2. serverIn \in Seq(Undecided) /\ viewerIn \in Seq(NotClosing)
    BY <2>1
  <2> QED BY <2>1, <2>2 DEF SharerSteady, ViewerSteady, WillShare
<1> QED BY <1>1, RoomInvariance, InitSteadyInv, SteadyStep, PTL DEF Spec
=============================================================================
