------------------------ MODULE RemoteControlProofs -------------------------
(* The sharer is never driven without its endpoint knowing: for every       *)
(* number of rooms and of requests of either side.                          *)
EXTENDS RemoteControl, VncEndpointProofs

-----------------------------------------------------------------------------
(* The argument.  A message grants if it can put the receiver in control or *)
(* lead it to: a request to be controlled, or the answer 200.  As long as   *)
(* the sharer has not decided (its input is as it started) and does not ask *)
(* for control itself, nothing that grants is queued or under way to the    *)
(* viewer, and the viewer is view only.                                     *)
Grants(m) ==
  \/ m.type = "ReqControl" /\ m.status = 1
  \/ m.type = "ControlRsp" /\ m.status = 200

NoGrantIn(q) == \A i \in 1 .. Len(q) : ~Grants(q[i])

Untouched ==
  /\ viewer.viewOnly = TRUE /\ viewer.rc \in {"Normal", "ReqControling"}
  /\ NoGrantIn(server.requestQ) /\ NoGrantIn(viewerIn)

ConsentFirst ==
  server.input = "default" /\ server.rc # "ReqControling" => Untouched

IInv == SrvInv /\ VwrInv /\ ConsentFirst

(* A queue stays free of grants when anything else is added ... *)
LEMMA NoGrantAppend ==
  ASSUME NEW q \in Seq(Messages), NEW m \in Messages, NoGrantIn(q), ~Grants(m)
  PROVE  NoGrantIn(Append(q, m))
BY DEF NoGrantIn

(* ... and when its head is taken, which is then no grant either. *)
LEMMA NoGrantTail ==
  ASSUME NEW q \in Seq(Messages), q # << >>, NoGrantIn(q)
  PROVE  NoGrantIn(Tail(q)) /\ ~Grants(Head(q))
BY DEF NoGrantIn

(* Two endpoints that have just joined satisfy the invariant. *)
LEMMA InitIInv == Init => IInv
<1> SUFFICES ASSUME Init PROVE IInv
  OBVIOUS
<1>1. PICK r \in Rooms :
        /\ server = [state |-> "Sharing", rc |-> "Normal", room |-> r,
                     sending |-> TRUE, reconnecting |-> FALSE, conn |-> "up",
                     requestQ |-> << >>, input |-> "default",
                     asked |-> 0]
        /\ viewer = [state |-> "Sharing", rc |-> "Normal", room |-> r,
                     reconnecting |-> FALSE, conn |-> "up",
                     requestQ |-> << >>, viewOnly |-> TRUE,
                     asked |-> 0]
        /\ serverIn = << >> /\ viewerIn = << >>
  BY DEF Init
<1>2. server \in ServerFields /\ viewer \in ViewerFields
  BY <1>1, Names, VwrNames, Bounds, VncAssumption DEF ServerFields, ViewerFields
<1>3. /\ server.requestQ = << >> /\ server.rc = "Normal" /\ server.input = "default"
      /\ viewer.requestQ = << >> /\ viewer.rc = "Normal" /\ viewer.viewOnly = TRUE
      /\ serverIn = << >> /\ viewerIn = << >>
  BY <1>1
<1>4. SrvInv
  BY <1>2, <1>3, Names, Bounds, VncAssumption
     DEF SrvInv, SrvTypeOK, InputOnlyWhileGranted, GrantTakesInput
<1>5. VwrInv
  BY <1>2, <1>3, Names, Bounds, VncAssumption
     DEF VwrInv, VwrTypeOK, ViewOnlyUnlessControling
<1>6. ConsentFirst
  BY <1>3 DEF ConsentFirst, Untouched, NoGrantIn
<1> QED BY <1>4, <1>5, <1>6 DEF IInv

(* Both endpoints keep their invariants next to each other. *)
LEMMA EndpointsKept == SrvInv /\ VwrInv /\ [Next]_vars => SrvInv' /\ VwrInv'
<1> SUFFICES ASSUME SrvInv, VwrInv, [Next]_vars PROVE SrvInv' /\ VwrInv'
  OBVIOUS
<1>t. /\ server \in ServerFields /\ server.requestQ \in Seq(Messages)
      /\ viewer \in ViewerFields /\ viewer.requestQ \in Seq(Messages)
      /\ serverIn \in Seq(Messages) /\ viewerIn \in Seq(Messages)
      /\ Len(server.requestQ) <= QueueBound + 1
      /\ Len(viewer.requestQ) <= QueueBound + 1
  BY DEF SrvInv, SrvTypeOK, ServerFields, VwrInv, VwrTypeOK, ViewerFields
<1>s. server' = server /\ serverIn' \in Seq(Messages) => SrvInv'
  BY <1>t, SrvInvStep
<1>v. viewer' = viewer /\ viewerIn' \in Seq(Messages) => VwrInv'
  BY <1>t, VwrInvStep
<1>1. CASE ServerCalls
  BY <1>1, <1>t, <1>v, ControlCallInv DEF ServerCalls
<1>2. CASE ViewerCalls
  BY <1>2, <1>t, <1>s, VwrCallInv DEF ViewerCalls
<1>3. CASE ServerSends
  <2>1. /\ server.requestQ # << >> /\ SrvSend(Head(server.requestQ))
        /\ viewerIn' = Append(viewerIn, Head(server.requestQ))
        /\ UNCHANGED <<serverIn, viewer>>
    BY <1>3 DEF ServerSends
  <2>2. Head(server.requestQ) \in Messages
    BY <1>t, <2>1, HeadTailProperties
  <2>3. 1 \in DOMAIN server.requestQ /\ Head(server.requestQ) = server.requestQ[1]
    BY <1>t, <2>1
  <2>4. Sends
    BY <2>1, <2>3 DEF Sends
  <2>5. SrvInv'
    BY <2>4, ThreadInv
  <2>6. viewerIn' \in Seq(Messages)
    BY <1>t, <2>1, <2>2, Queued
  <2> QED BY <1>v, <2>1, <2>5, <2>6
<1>4. CASE ViewerSends
  <2>1. /\ viewer.requestQ # << >>
        /\ viewer' = [viewer EXCEPT !.requestQ = Tail(viewer.requestQ)]
        /\ serverIn' = Append(serverIn, Head(viewer.requestQ))
        /\ UNCHANGED <<viewerIn, server>>
    BY <1>4 DEF ViewerSends, VwrSend
  <2>2. Head(viewer.requestQ) \in Messages
    BY <1>t, <2>1, HeadTailProperties
  <2>3. serverIn' \in Seq(Messages)
    BY <1>t, <2>1, <2>2, Queued
  <2> DEFINE q == Tail(viewer.requestQ)
  <2>4. q \in Seq(Messages) /\ Len(q) <= QueueBound + 1
    BY <1>t, <2>1, VncAssumption, Bounds, HeadTailProperties
  <2>5. viewer' = [viewer EXCEPT !.requestQ = q]
    BY <2>1
  <2> HIDE DEF q
  <2>6. /\ viewer' \in ViewerFields /\ viewer'.requestQ = q
        /\ viewer'.rc = viewer.rc /\ viewer'.viewOnly = viewer.viewOnly
    BY <1>t, <2>4, <2>5 DEF ViewerFields
  <2>7. VwrInv'
    BY <1>t, <2>1, <2>4, <2>6, VwrInvStep
  <2> QED BY <1>s, <2>1, <2>3, <2>7
<1>5. CASE ServerHandles
  BY <1>5, <1>t, <1>v, HandlerInv DEF ServerHandles
<1>6. CASE ViewerHandles
  BY <1>6, <1>t, <1>s, VwrHandlerInv DEF ViewerHandles
<1>7. CASE UNCHANGED vars
  BY <1>7, <1>t, <1>s, <1>v DEF vars
<1> QED BY <1>1, <1>2, <1>3, <1>4, <1>5, <1>6, <1>7 DEF Next

(* What the sharer does on its own leaves ConsentFirst: a decision ends it, *)
(* a request of its own suspends it, and nothing else queues a grant.       *)
LEMMA ServerConsent == IInv /\ (ServerCalls \/ ServerHandles) => ConsentFirst'
<1> SUFFICES ASSUME IInv, ServerCalls \/ ServerHandles,
                    server'.input = "default", server'.rc # "ReqControling"
             PROVE  Untouched'
  BY DEF ConsentFirst
<1>t. server \in ServerFields /\ server.requestQ \in Seq(Messages) /\ SrvTypeOK
  BY DEF IInv, SrvInv, SrvTypeOK, ServerFields
<1>u. viewer' = viewer /\ viewerIn' = viewerIn
  BY DEF ServerCalls, ServerHandles
<1>k. ASSUME server.input = "default", server.rc # "ReqControling",
             NoGrantIn(server.requestQ) => NoGrantIn(server'.requestQ)
      PROVE  Untouched'
  <2>1. Untouched
    BY <1>k DEF IInv, ConsentFirst
  <2> QED BY <1>k, <1>u, <2>1 DEF Untouched
<1>1. CASE ServerCalls
  <2>1. CASE reqRemoteControl
    <3>1. server'.rc = "ReqControling"
      BY <2>1, <1>t DEF reqRemoteControl, ServerFields
    <3> QED BY <3>1
  <2>2. CASE stopRemoteControl
    <3>1. server'.input = "disabled"
      BY <2>2, <1>t DEF stopRemoteControl, ServerFields
    <3> QED BY <3>1
  <2>3. CASE \E r \in RoomIds : acceptRemoteControl(r) \/ rejectRemoteControl(r)
    <3>1. server'.input \in {"enabled", "disabled"}
      BY <2>3, <1>t DEF acceptRemoteControl, rejectRemoteControl, ServerFields
    <3> QED BY <3>1
  <2> QED BY <1>1, <2>1, <2>2, <2>3 DEF ServerCalls, SrvControlCall
<1>2. CASE ServerHandles
  <2> DEFINE m == Head(serverIn)
             q == Append(server.requestQ, Msg("QuitRoom", "VncServer", server.room, 0))
  <2>h. \/ SrvOnCreateRoom(m) \/ SrvOnRoomClosed(m) \/ SrvOnJoinRoom(m)
        \/ SrvOnQuitRoom(m) \/ SrvOnExitRoom(m) \/ SrvOnReqInitMsg(m)
        \/ SrvOnReqControl(m) \/ SrvOnControlRsp(m)
    BY <1>2 DEF ServerHandles, SrvHandle
  <2> HIDE DEF m
  <2>1. CASE \/ SrvOnCreateRoom(m) \/ SrvOnRoomClosed(m) \/ SrvOnJoinRoom(m)
             \/ SrvOnQuitRoom(m) \/ SrvOnReqInitMsg(m)
    <3>1. /\ server'.requestQ = server.requestQ
          /\ server'.rc = server.rc /\ server'.input = server.input
      BY <2>1, <1>t DEF SrvOnCreateRoom, SrvOnRoomClosed, SrvOnJoinRoom, SrvOnQuitRoom,
                        SrvOnReqInitMsg, ServerFields
    <3> QED BY <1>k, <3>1
  <2>2. CASE SrvOnExitRoom(m)
    <3>1. server' = server \/ server' = [server EXCEPT !.requestQ = q]
      BY <2>2 DEF SrvOnExitRoom, SrvRequest
    <3>2. NoGrantIn(server.requestQ) => NoGrantIn(q)
      <4>1. server.room \in RoomIds
        BY <1>t DEF ServerFields
      <4>2. Msg("QuitRoom", "VncServer", server.room, 0) \in Messages
        BY <1>t, <4>1, SrvMessages
      <4>3. ~Grants(Msg("QuitRoom", "VncServer", server.room, 0))
        BY DEF Grants, Msg
      <4> QED BY <1>t, <4>2, <4>3, NoGrantAppend
    <3> HIDE DEF q
    <3>3. /\ server'.requestQ \in {server.requestQ, q}
          /\ server'.rc = server.rc /\ server'.input = server.input
      BY <3>1, <1>t DEF ServerFields
    <3> QED BY <1>k, <3>2, <3>3
  <2>3. CASE SrvOnReqControl(m)
    <3>1. /\ server'.requestQ = server.requestQ /\ server.rc # "ReqControling"
          /\ server'.input = server.input
      BY <2>3, <1>t DEF SrvOnReqControl, ServerFields
    <3> QED BY <1>k, <3>1
  <2>4. CASE SrvOnControlRsp(m)
    <3>1. \/ server'.input \in {"enabled", "disabled"}
          \/ server' = server
      BY <2>4, <1>t DEF SrvOnControlRsp, ServerFields
    <3> QED BY <1>k, <3>1
  <2> QED BY <2>h, <2>1, <2>2, <2>3, <2>4
<1> QED BY <1>1, <1>2

(* What the viewer does on its own: while nothing that grants reaches it,   *)
(* it can only ask, stop asking and be refused.                             *)
LEMMA ViewerConsent == IInv /\ (ViewerCalls \/ ViewerHandles) => ConsentFirst'
<1> SUFFICES ASSUME IInv, ViewerCalls \/ ViewerHandles, Untouched,
                    server' = server, serverIn' = serverIn
             PROVE  Untouched'
  BY DEF ConsentFirst, IInv, ViewerCalls, ViewerHandles
<1>t. viewer \in ViewerFields /\ viewerIn \in Seq(Messages)
  BY DEF IInv, VwrInv, VwrTypeOK, ViewerFields
<1>k. ASSUME viewer'.viewOnly = TRUE, viewer'.rc \in {"Normal", "ReqControling"},
             NoGrantIn(viewerIn')
      PROVE  Untouched'
  BY <1>k DEF Untouched
<1>1. CASE ViewerCalls
  <2>0. viewerIn' = viewerIn /\ viewer.rc # "RecvReqControling"
    BY <1>1 DEF ViewerCalls, Untouched, VwrControlCall, vwrReqRemoteControl, vwrStopRemoteControl,
                vwrAcceptRemoteControl, vwrRejectRemoteControl
  <2>1. vwrReqRemoteControl \/ vwrStopRemoteControl
    BY <1>1, <2>0 DEF ViewerCalls, VwrControlCall, vwrAcceptRemoteControl, vwrRejectRemoteControl
  <2>2. viewer'.viewOnly = TRUE /\ viewer'.rc \in {"Normal", "ReqControling"}
    BY <2>1, <1>t DEF vwrReqRemoteControl, vwrStopRemoteControl, ViewerFields, Untouched
  <2> QED BY <1>k, <2>0, <2>2 DEF Untouched
<1>2. CASE ViewerHandles
  <2> DEFINE m == Head(viewerIn)
  <2>1. viewerIn # << >> /\ viewerIn' = Tail(viewerIn)
    BY <1>2 DEF ViewerHandles, VwrHandle
  <2>2. NoGrantIn(viewerIn') /\ ~Grants(m)
    BY <1>t, <2>1, NoGrantTail DEF Untouched
  <2>h. \/ VwrOnCreateRoom(m) \/ VwrOnRoomClosed(m) \/ VwrOnJoinRoom(m)
        \/ VwrOnQuitRoom(m) \/ VwrOnExitRoom(m) \/ VwrOnReqInitMsg(m)
        \/ VwrOnReqControl(m) \/ VwrOnControlRsp(m)
    BY <1>2 DEF ViewerHandles, VwrHandle
  <2> HIDE DEF m
  <2>3. CASE \/ VwrOnCreateRoom(m) \/ VwrOnRoomClosed(m) \/ VwrOnJoinRoom(m)
             \/ VwrOnQuitRoom(m) \/ VwrOnExitRoom(m) \/ VwrOnReqInitMsg(m)
    <3>1. viewer'.viewOnly = viewer.viewOnly /\ viewer'.rc = viewer.rc
      BY <2>3, <1>t DEF VwrOnCreateRoom, VwrOnRoomClosed, VwrOnJoinRoom, VwrOnQuitRoom,
                        VwrOnExitRoom, VwrOnReqInitMsg, ViewerFields
    <3> QED BY <1>k, <2>2, <3>1 DEF Untouched
  <2>4. CASE VwrOnReqControl(m)
    <3>1. viewer' = viewer
      BY <2>4, <2>2 DEF VwrOnReqControl, Grants, Untouched
    <3> QED BY <1>k, <2>2, <3>1 DEF Untouched
  <2>5. CASE VwrOnControlRsp(m)
    <3>1. \/ viewer' = viewer
          \/ viewer' = [viewer EXCEPT !.rc = "Normal", !.viewOnly = TRUE]
      BY <2>5, <2>2 DEF VwrOnControlRsp, Grants
    <3>2. viewer'.viewOnly = TRUE /\ viewer'.rc \in {"Normal", "ReqControling"}
      BY <3>1, <1>t DEF ViewerFields, Untouched
    <3> QED BY <1>k, <2>2, <3>2
  <2> QED BY <2>h, <2>3, <2>4, <2>5
<1> QED BY <1>1, <1>2

(* Sending moves a message from one place to the next. *)
LEMMA SendConsent == IInv /\ (ServerSends \/ ViewerSends \/ UNCHANGED vars) => ConsentFirst'
<1> SUFFICES ASSUME IInv, ServerSends \/ ViewerSends \/ UNCHANGED vars
             PROVE  ConsentFirst'
  OBVIOUS
<1>t. /\ server \in ServerFields /\ server.requestQ \in Seq(Messages)
      /\ viewer \in ViewerFields /\ viewerIn \in Seq(Messages)
  BY DEF IInv, SrvInv, SrvTypeOK, ServerFields, VwrInv, VwrTypeOK
<1>c. ConsentFirst
  BY DEF IInv
<1>1. CASE ServerSends
  <2>1. /\ server.requestQ # << >>
        /\ server' = [server EXCEPT !.requestQ = Tail(server.requestQ)]
        /\ viewerIn' = Append(viewerIn, Head(server.requestQ))
        /\ viewer' = viewer
    BY <1>1 DEF ServerSends, SrvSend
  <2>2. Head(server.requestQ) \in Messages
    BY <1>t, <2>1, HeadTailProperties
  <2>3. NoGrantIn(server.requestQ) => NoGrantIn(Tail(server.requestQ)) /\ ~Grants(Head(server.requestQ))
    BY <1>t, <2>1, NoGrantTail
  <2>4. Untouched => NoGrantIn(Tail(server.requestQ)) /\ NoGrantIn(viewerIn')
    BY <1>t, <2>1, <2>2, <2>3, NoGrantAppend DEF Untouched
  <2>5. /\ server'.input = server.input /\ server'.rc = server.rc
        /\ server'.requestQ = Tail(server.requestQ)
    BY <1>t, <2>1 DEF ServerFields
  <2> QED BY <1>c, <2>1, <2>4, <2>5 DEF ConsentFirst, Untouched
<1>2. CASE ViewerSends
  <2>1. /\ viewer' = [viewer EXCEPT !.requestQ = Tail(viewer.requestQ)]
        /\ UNCHANGED <<viewerIn, server>>
    BY <1>2 DEF ViewerSends, VwrSend
  <2>2. viewer'.viewOnly = viewer.viewOnly /\ viewer'.rc = viewer.rc
    BY <1>t, <2>1 DEF ViewerFields
  <2> QED BY <1>c, <2>1, <2>2 DEF ConsentFirst, Untouched
<1>3. CASE UNCHANGED vars
  BY <1>c, <1>3 DEF vars, ConsentFirst, Untouched
<1> QED BY <1>1, <1>2, <1>3

(* IInv is inductive. *)
THEOREM Invariance == Spec => []IInv
<1>1. IInv /\ [Next]_vars => IInv'
  BY EndpointsKept, ServerConsent, ViewerConsent, SendConsent DEF IInv, Next
<1> QED BY InitIInv, <1>1, PTL DEF Spec

(* The viewer drives the sharer's desktop only while the sharer's endpoint  *)
(* knows it, although its input is on from the start: however requests,     *)
(* answers and stops of the two sides cross, and however many there are.    *)
THEOREM ControlNeedsConsent == Spec => []EffectiveControlIsConsented
<1>1. IInv => EffectiveControlIsConsented
  <2> SUFFICES ASSUME IInv, ~viewer.viewOnly, server.input # "disabled",
                      server.rc \notin {"Controling", "ReqControling"}
               PROVE  FALSE
    BY DEF EffectiveControlIsConsented, EffectiveControl
  <2>1. server.input \in {"default", "enabled", "disabled"}
    BY DEF IInv, SrvInv, SrvTypeOK, ServerFields, InputModes
  <2>2. server.input # "enabled"
    BY DEF IInv, SrvInv, InputOnlyWhileGranted
  <2>3. Untouched
    BY <2>1, <2>2 DEF IInv, ConsentFirst
  <2> QED BY <2>3 DEF Untouched
<1> QED BY Invariance, <1>1, PTL

(* The viewer forwards its mouse and keyboard exactly while it is in        *)
(* control.                                                                 *)
THEOREM ViewOnlyFollows == Spec => []ViewOnlyUnlessControling
<1>1. IInv => ViewOnlyUnlessControling
  BY DEF IInv, VwrInv
<1> QED BY Invariance, <1>1, PTL

-----------------------------------------------------------------------------
(* Who is in control when nothing is under way.  A direction is the word of *)
(* the messages on their way from one side to the other, sent or queued;    *)
(* what counts is of which kind they are and in which order they come.      *)
Kind(m) ==
  CASE m.type = "ReqControl" /\ m.status = 1   -> "ask"
    [] m.type = "ReqControl" /\ m.status = 0   -> "stop"
    [] m.type = "ControlRsp" /\ m.status = 200 -> "grant"
    [] m.type = "ControlRsp" /\ m.status = 603 -> "refuse"
    [] OTHER -> "other"
Answers == {"grant", "refuse"}

Has(w, kinds)  == \E i \in 1 .. Len(w) : Kind(w[i]) \in kinds
Once(w, kinds) == \A i, j \in 1 .. Len(w) :
                    Kind(w[i]) \in kinds /\ Kind(w[j]) \in kinds => i = j
EndsIn(w, kind) == w # << >> /\ Kind(w[Len(w)]) = kind
(* a stop follows whatever is of this kind *)
Revoked(w, kind) ==
  \A i \in 1 .. Len(w) :
    Kind(w[i]) = kind => \E j \in 1 .. Len(w) : i < j /\ Kind(w[j]) = "stop"

(* What a word that grows at its end has of which kind. *)
LEMMA WordGrows ==
  ASSUME NEW w \in Seq(Messages), NEW m \in Messages
  PROVE  /\ Append(w, m) \in Seq(Messages) /\ Append(w, m) # << >>
         /\ \A kinds : Has(Append(w, m), kinds) <=> Has(w, kinds) \/ Kind(m) \in kinds
         /\ \A kinds : Once(w, kinds) /\ ~(Has(w, kinds) /\ Kind(m) \in kinds)
                         => Once(Append(w, m), kinds)
         /\ \A kind : EndsIn(Append(w, m), kind) <=> Kind(m) = kind
         /\ \A kind : Kind(m) = "stop" /\ kind # "stop" => Revoked(Append(w, m), kind)
         /\ \A kind : Kind(m) # kind /\ Revoked(w, kind) => Revoked(Append(w, m), kind)
<1> DEFINE v == Append(w, m)
<1>1. /\ v \in Seq(Messages) /\ Len(w) \in Nat /\ Len(v) = Len(w) + 1 /\ v # << >>
      /\ v[Len(v)] = m /\ \A i \in 1 .. Len(w) : v[i] = w[i]
  BY AppendProperties, LenProperties
<1>2. \A i \in 1 .. Len(v) : i \in 1 .. Len(w) \/ i = Len(v)
  BY <1>1
<1>3. 1 .. Len(w) \subseteq 1 .. Len(v) /\ Len(v) \in 1 .. Len(v)
      /\ \A i \in 1 .. Len(w) : i < Len(v)
  BY <1>1
<1> HIDE DEF v
<1>4. \A kinds : Has(v, kinds) <=> Has(w, kinds) \/ Kind(m) \in kinds
  BY <1>1, <1>2, <1>3, Zenon DEF Has
<1>5. \A kinds : Once(w, kinds) /\ ~(Has(w, kinds) /\ Kind(m) \in kinds) => Once(v, kinds)
  BY <1>1, <1>2, <1>3, Zenon DEF Once, Has
<1>6. \A kind : EndsIn(v, kind) <=> Kind(m) = kind
  BY <1>1 DEF EndsIn
<1>7. \A kind : Kind(m) = "stop" /\ kind # "stop" => Revoked(v, kind)
  BY <1>1, <1>2, <1>3, Zenon DEF Revoked
<1>8. \A kind : Kind(m) # kind /\ Revoked(w, kind) => Revoked(v, kind)
  BY <1>1, <1>2, <1>3, Zenon DEF Revoked
<1> QED BY <1>1, <1>4, <1>5, <1>6, <1>7, <1>8 DEF v

(* ... and one whose head is taken. *)
LEMMA WordShrinks ==
  ASSUME NEW w \in Seq(Messages), w # << >>
  PROVE  /\ Tail(w) \in Seq(Messages) /\ Head(w) \in Messages
         /\ \A kinds : Has(w, kinds) <=> Has(Tail(w), kinds) \/ Kind(Head(w)) \in kinds
         /\ \A kinds : Once(w, kinds) =>
              /\ Once(Tail(w), kinds)
              /\ Kind(Head(w)) \in kinds => ~Has(Tail(w), kinds)
         /\ \A kind : EndsIn(w, kind) =>
              \/ EndsIn(Tail(w), kind)
              \/ Tail(w) = << >> /\ Kind(Head(w)) = kind
         /\ \A kind : Revoked(w, kind) =>
              /\ Revoked(Tail(w), kind)
              /\ Kind(Head(w)) = kind => Has(Tail(w), {"stop"})
<1> DEFINE v == Tail(w)
<1>a. /\ v \in Seq(Messages) /\ Len(v) = Len(w) - 1 /\ Len(w) \in Nat \ {0}
      /\ Head(w) = w[1] /\ \A i \in 1 .. Len(v) : v[i] = w[i + 1]
  BY HeadTailProperties
<1>b. w[1] \in Messages
  BY <1>a
<1> HIDE DEF v
<1>c. Len(v) = 0 <=> v = << >>
  BY <1>a
<1>1. /\ Len(v) \in Nat /\ Len(w) = Len(v) + 1
      /\ Head(w) = w[1] /\ \A i \in 1 .. Len(v) : v[i] = w[i + 1]
  BY <1>a
<1>2. /\ \A i \in 1 .. Len(v) : i + 1 \in 1 .. Len(w) /\ i + 1 # 1
      /\ 1 \in 1 .. Len(w)
      /\ \A i \in 1 .. Len(w) : i = 1 \/ (i - 1 \in 1 .. Len(v) /\ v[i - 1] = w[i])
      /\ \A i, j \in 1 .. Len(v) : i + 1 = j + 1 => i = j
      /\ \A i \in 1 .. Len(v), j \in 1 .. Len(w) :
           i + 1 < j => j - 1 \in 1 .. Len(v) /\ v[j - 1] = w[j] /\ i < j - 1
      /\ \A j \in 1 .. Len(w) : 1 < j => j - 1 \in 1 .. Len(v) /\ v[j - 1] = w[j]
  BY <1>1
<1>3. ASSUME NEW kinds
      PROVE  Has(w, kinds) <=> Has(v, kinds) \/ Kind(Head(w)) \in kinds
  <2>1. ASSUME Has(w, kinds) PROVE Has(v, kinds) \/ Kind(Head(w)) \in kinds
    <3>1. PICK i \in 1 .. Len(w) : Kind(w[i]) \in kinds
      BY <2>1, Zenon DEF Has
    <3>2. i = 1 \/ (i - 1 \in 1 .. Len(v) /\ v[i - 1] = w[i])
      BY <1>2
    <3> QED BY <1>1, <3>1, <3>2, Zenon DEF Has
  <2>2. ASSUME Has(v, kinds) PROVE Has(w, kinds)
    <3>1. PICK i \in 1 .. Len(v) : Kind(v[i]) \in kinds
      BY <2>2, Zenon DEF Has
    <3>2. v[i] = w[i + 1] /\ i + 1 \in 1 .. Len(w)
      BY <1>1, <1>2, Zenon
    <3>3. \A k : k = i + 1 => k \in 1 .. Len(w) /\ Kind(w[k]) \in kinds
      BY <3>1, <3>2, Zenon
    <3> QED BY <3>3, Zenon DEF Has
  <2>3. ASSUME Kind(Head(w)) \in kinds PROVE Has(w, kinds)
    BY <1>1, <1>2, <2>3, Zenon DEF Has
  <2> QED BY <2>1, <2>2, <2>3
<1>4. ASSUME NEW kinds, Once(w, kinds)
      PROVE  Once(v, kinds) /\ (Kind(Head(w)) \in kinds => ~Has(v, kinds))
  <2>1. \A i, j \in 1 .. Len(w) :
          Kind(w[i]) \in kinds /\ Kind(w[j]) \in kinds => i = j
    BY <1>4 DEF Once
  <2>2. ASSUME NEW i \in 1 .. Len(v), NEW j \in 1 .. Len(v),
               Kind(v[i]) \in kinds, Kind(v[j]) \in kinds
        PROVE  i = j
    <3>1. Kind(w[i + 1]) \in kinds /\ Kind(w[j + 1]) \in kinds
      BY <1>1, <2>2
    <3>2. i + 1 = j + 1
      BY <1>2, <2>1, <3>1
    <3> QED BY <3>2
  <2>3. ASSUME Kind(Head(w)) \in kinds, NEW i \in 1 .. Len(v), Kind(v[i]) \in kinds
        PROVE  FALSE
    <3>1. Kind(w[i + 1]) \in kinds /\ Kind(w[1]) \in kinds
      BY <1>1, <2>3
    <3>2. i + 1 = 1
      BY <1>2, <2>1, <3>1
    <3> QED BY <1>2, <3>2
  <2> QED BY <2>2, <2>3 DEF Once, Has
<1>5. \A kind : EndsIn(w, kind) =>
         EndsIn(v, kind) \/ (v = << >> /\ Kind(Head(w)) = kind)
  BY <1>1, <1>c DEF EndsIn
<1>6. ASSUME NEW kind, Revoked(w, kind)
      PROVE  Revoked(v, kind) /\ (Kind(Head(w)) = kind => Has(v, {"stop"}))
  <2>1. ASSUME NEW i \in 1 .. Len(v), Kind(v[i]) = kind
        PROVE  \E j \in 1 .. Len(v) : i < j /\ Kind(v[j]) = "stop"
    <3>1. i + 1 \in 1 .. Len(w) /\ Kind(w[i + 1]) = kind
      BY <1>1, <1>2, <2>1
    <3>2. PICK j \in 1 .. Len(w) : i + 1 < j /\ Kind(w[j]) = "stop"
      BY <1>6, <3>1 DEF Revoked
    <3> QED BY <1>2, <3>2
  <2>2. ASSUME Kind(Head(w)) = kind
        PROVE  \E j \in 1 .. Len(v) : Kind(v[j]) = "stop"
    <3>1. PICK j \in 1 .. Len(w) : 1 < j /\ Kind(w[j]) = "stop"
      BY <1>1, <1>2, <1>6, <2>2 DEF Revoked
    <3> QED BY <1>2, <3>1
  <2> QED BY <2>1, <2>2 DEF Revoked, Has
<1>7. v \in Seq(Messages) /\ Head(w) \in Messages
  BY <1>a, <1>b
<1> QED BY <1>3, <1>4, <1>5, <1>6, <1>7 DEF v

(* Nothing is of any kind in the empty word. *)
LEMMA EmptyWord ==
  /\ \A kinds : ~Has(<< >>, kinds) /\ Once(<< >>, kinds)
  /\ \A kind : ~EndsIn(<< >>, kind) /\ Revoked(<< >>, kind)
BY DEF Has, Once, EndsIn, Revoked

-----------------------------------------------------------------------------
(* One side a, which asked n times, its peer b, and the words between them. *)
(* A request is in one place at most: on its way, with the peer, or as the  *)
(* answer on its way back.                                                  *)
OnePlace(a, n, ab, b, ba) ==
  /\ n = 0 => /\ ~Has(ab, {"ask"}) /\ b # "RecvReqControling"
              /\ ~Has(ba, Answers) /\ a # "ReqControling"
  /\ Once(ab, {"ask"}) /\ Once(ba, Answers)
  /\ Has(ab, {"ask"}) => b # "RecvReqControling" /\ ~Has(ba, Answers)
  /\ b = "RecvReqControling" => ~Has(ba, Answers)

(* Who asks says nothing more until it is answered or gives up, and then a  *)
(* stop follows the request.                                                *)
AskedLast(a, ab, b) ==
  /\ a = "ReqControling" => ab = << >> \/ EndsIn(ab, "ask")
  /\ b = "RecvReqControling" => a = "ReqControling" \/ Has(ab, {"stop"})
  /\ Has(ab, {"ask"}) => \/ EndsIn(ab, "ask") /\ a = "ReqControling"
                         \/ Revoked(ab, "ask")

(* A grant that will be taken is followed by a stop, or comes from a peer   *)
(* in control that has nothing more under way.  again: the peer may ask     *)
(* when it is in control, as the sharer may; then it waits for ever, or     *)
(* until it stops.                                                          *)
GrantHolds(a, ab, b, ba, again) ==
  a = "ReqControling" /\ Has(ba, {"grant"}) =>
    \/ Revoked(ba, "grant")
    \/ b = "Controling" /\ ab = << >>
    \/ again /\ b = "ReqControling" /\ ~Has(ab, Answers)

(* Who is in control has a peer that is too, or will be, or has stopped. *)
PeerHolds(a, ab, b, ba, again) ==
  a = "Controling" =>
    \/ Has(ba, {"stop"})
    \/ b = "ReqControling" /\ (EndsIn(ab, "grant") \/ (again /\ ~Has(ab, Answers)))
    \/ b = "Controling" /\ ab = << >>

Side(a, n, ab, b, ba, again) ==
  /\ OnePlace(a, n, ab, b, ba) /\ AskedLast(a, ab, b)
  /\ GrantHolds(a, ab, b, ba, again) /\ PeerHolds(a, ab, b, ba, again)

(* What the kinds are and are not. *)
LEMMA KindNames ==
  /\ "grant" \in Answers /\ "refuse" \in Answers
  /\ "ask" \notin Answers /\ "stop" \notin Answers
BY DEF Answers

(* An answer is a grant or a refusal; a word that ends in something has it. *)
LEMMA KindsRelated ==
  ASSUME NEW w \in Seq(Messages)
  PROVE  /\ Has(w, {"grant"}) => Has(w, Answers)
         /\ EndsIn(w, "grant") => Has(w, {"grant"})
         /\ EndsIn(w, "ask") => Has(w, {"ask"})
         /\ ~Has(w, {"ask"}) => Revoked(w, "ask")
         /\ ~Has(w, {"grant"}) => Revoked(w, "grant")
         /\ Has(w, {"ask"}) /\ Revoked(w, "ask") => Has(w, {"stop"})
         /\ Has(w, {"grant"}) /\ Revoked(w, "grant") => Has(w, {"stop"})
<1>1. Len(w) \in Nat /\ (w # << >> => Len(w) \in 1 .. Len(w))
  BY EmptySeq, LenProperties
<1>2. Has(w, {"grant"}) => Has(w, Answers)
  BY DEF Has, Answers
<1> QED BY <1>1, <1>2 DEF Has, EndsIn, Revoked

(* What the word of a side has after its next message, kind by kind. *)
LEMMA GrowsByKind ==
  ASSUME NEW w \in Seq(Messages), NEW m \in Messages, NEW v, v = Append(w, m)
  PROVE  /\ v \in Seq(Messages) /\ v # << >>
         /\ Has(v, {"ask"}) <=> Has(w, {"ask"}) \/ Kind(m) = "ask"
         /\ Has(v, {"stop"}) <=> Has(w, {"stop"}) \/ Kind(m) = "stop"
         /\ Has(v, {"grant"}) <=> Has(w, {"grant"}) \/ Kind(m) = "grant"
         /\ Has(v, Answers) <=> Has(w, Answers) \/ Kind(m) \in Answers
         /\ Once(w, {"ask"}) /\ ~(Has(w, {"ask"}) /\ Kind(m) = "ask") => Once(v, {"ask"})
         /\ Once(w, Answers) /\ ~(Has(w, Answers) /\ Kind(m) \in Answers) => Once(v, Answers)
         /\ EndsIn(v, "ask") <=> Kind(m) = "ask"
         /\ EndsIn(v, "grant") <=> Kind(m) = "grant"
         /\ Kind(m) = "stop" => Revoked(v, "ask") /\ Revoked(v, "grant")
         /\ Kind(m) # "ask" /\ Revoked(w, "ask") => Revoked(v, "ask")
         /\ Kind(m) # "grant" /\ Revoked(w, "grant") => Revoked(v, "grant")
<1>1. "stop" # "ask" /\ "stop" # "grant"
  OBVIOUS
<1> QED BY <1>1, WordGrows

LEMMA ShrinksByKind ==
  ASSUME NEW w \in Seq(Messages), w # << >>, NEW v, v = Tail(w), NEW m, m = Head(w)
  PROVE  /\ v \in Seq(Messages) /\ m \in Messages
         /\ Has(w, {"ask"}) <=> Has(v, {"ask"}) \/ Kind(m) = "ask"
         /\ Has(w, {"stop"}) <=> Has(v, {"stop"}) \/ Kind(m) = "stop"
         /\ Has(w, {"grant"}) <=> Has(v, {"grant"}) \/ Kind(m) = "grant"
         /\ Has(w, Answers) <=> Has(v, Answers) \/ Kind(m) \in Answers
         /\ Once(w, {"ask"}) => Once(v, {"ask"}) /\ (Kind(m) = "ask" => ~Has(v, {"ask"}))
         /\ Once(w, Answers) => Once(v, Answers) /\ (Kind(m) \in Answers => ~Has(v, Answers))
         /\ EndsIn(w, "ask") => EndsIn(v, "ask") \/ (v = << >> /\ Kind(m) = "ask")
         /\ EndsIn(w, "grant") => EndsIn(v, "grant") \/ (v = << >> /\ Kind(m) = "grant")
         /\ Revoked(w, "ask") => Revoked(v, "ask") /\ (Kind(m) = "ask" => Has(v, {"stop"}))
         /\ Revoked(w, "grant") => Revoked(v, "grant") /\ (Kind(m) = "grant" => Has(v, {"stop"}))
BY WordShrinks

(* A side asks. *)
LEMMA AskKeeps ==
  ASSUME NEW a, NEW b, NEW n, NEW k, NEW m \in Messages, NEW again, NEW more,
         NEW ab \in Seq(Messages), NEW ba \in Seq(Messages),
         Side(a, n, ab, b, ba, again), Side(b, k, ba, a, ab, more),
         n = 0, a = "Normal" \/ (more = TRUE /\ a # "ReqControling"), Kind(m) = "ask"
  PROVE  /\ Side("ReqControling", 1, Append(ab, m), b, ba, again)
         /\ Side(b, k, ba, "ReqControling", Append(ab, m), more)
<1> DEFINE v == Append(ab, m)
<1>1. Kind(m) \notin Answers /\ Kind(m) # "stop" /\ Kind(m) # "grant"
  BY KindNames
<1>2. /\ v \in Seq(Messages) /\ v # << >>
      /\ Has(v, {"ask"}) /\ (Has(v, {"stop"}) <=> Has(ab, {"stop"}))
      /\ (Has(v, {"grant"}) <=> Has(ab, {"grant"})) /\ (Has(v, Answers) <=> Has(ab, Answers))
      /\ Once(ab, {"ask"}) /\ ~Has(ab, {"ask"}) => Once(v, {"ask"})
      /\ Once(ab, Answers) => Once(v, Answers)
      /\ EndsIn(v, "ask") /\ ~EndsIn(v, "grant")
      /\ Revoked(ab, "grant") => Revoked(v, "grant")
  BY <1>1, GrowsByKind
<1>3. /\ Has(ba, {"grant"}) => Has(ba, Answers)
      /\ EndsIn(ba, "grant") => Has(ba, {"grant"})
      /\ Has(ab, {"grant"}) => Has(ab, Answers)
      /\ EndsIn(ab, "grant") => Has(ab, {"grant"})
      /\ EndsIn(ba, "ask") => Has(ba, {"ask"})
  BY KindsRelated
<1> HIDE DEF v
<1>4. OnePlace("ReqControling", 1, v, b, ba) /\ OnePlace(b, k, ba, "ReqControling", v)
  BY <1>2, <1>3 DEF Side, OnePlace
<1>5. AskedLast("ReqControling", v, b) /\ AskedLast(b, ba, "ReqControling")
  BY <1>2, <1>3 DEF Side, OnePlace, AskedLast
<1>6. GrantHolds("ReqControling", v, b, ba, again) /\ GrantHolds(b, ba, "ReqControling", v, more)
  BY <1>2, <1>3 DEF Side, OnePlace, AskedLast, GrantHolds, PeerHolds
<1>7. PeerHolds("ReqControling", v, b, ba, again) /\ PeerHolds(b, ba, "ReqControling", v, more)
  BY <1>2, <1>3 DEF Side, OnePlace, AskedLast, GrantHolds, PeerHolds
<1> QED BY <1>4, <1>5, <1>6, <1>7 DEF Side, v

(* A side stops. *)
LEMMA StopKeeps ==
  ASSUME NEW a, NEW b, NEW n, NEW k, NEW m \in Messages, NEW again, NEW more,
         NEW ab \in Seq(Messages), NEW ba \in Seq(Messages),
         Side(a, n, ab, b, ba, again), Side(b, k, ba, a, ab, more),
         a \in {"Controling", "ReqControling"}, Kind(m) = "stop"
  PROVE  /\ Side("Normal", n, Append(ab, m), b, ba, again)
         /\ Side(b, k, ba, "Normal", Append(ab, m), more)
<1> DEFINE v == Append(ab, m)
<1>1. Kind(m) \notin Answers /\ Kind(m) # "ask" /\ Kind(m) # "grant"
  BY KindNames
<1>2. /\ v \in Seq(Messages) /\ v # << >>
      /\ Has(v, {"stop"}) /\ (Has(v, {"ask"}) <=> Has(ab, {"ask"}))
      /\ (Has(v, {"grant"}) <=> Has(ab, {"grant"})) /\ (Has(v, Answers) <=> Has(ab, Answers))
      /\ Once(ab, {"ask"}) => Once(v, {"ask"})
      /\ Once(ab, Answers) => Once(v, Answers)
      /\ ~EndsIn(v, "ask") /\ ~EndsIn(v, "grant")
      /\ Revoked(v, "grant") /\ Revoked(v, "ask")
  BY <1>1, GrowsByKind
<1>3. /\ EndsIn(ba, "grant") => Has(ba, {"grant"})
      /\ Has(ba, {"grant"}) => Has(ba, Answers)
      /\ EndsIn(ba, "ask") => Has(ba, {"ask"})
  BY KindsRelated
<1> HIDE DEF v
<1>4. OnePlace("Normal", n, v, b, ba) /\ OnePlace(b, k, ba, "Normal", v)
  BY <1>2, <1>3 DEF Side, OnePlace
<1>5. AskedLast("Normal", v, b) /\ AskedLast(b, ba, "Normal")
  BY <1>2, <1>3 DEF Side, OnePlace, AskedLast
<1>6. GrantHolds("Normal", v, b, ba, again) /\ GrantHolds(b, ba, "Normal", v, more)
  BY <1>2, <1>3 DEF GrantHolds
<1>7. PeerHolds("Normal", v, b, ba, again) /\ PeerHolds(b, ba, "Normal", v, more)
  BY <1>2, <1>3 DEF PeerHolds
<1> QED BY <1>4, <1>5, <1>6, <1>7 DEF Side, v

(* A side grants or refuses what its peer asked for. *)
LEMMA AnswerKeeps ==
  ASSUME NEW a, NEW c, NEW b, NEW n, NEW k, NEW m \in Messages, NEW again, NEW more,
         NEW ab \in Seq(Messages), NEW ba \in Seq(Messages),
         Side(a, n, ab, b, ba, again), Side(b, k, ba, a, ab, more),
         a = "RecvReqControling",
         \/ Kind(m) = "grant" /\ c = "Controling"
         \/ Kind(m) = "refuse" /\ c = "Normal"
  PROVE  /\ Side(c, n, Append(ab, m), b, ba, again)
         /\ Side(b, k, ba, c, Append(ab, m), more)
<1> DEFINE v == Append(ab, m)
<1>1. Kind(m) \in Answers /\ Kind(m) # "ask" /\ Kind(m) # "stop"
  BY KindNames
<1>2. /\ v \in Seq(Messages) /\ v # << >>
      /\ (Has(v, {"stop"}) <=> Has(ab, {"stop"})) /\ (Has(v, {"ask"}) <=> Has(ab, {"ask"}))
      /\ (Has(v, {"grant"}) <=> Has(ab, {"grant"}) \/ Kind(m) = "grant") /\ Has(v, Answers)
      /\ Once(ab, {"ask"}) => Once(v, {"ask"})
      /\ Once(ab, Answers) /\ ~Has(ab, Answers) => Once(v, Answers)
      /\ ~EndsIn(v, "ask") /\ (EndsIn(v, "grant") <=> Kind(m) = "grant")
      /\ Revoked(ab, "ask") => Revoked(v, "ask")
      /\ Kind(m) # "grant" /\ Revoked(ab, "grant") => Revoked(v, "grant")
  BY <1>1, GrowsByKind
<1>3. /\ EndsIn(ba, "grant") => Has(ba, {"grant"})
      /\ Has(ba, {"grant"}) => Has(ba, Answers)
      /\ Has(ab, {"grant"}) => Has(ab, Answers)
      /\ EndsIn(ba, "ask") => Has(ba, {"ask"})
  BY KindsRelated
<1> HIDE DEF v
<1>4. OnePlace(c, n, v, b, ba) /\ OnePlace(b, k, ba, c, v)
  BY <1>2, <1>3 DEF Side, OnePlace
<1>5. AskedLast(c, v, b) /\ AskedLast(b, ba, c)
  BY <1>2, <1>3 DEF Side, OnePlace, AskedLast
<1>6. GrantHolds(c, v, b, ba, again) /\ GrantHolds(b, ba, c, v, more)
  BY <1>2, <1>3 DEF Side, OnePlace, AskedLast, GrantHolds
<1>7. PeerHolds(c, v, b, ba, again) /\ PeerHolds(b, ba, c, v, more)
  BY <1>2, <1>3 DEF Side, OnePlace, AskedLast, PeerHolds
<1> QED BY <1>4, <1>5, <1>6, <1>7 DEF Side, v

(* What a side in state a makes of a message. *)
Turned(a, kind) ==
  CASE kind = "ask" /\ a = "Normal"               -> "RecvReqControling"
    [] kind = "stop" /\ a \in {"RecvReqControling", "Controling"} -> "Normal"
    [] kind = "grant" /\ a = "ReqControling"      -> "Controling"
    [] kind = "refuse" /\ a = "ReqControling"     -> "Normal"
    [] OTHER -> a

(* A side takes the oldest message of its peer. *)
LEMMA HandleKeeps ==
  ASSUME NEW a \in ControlStates, NEW b \in ControlStates, NEW n, NEW k, NEW again, NEW more,
         NEW ab \in Seq(Messages), NEW ba \in Seq(Messages), NEW c,
         Side(a, n, ab, b, ba, again), Side(b, k, ba, a, ab, more),
         ba # << >>, c = Turned(a, Kind(Head(ba)))
  PROVE  /\ Side(c, n, ab, b, Tail(ba), again)
         /\ Side(b, k, Tail(ba), c, ab, more)
<1> DEFINE v == Tail(ba)
           m == Head(ba)
<1>1. /\ v \in Seq(Messages) /\ m \in Messages
      /\ Has(ba, {"ask"}) <=> Has(v, {"ask"}) \/ Kind(m) = "ask"
      /\ Has(ba, {"stop"}) <=> Has(v, {"stop"}) \/ Kind(m) = "stop"
      /\ Has(ba, {"grant"}) <=> Has(v, {"grant"}) \/ Kind(m) = "grant"
      /\ Has(ba, Answers) <=> Has(v, Answers) \/ Kind(m) \in Answers
      /\ Once(ba, {"ask"}) => Once(v, {"ask"}) /\ (Kind(m) = "ask" => ~Has(v, {"ask"}))
      /\ Once(ba, Answers) => Once(v, Answers) /\ (Kind(m) \in Answers => ~Has(v, Answers))
      /\ EndsIn(ba, "ask") => EndsIn(v, "ask") \/ (v = << >> /\ Kind(m) = "ask")
      /\ EndsIn(ba, "grant") => EndsIn(v, "grant") \/ (v = << >> /\ Kind(m) = "grant")
      /\ Revoked(ba, "ask") => Revoked(v, "ask") /\ (Kind(m) = "ask" => Has(v, {"stop"}))
      /\ Revoked(ba, "grant") => Revoked(v, "grant") /\ (Kind(m) = "grant" => Has(v, {"stop"}))
  BY ShrinksByKind
<1>2. /\ EndsIn(ba, "grant") => Has(ba, {"grant"})
      /\ Has(ba, {"grant"}) => Has(ba, Answers)
      /\ Has(v, {"grant"}) => Has(v, Answers)
      /\ EndsIn(v, "ask") => Has(v, {"ask"})
      /\ EndsIn(v, "grant") => Has(v, {"grant"})
      /\ ~Has(v, {"ask"}) => Revoked(v, "ask")
      /\ ~Has(v, {"grant"}) => Revoked(v, "grant")
      /\ Has(ab, {"grant"}) => Has(ab, Answers)
      /\ EndsIn(ab, "grant") => Has(ab, {"grant"})
      /\ EndsIn(ab, "ask") => Has(ab, {"ask"})
      /\ Has(ab, {"ask"}) /\ Revoked(ab, "ask") => Has(ab, {"stop"})
      /\ Has(ab, {"grant"}) /\ Revoked(ab, "grant") => Has(ab, {"stop"})
  BY <1>1, KindsRelated
<1>3. ba # << >>
  OBVIOUS
<1> HIDE DEF v, m
<1> DEFINE Kept == Side(c, n, ab, b, v, again) /\ Side(b, k, v, c, ab, more)
<1> SUFFICES Kept
  BY DEF v
<1>k. ASSUME OnePlace(c, n, ab, b, v), OnePlace(b, k, v, c, ab),
             AskedLast(c, ab, b), AskedLast(b, v, c),
             GrantHolds(c, ab, b, v, again), GrantHolds(b, v, c, ab, more),
             PeerHolds(c, ab, b, v, again), PeerHolds(b, v, c, ab, more)
      PROVE  Kept
  BY <1>k DEF Side
<1>4. CASE Kind(m) = "ask" /\ a = "Normal"
  <2>1. c = "RecvReqControling" /\ Kind(m) \notin Answers
    BY <1>4, KindNames DEF Turned, m
  <2>2. OnePlace(c, n, ab, b, v) /\ OnePlace(b, k, v, c, ab)
    BY <1>1, <1>2, <1>3, <1>4, <2>1 DEF Side, OnePlace
  <2>3. AskedLast(c, ab, b) /\ AskedLast(b, v, c)
    BY <1>1, <1>2, <1>3, <1>4, <2>1 DEF Side, OnePlace, AskedLast
  <2>4. GrantHolds(c, ab, b, v, again) /\ GrantHolds(b, v, c, ab, more)
    BY <1>1, <1>2, <1>3, <1>4, <2>1 DEF Side, OnePlace, AskedLast, GrantHolds
  <2>5. PeerHolds(c, ab, b, v, again) /\ PeerHolds(b, v, c, ab, more)
    BY <1>1, <1>2, <1>3, <1>4, <2>1 DEF Side, OnePlace, AskedLast, PeerHolds
  <2> QED BY <1>k, <2>2, <2>3, <2>4, <2>5
<1>5. CASE Kind(m) = "stop" /\ a \in {"RecvReqControling", "Controling"}
  <2>1. c = "Normal" /\ Kind(m) \notin Answers
    BY <1>5, KindNames DEF Turned, m
  <2>2. OnePlace(c, n, ab, b, v) /\ OnePlace(b, k, v, c, ab)
    BY <1>1, <1>2, <1>3, <1>5, <2>1 DEF Side, OnePlace
  <2>3. AskedLast(c, ab, b) /\ AskedLast(b, v, c)
    BY <1>1, <1>2, <1>3, <1>5, <2>1 DEF Side, OnePlace, AskedLast
  <2>4. GrantHolds(c, ab, b, v, again) /\ GrantHolds(b, v, c, ab, more)
    BY <1>1, <1>2, <1>3, <1>5, <2>1 DEF Side, OnePlace, AskedLast, GrantHolds, PeerHolds
  <2>5. PeerHolds(c, ab, b, v, again) /\ PeerHolds(b, v, c, ab, more)
    BY <1>1, <1>2, <1>3, <1>5, <2>1 DEF Side, OnePlace, AskedLast, GrantHolds, PeerHolds
  <2> QED BY <1>k, <2>2, <2>3, <2>4, <2>5
<1>6. CASE Kind(m) = "grant" /\ a = "ReqControling"
  <2>1. c = "Controling" /\ Kind(m) \in Answers
    BY <1>6, KindNames DEF Turned, m
  <2>2. OnePlace(c, n, ab, b, v) /\ OnePlace(b, k, v, c, ab)
    BY <1>1, <1>2, <1>3, <1>6, <2>1 DEF Side, OnePlace
  <2>3. AskedLast(c, ab, b) /\ AskedLast(b, v, c)
    BY <1>1, <1>2, <1>3, <1>6, <2>1 DEF Side, OnePlace, AskedLast
  <2>4. GrantHolds(c, ab, b, v, again) /\ GrantHolds(b, v, c, ab, more)
    BY <1>1, <1>2, <1>3, <1>6, <2>1 DEF Side, OnePlace, AskedLast, GrantHolds, PeerHolds
  <2>5. PeerHolds(c, ab, b, v, again) /\ PeerHolds(b, v, c, ab, more)
    BY <1>1, <1>2, <1>3, <1>6, <2>1 DEF Side, OnePlace, AskedLast, GrantHolds, PeerHolds
  <2> QED BY <1>k, <2>2, <2>3, <2>4, <2>5
<1>7. CASE Kind(m) = "refuse" /\ a = "ReqControling"
  <2>1. c = "Normal" /\ Kind(m) \in Answers
    BY <1>7, KindNames DEF Turned, m
  <2>2. OnePlace(c, n, ab, b, v) /\ OnePlace(b, k, v, c, ab)
    BY <1>1, <1>2, <1>3, <1>7, <2>1 DEF Side, OnePlace
  <2>3. AskedLast(c, ab, b) /\ AskedLast(b, v, c)
    BY <1>1, <1>2, <1>3, <1>7, <2>1 DEF Side, OnePlace, AskedLast
  <2>4. GrantHolds(c, ab, b, v, again) /\ GrantHolds(b, v, c, ab, more)
    BY <1>1, <1>2, <1>3, <1>7, <2>1 DEF Side, OnePlace, AskedLast, GrantHolds, PeerHolds
  <2>5. PeerHolds(c, ab, b, v, again) /\ PeerHolds(b, v, c, ab, more)
    BY <1>1, <1>2, <1>3, <1>7, <2>1 DEF Side, OnePlace, AskedLast, GrantHolds, PeerHolds
  <2> QED BY <1>k, <2>2, <2>3, <2>4, <2>5
<1>8. CASE /\ ~(Kind(m) = "ask" /\ a = "Normal")
           /\ ~(Kind(m) = "stop" /\ a \in {"RecvReqControling", "Controling"})
           /\ ~(Kind(m) \in Answers /\ a = "ReqControling")
  <2>1. c = a
    BY <1>8, KindNames DEF Turned, m
  <2>2. OnePlace(a, n, ab, b, v) /\ OnePlace(b, k, v, a, ab)
    BY <1>1, <1>2, <1>3, <1>8 DEF Side, OnePlace
  <2>3. AskedLast(a, ab, b) /\ AskedLast(b, v, a)
    BY <1>1, <1>2, <1>3, <1>8, KindNames DEF Side, OnePlace, AskedLast, ControlStates
  <2>4. GrantHolds(a, ab, b, v, again) /\ GrantHolds(b, v, a, ab, more)
    BY <1>1, <1>2, <1>3, <1>8, KindNames DEF Side, OnePlace, AskedLast, GrantHolds, PeerHolds, ControlStates
  <2>5. PeerHolds(a, ab, b, v, again) /\ PeerHolds(b, v, a, ab, more)
    BY <1>1, <1>2, <1>3, <1>8, KindNames DEF Side, OnePlace, AskedLast, GrantHolds, PeerHolds, ControlStates
  <2> QED BY <1>k, <2>1, <2>2, <2>3, <2>4, <2>5
<1>9. Kind(m) \in Answers => Kind(m) = "grant" \/ Kind(m) = "refuse"
  BY DEF Answers
<1> QED BY <1>4, <1>5, <1>6, <1>7, <1>8, <1>9

-----------------------------------------------------------------------------
(* The two words of RemoteControl: what has arrived and is not handled, and *)
(* what waits to be sent.  Nothing but control messages is in them.         *)
ToViewer == viewerIn \o server.requestQ
ToServer == serverIn \o viewer.requestQ

ControlOnly == ~Has(ToViewer, {"other"}) /\ ~Has(ToServer, {"other"})

(* The invariant: both sides, as long as neither has asked twice.  The      *)
(* sharer may ask when it is controlled already, the viewer may not.        *)
BothSides(s, n, sv, v, k, vs) == Side(s, n, sv, v, vs, FALSE) /\ Side(v, k, vs, s, sv, TRUE)

SidesAgree ==
  AskedOnce => BothSides(server.rc, server.asked, ToViewer,
                         viewer.rc, viewer.asked, ToServer)

AgreeInv == ControlOnly /\ SidesAgree

(* What is where in a word of two parts. *)
LEMMA TwoParts ==
  ASSUME NEW y \in Seq(Messages), NEW t \in Seq(Messages)
  PROVE  /\ y \o t \in Seq(Messages) /\ Len(y \o t) = Len(y) + Len(t)
         /\ Len(y) \in Nat /\ Len(t) \in Nat
         /\ \A i \in 1 .. Len(y) : (y \o t)[i] = y[i]
         /\ \A i \in 1 .. Len(t) : (y \o t)[Len(y) + i] = t[i]
BY ConcatProperties, LenProperties

(* A word in two parts: messages join it at the end of the second, ... *)
LEMMA JoinsSecond ==
  ASSUME NEW x \in Seq(Messages), NEW q \in Seq(Messages), NEW m \in Messages
  PROVE  x \o Append(q, m) = Append(x \o q, m)
<1>1. /\ x \o q \in Seq(Messages) /\ Len(x \o q) = Len(x) + Len(q)
      /\ \A i \in 1 .. Len(x) : (x \o q)[i] = x[i]
      /\ \A i \in 1 .. Len(q) : (x \o q)[Len(x) + i] = q[i]
  BY ConcatProperties
<1> DEFINE l == x \o Append(q, m)
           r == Append(x \o q, m)
<1>2. /\ l \in Seq(Messages) /\ r \in Seq(Messages)
      /\ Len(l) = Len(x) + Len(q) + 1 /\ Len(r) = Len(x) + Len(q) + 1
      /\ Len(x) \in Nat /\ Len(q) \in Nat
  BY <1>1, ConcatProperties, AppendProperties, LenProperties
<1>3. ASSUME NEW i \in 1 .. Len(l) PROVE l[i] = r[i]
  <2>1. CASE i \in 1 .. Len(x)
    BY <1>1, <1>2, <2>1, ConcatProperties, AppendProperties
  <2>2. CASE i = Len(x) + Len(q) + 1
    <3>1. Append(q, m)[Len(q) + 1] = m /\ Len(Append(q, m)) = Len(q) + 1
      BY AppendProperties
    <3>2. Append(q, m) \in Seq(Messages) /\ Len(q) + 1 \in 1 .. Len(Append(q, m))
      BY <1>2, <3>1, AppendProperties
    <3>3. l[Len(x) + (Len(q) + 1)] = m
      BY <3>1, <3>2, ConcatProperties
    <3>4. r[Len(x \o q) + 1] = m
      BY <1>1, AppendProperties
    <3> QED BY <1>1, <1>2, <2>2, <3>3, <3>4
  <2>3. CASE i \in Len(x) + 1 .. Len(x) + Len(q)
    <3> DEFINE j == i - Len(x)
    <3>1. j \in 1 .. Len(q) /\ i = Len(x) + j
      BY <1>2, <2>3
    <3> HIDE DEF j
    <3>2. Append(q, m)[j] = q[j] /\ Append(q, m) \in Seq(Messages)
          /\ j \in 1 .. Len(Append(q, m))
      BY <1>2, <3>1, AppendProperties
    <3>3. l[Len(x) + j] = q[j]
      BY <3>2, ConcatProperties
    <3>4. i \in 1 .. Len(x \o q) /\ (x \o q)[i] = q[j]
      BY <1>1, <1>2, <3>1
    <3>5. r[i] = (x \o q)[i]
      BY <1>1, <3>4, AppendProperties
    <3> QED BY <3>1, <3>3, <3>4, <3>5
  <2> QED BY <1>2, <2>1, <2>2, <2>3
<1> QED BY <1>2, <1>3, SeqEqual

(* ... leave it at the head of the first ... *)
LEMMA LeavesFirst ==
  ASSUME NEW x \in Seq(Messages), NEW q \in Seq(Messages), x # << >>
  PROVE  /\ x \o q # << >> /\ Head(x \o q) = Head(x) /\ Tail(x) \o q = Tail(x \o q)
<1>1. /\ x \o q \in Seq(Messages) /\ Len(x \o q) = Len(x) + Len(q)
      /\ \A i \in 1 .. Len(x) : (x \o q)[i] = x[i]
      /\ \A i \in 1 .. Len(q) : (x \o q)[Len(x) + i] = q[i]
  BY ConcatProperties
<1>2. /\ Tail(x) \in Seq(Messages) /\ Len(Tail(x)) = Len(x) - 1 /\ Head(x) = x[1]
      /\ \A i \in 1 .. Len(Tail(x)) : Tail(x)[i] = x[i + 1]
      /\ Len(x) \in Nat \ {0} /\ Len(q) \in Nat
  BY HeadTailProperties, LenProperties, EmptySeq
<1>3. x \o q # << >> /\ (x \o q)[1] = x[1]
  BY <1>1, <1>2, EmptySeq
<1> DEFINE l == Tail(x) \o q
           r == Tail(x \o q)
<1>4. /\ l \in Seq(Messages) /\ Len(l) = Len(x) - 1 + Len(q)
      /\ \A i \in 1 .. Len(x) - 1 : l[i] = x[i + 1]
      /\ \A i \in 1 .. Len(q) : l[Len(x) - 1 + i] = q[i]
  BY <1>2, ConcatProperties
<1>5. /\ r \in Seq(Messages) /\ Len(r) = Len(x) + Len(q) - 1 /\ Head(x \o q) = (x \o q)[1]
      /\ \A i \in 1 .. Len(r) : r[i] = (x \o q)[i + 1]
  BY <1>1, <1>3, HeadTailProperties
<1>6. ASSUME NEW i \in 1 .. Len(l) PROVE l[i] = r[i]
  <2>1. CASE i \in 1 .. Len(x) - 1
    BY <1>1, <1>2, <1>4, <1>5, <2>1
  <2>2. CASE i \in Len(x) .. Len(x) - 1 + Len(q)
    <3>1. i - (Len(x) - 1) \in 1 .. Len(q) /\ i = Len(x) - 1 + (i - (Len(x) - 1))
          /\ i + 1 = Len(x) + (i - (Len(x) - 1))
      BY <1>2, <2>2
    <3>2. l[i] = q[i - (Len(x) - 1)]
      BY <1>4, <3>1
    <3>3. (x \o q)[i + 1] = q[i - (Len(x) - 1)]
      BY <1>1, <3>1
    <3> QED BY <1>2, <1>4, <1>5, <3>2, <3>3
  <2> QED BY <1>2, <1>4, <2>1, <2>2
<1>7. l = r
  <2> HIDE DEF l, r
  <2> QED BY <1>2, <1>4, <1>5, <1>6, SeqEqual
<1> QED BY <1>2, <1>3, <1>5, <1>7

(* ... and go from one part to the other without a change of the word. *)
LEMMA MovesOver ==
  ASSUME NEW x \in Seq(Messages), NEW q \in Seq(Messages), q # << >>
  PROVE  Append(x, Head(q)) \o Tail(q) = x \o q
<1>1. /\ Tail(q) \in Seq(Messages) /\ Len(Tail(q)) = Len(q) - 1 /\ Head(q) = q[1]
      /\ \A i \in 1 .. Len(Tail(q)) : Tail(q)[i] = q[i + 1]
      /\ Len(q) \in Nat \ {0} /\ Len(x) \in Nat /\ q[1] \in Messages
  BY HeadTailProperties, LenProperties, EmptySeq
<1> DEFINE y == Append(x, Head(q))
           t == Tail(q)
           l == y \o t
           r == x \o q
<1>2. /\ y \in Seq(Messages) /\ Len(y) = Len(x) + 1 /\ y[Len(x) + 1] = q[1]
      /\ \A i \in 1 .. Len(x) : y[i] = x[i]
  BY <1>1, AppendProperties
<1>3. /\ r \in Seq(Messages) /\ Len(r) = Len(x) + Len(q)
      /\ \A i \in 1 .. Len(x) : r[i] = x[i]
      /\ \A i \in 1 .. Len(q) : r[Len(x) + i] = q[i]
  BY ConcatProperties
<1> HIDE DEF y
<1>t. t \in Seq(Messages) /\ Len(t) = Len(q) - 1 /\ \A i \in 1 .. Len(t) : t[i] = q[i + 1]
  BY <1>1
<1> HIDE DEF t
<1>c. /\ l \in Seq(Messages) /\ Len(l) = Len(y) + Len(t)
      /\ \A i \in 1 .. Len(y) : l[i] = y[i]
      /\ \A i \in 1 .. Len(t) : l[Len(y) + i] = t[i]
  BY <1>2, <1>t, TwoParts
<1> HIDE DEF l
<1>4. /\ l \in Seq(Messages) /\ Len(l) = Len(x) + Len(q)
      /\ \A i \in 1 .. Len(x) + 1 : l[i] = y[i]
      /\ \A i \in 1 .. Len(q) - 1 : l[Len(x) + 1 + i] = q[i + 1]
  <2>1. Len(l) = Len(x) + Len(q) /\ \A i \in 1 .. Len(x) + 1 : l[i] = y[i]
    BY <1>1, <1>2, <1>t, <1>c
  <2>2. ASSUME NEW i \in 1 .. Len(q) - 1 PROVE l[Len(x) + 1 + i] = q[i + 1]
    <3>1. i \in 1 .. Len(t) /\ Len(y) + i = Len(x) + 1 + i
      BY <1>1, <1>2, <1>t
    <3>2. l[Len(y) + i] = t[i] /\ t[i] = q[i + 1]
      BY <1>t, <1>c, <3>1
    <3> QED BY <3>1, <3>2
  <2> QED BY <1>c, <2>1, <2>2
<1>5. ASSUME NEW i \in 1 .. Len(l) PROVE l[i] = r[i]
  <2>1. CASE i \in 1 .. Len(x)
    BY <1>1, <1>2, <1>3, <1>4, <2>1
  <2>2. CASE i = Len(x) + 1
    <3>1. 1 \in 1 .. Len(q) /\ i \in 1 .. Len(x) + 1
      BY <1>1, <2>2
    <3> QED BY <1>2, <1>3, <1>4, <2>2, <3>1
  <2>3. CASE i \in Len(x) + 2 .. Len(x) + Len(q)
    <3> DEFINE j == i - (Len(x) + 1)
    <3>1. j \in 1 .. Len(q) - 1 /\ i = Len(x) + 1 + j /\ j + 1 \in 1 .. Len(q)
          /\ i = Len(x) + (j + 1)
      BY <1>1, <2>3
    <3> HIDE DEF j
    <3>2. l[i] = q[j + 1]
      BY <1>1, <1>4, <3>1
    <3>3. r[i] = q[j + 1]
      BY <1>3, <3>1
    <3> QED BY <3>2, <3>3
  <2> QED BY <1>1, <1>4, <2>1, <2>2, <2>3
<1>6. l = r
  <2> HIDE DEF l, r
  <2> QED BY <1>3, <1>4, <1>5, SeqEqual
<1> QED BY <1>6 DEF y, t, l

(* What kind the messages of the protocol are. *)
LEMMA MsgKinds ==
  \A from, room :
    /\ Kind(Msg("ReqControl", from, room, 1)) = "ask"
    /\ Kind(Msg("ReqControl", from, room, 0)) = "stop"
    /\ Kind(Msg("ControlRsp", from, room, 200)) = "grant"
    /\ Kind(Msg("ControlRsp", from, room, 603)) = "refuse"
BY DEF Kind, Msg

LEMMA KindOfMsg ==
  ASSUME NEW m, Kind(m) # "other"
  PROVE  /\ m.type \in {"ReqControl", "ControlRsp"}
         /\ Kind(m) = "ask" <=> m.type = "ReqControl" /\ m.status = 1
         /\ Kind(m) = "stop" <=> m.type = "ReqControl" /\ m.status = 0
         /\ Kind(m) = "grant" <=> m.type = "ControlRsp" /\ m.status = 200
         /\ Kind(m) = "refuse" <=> m.type = "ControlRsp" /\ m.status = 603
BY DEF Kind

LEMMA WordTypes ==
  ASSUME SrvInv, VwrInv
  PROVE  /\ ToViewer \in Seq(Messages) /\ ToServer \in Seq(Messages)
         /\ viewerIn \in Seq(Messages) /\ serverIn \in Seq(Messages)
         /\ server.requestQ \in Seq(Messages) /\ viewer.requestQ \in Seq(Messages)
         /\ server \in ServerFields /\ viewer \in ViewerFields
         /\ server.rc \in ControlStates /\ viewer.rc \in ControlStates
         /\ server.asked \in Nat /\ viewer.asked \in Nat
         /\ server.room \in RoomIds /\ viewer.room \in RoomIds
<1>1. /\ server \in ServerFields /\ viewer \in ViewerFields
      /\ serverIn \in Seq(Messages) /\ viewerIn \in Seq(Messages)
  BY DEF SrvInv, VwrInv, SrvTypeOK, VwrTypeOK
<1>2. /\ server.requestQ \in Seq(Messages) /\ viewer.requestQ \in Seq(Messages)
      /\ server.rc \in ControlStates /\ viewer.rc \in ControlStates
      /\ server.asked \in 0 .. SharerAsks /\ viewer.asked \in 0 .. ViewerAsks
      /\ server.room \in RoomIds /\ viewer.room \in RoomIds
  BY <1>1 DEF ServerFields, ViewerFields
<1>3. server.asked \in Nat /\ viewer.asked \in Nat
  BY <1>2, VncAssumption
<1> QED BY <1>1, <1>2, <1>3, TwoParts DEF ToViewer, ToServer

(* Two endpoints that have just joined. *)
LEMMA InitAgree == Init => AgreeInv
<1> SUFFICES ASSUME Init PROVE AgreeInv
  OBVIOUS
<1>1. /\ server.rc = "Normal" /\ server.asked = 0 /\ server.requestQ = << >>
      /\ viewer.rc = "Normal" /\ viewer.asked = 0 /\ viewer.requestQ = << >>
      /\ serverIn = << >> /\ viewerIn = << >>
  BY DEF Init
<1>2. ToViewer = << >> /\ ToServer = << >>
  BY <1>1 DEF ToViewer, ToServer
<1>3. ASSUME NEW again PROVE Side("Normal", 0, << >>, "Normal", << >>, again)
  BY EmptyWord DEF Side, OnePlace, AskedLast, GrantHolds, PeerHolds
<1> QED BY <1>1, <1>2, <1>3, EmptyWord DEF AgreeInv, ControlOnly, SidesAgree, BothSides

(* What a call of the sharer's plugin changes. *)
LEMMA SharerCalls ==
  ASSUME SrvInv, VwrInv, AgreeInv, ServerCalls
  PROVE  AgreeInv'
<1>t. /\ ToViewer \in Seq(Messages) /\ ToServer \in Seq(Messages)
      /\ viewerIn \in Seq(Messages) /\ server.requestQ \in Seq(Messages)
      /\ server \in ServerFields /\ server.room \in RoomIds /\ server.asked \in Nat
  BY WordTypes
<1>u. viewer' = viewer /\ viewerIn' = viewerIn /\ serverIn' = serverIn /\ SrvControlCall
  BY DEF ServerCalls, SrvControlCall, reqRemoteControl, stopRemoteControl,
         acceptRemoteControl, rejectRemoteControl
<1>w. ToServer' = ToServer
  BY <1>u DEF ToServer
<1> DEFINE Now == BothSides(server.rc, server.asked, ToViewer, viewer.rc, viewer.asked, ToServer)
           Then(m) == BothSides(server'.rc, server'.asked, Append(ToViewer, m),
                                viewer.rc, viewer.asked, ToServer)
<1>k. ASSUME NEW m \in Messages, Kind(m) # "other",
             server'.requestQ = Append(server.requestQ, m),
             server'.asked \in Nat, server.asked <= server'.asked,
             AskedOnce' /\ Now => Then(m)
      PROVE  AgreeInv'
  <2>1. ToViewer' = Append(ToViewer, m)
    <3>1. viewerIn \o Append(server.requestQ, m) = Append(viewerIn \o server.requestQ, m)
      BY <1>t, JoinsSecond
    <3>2. ToViewer' = viewerIn \o Append(server.requestQ, m)
      BY <1>k, <1>u DEF ToViewer
    <3> QED BY <3>1, <3>2 DEF ToViewer
  <2>2. ControlOnly'
    <3>1. Has(Append(ToViewer, m), {"other"}) <=> Has(ToViewer, {"other"}) \/ Kind(m) \in {"other"}
      BY <1>t, WordGrows
    <3> QED BY <1>k, <1>w, <2>1, <3>1 DEF AgreeInv, ControlOnly
  <2>3. AskedOnce' => AskedOnce
    BY <1>k, <1>t, <1>u DEF AskedOnce
  <2>4. SidesAgree'
    BY <1>k, <1>u, <1>w, <2>1, <2>3 DEF AgreeInv, SidesAgree
  <2> QED BY <2>2, <2>4 DEF AgreeInv
<1>m. \A r \in RoomIds :
        /\ Msg("ReqControl", "VncViewer", r, 1) \in Messages
        /\ Msg("ReqControl", "VncViewer", r, 0) \in Messages
        /\ Msg("ControlRsp", "VncServer", r, 200) \in Messages
        /\ Msg("ControlRsp", "VncServer", r, 603) \in Messages
  BY SrvMessages DEF SrvInv
<1>1. CASE reqRemoteControl
  <2> DEFINE m == Msg("ReqControl", "VncViewer", server.room, 1)
  <2>1. m \in Messages /\ Kind(m) = "ask"
    BY <1>t, <1>m, MsgKinds
  <2>2. server' = [server EXCEPT !.rc = "ReqControling", !.asked = server.asked + 1,
                                 !.requestQ = Append(server.requestQ, m)]
        /\ server.rc # "ReqControling"
    BY <1>1 DEF reqRemoteControl, SrvRequest
  <2> HIDE DEF m
  <2>3. /\ server'.rc = "ReqControling" /\ server'.asked = server.asked + 1
        /\ server'.requestQ = Append(server.requestQ, m)
    BY <1>t, <2>2 DEF ServerFields
  <2>4. ASSUME AskedOnce', Now PROVE Then(m)
    <3>1. server.asked = 0 /\ server'.asked = 1
      BY <1>t, <2>3, <2>4 DEF AskedOnce
    <3>2. /\ Side(server.rc, 0, ToViewer, viewer.rc, ToServer, FALSE)
          /\ Side(viewer.rc, viewer.asked, ToServer, server.rc, ToViewer, TRUE)
      BY <2>4, <3>1 DEF BothSides
    <3>3. /\ Side("ReqControling", 1, Append(ToViewer, m), viewer.rc, ToServer, FALSE)
          /\ Side(viewer.rc, viewer.asked, ToServer, "ReqControling", Append(ToViewer, m), TRUE)
      BY <1>t, <2>1, <2>2, <3>2, AskKeeps
    <3> QED BY <2>3, <3>1, <3>3 DEF BothSides
  <2>5. Kind(m) # "other" /\ server'.asked \in Nat /\ server.asked <= server'.asked
    BY <1>t, <2>1, <2>3
  <2> HIDE DEF Now, Then
  <2> QED BY <1>k, <2>1, <2>3, <2>4, <2>5
<1>2. CASE stopRemoteControl
  <2> DEFINE m == Msg("ReqControl", "VncViewer", server.room, 0)
  <2>1. m \in Messages /\ Kind(m) = "stop"
    BY <1>t, <1>m, MsgKinds
  <2>2. server' = [server EXCEPT !.rc = "Normal", !.input = "disabled",
                                 !.requestQ = Append(server.requestQ, m)]
        /\ server.rc \in {"Controling", "ReqControling"}
    BY <1>2 DEF stopRemoteControl, SrvRequest
  <2> HIDE DEF m
  <2>3. /\ server'.rc = "Normal" /\ server'.asked = server.asked
        /\ server'.requestQ = Append(server.requestQ, m)
    BY <1>t, <2>2 DEF ServerFields
  <2>4. ASSUME Now PROVE Then(m)
    <3>1. /\ Side("Normal", server.asked, Append(ToViewer, m), viewer.rc, ToServer, FALSE)
          /\ Side(viewer.rc, viewer.asked, ToServer, "Normal", Append(ToViewer, m), TRUE)
      BY <1>t, <2>1, <2>2, <2>4, StopKeeps DEF BothSides
    <3> QED BY <2>3, <3>1 DEF BothSides
  <2>5. Kind(m) # "other" /\ server'.asked \in Nat /\ server.asked <= server'.asked
    BY <1>t, <2>1, <2>3
  <2> HIDE DEF Now, Then
  <2> QED BY <1>k, <2>1, <2>3, <2>4, <2>5
<1>3. ASSUME NEW r \in RoomIds, acceptRemoteControl(r) \/ rejectRemoteControl(r)
      PROVE  AgreeInv'
  <2>1. PICK m \in Messages, c \in {"Controling", "Normal"} :
          /\ \/ Kind(m) = "grant" /\ c = "Controling"
             \/ Kind(m) = "refuse" /\ c = "Normal"
          /\ server'.rc = c /\ server'.asked = server.asked
          /\ server'.requestQ = Append(server.requestQ, m)
          /\ server.rc = "RecvReqControling"
    <3> DEFINE g == Msg("ControlRsp", "VncServer", server.room, 200)
               j == Msg("ControlRsp", "VncServer", server.room, 603)
    <3>1. g \in Messages /\ Kind(g) = "grant" /\ j \in Messages /\ Kind(j) = "refuse"
      BY <1>t, <1>m, MsgKinds
    <3>2. /\ server.rc = "RecvReqControling"
          /\ \/ server' = [server EXCEPT !.rc = "Controling", !.input = "enabled",
                                         !.requestQ = Append(server.requestQ, g)]
             \/ server' = [server EXCEPT !.rc = "Normal", !.input = "disabled",
                                         !.requestQ = Append(server.requestQ, j)]
      BY <1>3 DEF acceptRemoteControl, rejectRemoteControl, SrvRequest
    <3> HIDE DEF g, j
    <3>3. /\ server'.asked = server.asked
          /\ \/ server'.rc = "Controling" /\ server'.requestQ = Append(server.requestQ, g)
             \/ server'.rc = "Normal" /\ server'.requestQ = Append(server.requestQ, j)
      BY <1>t, <3>2 DEF ServerFields
    <3> QED BY <3>1, <3>2, <3>3
  <2>4. ASSUME Now PROVE Then(m)
    <3>1. /\ Side(c, server.asked, Append(ToViewer, m), viewer.rc, ToServer, FALSE)
          /\ Side(viewer.rc, viewer.asked, ToServer, c, Append(ToViewer, m), TRUE)
      BY <1>t, <2>1, <2>4, AnswerKeeps DEF BothSides
    <3> QED BY <2>1, <3>1 DEF BothSides
  <2>5. Kind(m) # "other" /\ server'.asked \in Nat /\ server.asked <= server'.asked
    BY <1>t, <2>1
  <2> HIDE DEF Now, Then
  <2> QED BY <1>k, <2>1, <2>4, <2>5
<1> QED BY <1>u, <1>1, <1>2, <1>3 DEF SrvControlCall
(* What a call of the viewer's plugin changes. *)
LEMMA ViewerCallsAgree ==
  ASSUME SrvInv, VwrInv, AgreeInv, ViewerCalls
  PROVE  AgreeInv'
<1>t. /\ ToServer \in Seq(Messages) /\ ToViewer \in Seq(Messages)
      /\ serverIn \in Seq(Messages) /\ viewer.requestQ \in Seq(Messages)
      /\ viewer \in ViewerFields /\ viewer.room \in RoomIds /\ viewer.asked \in Nat
  BY WordTypes
<1>u. server' = server /\ serverIn' = serverIn /\ viewerIn' = viewerIn /\ VwrControlCall
  BY DEF ViewerCalls, VwrControlCall, vwrReqRemoteControl, vwrStopRemoteControl,
         vwrAcceptRemoteControl, vwrRejectRemoteControl
<1>w. ToViewer' = ToViewer
  BY <1>u DEF ToViewer
<1> DEFINE Now == BothSides(server.rc, server.asked, ToViewer, viewer.rc, viewer.asked, ToServer)
           Then(m) == BothSides(server.rc, server.asked, ToViewer,
                                viewer'.rc, viewer'.asked, Append(ToServer, m))
<1>k. ASSUME NEW m \in Messages, Kind(m) # "other",
             viewer'.requestQ = Append(viewer.requestQ, m),
             viewer'.asked \in Nat, viewer.asked <= viewer'.asked,
             AskedOnce' /\ Now => Then(m)
      PROVE  AgreeInv'
  <2>1. ToServer' = Append(ToServer, m)
    <3>1. serverIn \o Append(viewer.requestQ, m) = Append(serverIn \o viewer.requestQ, m)
      BY <1>t, JoinsSecond
    <3>2. ToServer' = serverIn \o Append(viewer.requestQ, m)
      BY <1>k, <1>u DEF ToServer
    <3> QED BY <3>1, <3>2 DEF ToServer
  <2>2. ControlOnly'
    <3>1. Has(Append(ToServer, m), {"other"}) <=> Has(ToServer, {"other"}) \/ Kind(m) \in {"other"}
      BY <1>t, WordGrows
    <3> QED BY <1>k, <1>w, <2>1, <3>1 DEF AgreeInv, ControlOnly
  <2>3. AskedOnce' => AskedOnce
    BY <1>k, <1>t, <1>u DEF AskedOnce
  <2>4. SidesAgree'
    BY <1>k, <1>u, <1>w, <2>1, <2>3 DEF AgreeInv, SidesAgree
  <2> QED BY <2>2, <2>4 DEF AgreeInv
<1>m. \A r \in RoomIds :
        /\ Msg("ReqControl", "VncViewer", r, 1) \in Messages
        /\ Msg("ReqControl", "VncViewer", r, 0) \in Messages
        /\ Msg("ControlRsp", "VncServer", r, 200) \in Messages
        /\ Msg("ControlRsp", "VncServer", r, 603) \in Messages
  BY VwrMessages
<1>1. CASE vwrReqRemoteControl
  <2> DEFINE m == Msg("ReqControl", "VncViewer", viewer.room, 1)
  <2>1. m \in Messages /\ Kind(m) = "ask"
    BY <1>t, <1>m, MsgKinds
  <2>2. viewer' = [viewer EXCEPT !.rc = "ReqControling", !.asked = viewer.asked + 1,
                                 !.requestQ = Append(viewer.requestQ, m)]
        /\ viewer.rc = "Normal"
    BY <1>1 DEF vwrReqRemoteControl, VwrRequest
  <2> HIDE DEF m
  <2>3. /\ viewer'.rc = "ReqControling" /\ viewer'.asked = viewer.asked + 1
        /\ viewer'.requestQ = Append(viewer.requestQ, m)
    BY <1>t, <2>2 DEF ViewerFields
  <2>4. ASSUME AskedOnce', Now PROVE Then(m)
    <3>1. viewer.asked = 0 /\ viewer'.asked = 1
      BY <1>t, <2>3, <2>4 DEF AskedOnce
    <3>2. /\ Side(viewer.rc, 0, ToServer, server.rc, ToViewer, TRUE)
          /\ Side(server.rc, server.asked, ToViewer, viewer.rc, ToServer, FALSE)
      BY <2>4, <3>1 DEF BothSides
    <3>3. /\ Side("ReqControling", 1, Append(ToServer, m), server.rc, ToViewer, TRUE)
          /\ Side(server.rc, server.asked, ToViewer, "ReqControling", Append(ToServer, m), FALSE)
      BY <1>t, <2>1, <2>2, <3>2, AskKeeps
    <3> QED BY <2>3, <3>1, <3>3 DEF BothSides
  <2>5. Kind(m) # "other" /\ viewer'.asked \in Nat /\ viewer.asked <= viewer'.asked
    BY <1>t, <2>1, <2>3
  <2> HIDE DEF Now, Then
  <2> QED BY <1>k, <2>1, <2>3, <2>4, <2>5
<1>2. CASE vwrStopRemoteControl
  <2> DEFINE m == Msg("ReqControl", "VncViewer", viewer.room, 0)
  <2>1. m \in Messages /\ Kind(m) = "stop"
    BY <1>t, <1>m, MsgKinds
  <2>2. viewer' = [viewer EXCEPT !.rc = "Normal", !.viewOnly = TRUE,
                                 !.requestQ = Append(viewer.requestQ, m)]
        /\ viewer.rc \in {"Controling", "ReqControling"}
    BY <1>2 DEF vwrStopRemoteControl, VwrRequest
  <2> HIDE DEF m
  <2>3. /\ viewer'.rc = "Normal" /\ viewer'.asked = viewer.asked
        /\ viewer'.requestQ = Append(viewer.requestQ, m)
    BY <1>t, <2>2 DEF ViewerFields
  <2>4. ASSUME Now PROVE Then(m)
    <3>1. /\ Side("Normal", viewer.asked, Append(ToServer, m), server.rc, ToViewer, TRUE)
          /\ Side(server.rc, server.asked, ToViewer, "Normal", Append(ToServer, m), FALSE)
      BY <1>t, <2>1, <2>2, <2>4, StopKeeps DEF BothSides
    <3> QED BY <2>3, <3>1 DEF BothSides
  <2>5. Kind(m) # "other" /\ viewer'.asked \in Nat /\ viewer.asked <= viewer'.asked
    BY <1>t, <2>1, <2>3
  <2> HIDE DEF Now, Then
  <2> QED BY <1>k, <2>1, <2>3, <2>4, <2>5
<1>3. ASSUME NEW r \in RoomIds, vwrAcceptRemoteControl(r) \/ vwrRejectRemoteControl(r)
      PROVE  AgreeInv'
  <2>1. PICK m \in Messages, c \in {"Controling", "Normal"} :
          /\ \/ Kind(m) = "grant" /\ c = "Controling"
             \/ Kind(m) = "refuse" /\ c = "Normal"
          /\ viewer'.rc = c /\ viewer'.asked = viewer.asked
          /\ viewer'.requestQ = Append(viewer.requestQ, m)
          /\ viewer.rc = "RecvReqControling"
    <3> DEFINE g == Msg("ControlRsp", "VncServer", viewer.room, 200)
               j == Msg("ControlRsp", "VncServer", viewer.room, 603)
    <3>1. g \in Messages /\ Kind(g) = "grant" /\ j \in Messages /\ Kind(j) = "refuse"
      BY <1>t, <1>m, MsgKinds
    <3>2. /\ viewer.rc = "RecvReqControling"
          /\ \/ viewer' = [viewer EXCEPT !.rc = "Controling", !.viewOnly = FALSE,
                                         !.requestQ = Append(viewer.requestQ, g)]
             \/ viewer' = [viewer EXCEPT !.rc = "Normal", !.viewOnly = TRUE,
                                         !.requestQ = Append(viewer.requestQ, j)]
      BY <1>3 DEF vwrAcceptRemoteControl, vwrRejectRemoteControl, VwrRequest
    <3> HIDE DEF g, j
    <3>3. /\ viewer'.asked = viewer.asked
          /\ \/ viewer'.rc = "Controling" /\ viewer'.requestQ = Append(viewer.requestQ, g)
             \/ viewer'.rc = "Normal" /\ viewer'.requestQ = Append(viewer.requestQ, j)
      BY <1>t, <3>2 DEF ViewerFields
    <3> QED BY <3>1, <3>2, <3>3
  <2>4. ASSUME Now PROVE Then(m)
    <3>1. /\ Side(c, viewer.asked, Append(ToServer, m), server.rc, ToViewer, TRUE)
          /\ Side(server.rc, server.asked, ToViewer, c, Append(ToServer, m), FALSE)
      BY <1>t, <2>1, <2>4, AnswerKeeps DEF BothSides
    <3> QED BY <2>1, <3>1 DEF BothSides
  <2>5. Kind(m) # "other" /\ viewer'.asked \in Nat /\ viewer.asked <= viewer'.asked
    BY <1>t, <2>1
  <2> HIDE DEF Now, Then
  <2> QED BY <1>k, <2>1, <2>4, <2>5
<1> QED BY <1>u, <1>1, <1>2, <1>3 DEF VwrControlCall

(* What a side makes of a control message is what Turned says. *)
LEMMA SharerTurns ==
  ASSUME server \in ServerFields, NEW m, Kind(m) # "other",
         SrvOnReqControl(m) \/ SrvOnControlRsp(m)
  PROVE  /\ server'.rc = Turned(server.rc, Kind(m))
         /\ server'.asked = server.asked /\ server'.requestQ = server.requestQ
<1>k. /\ Kind(m) = "ask" <=> m.type = "ReqControl" /\ m.status = 1
      /\ Kind(m) = "stop" <=> m.type = "ReqControl" /\ m.status = 0
      /\ Kind(m) = "grant" <=> m.type = "ControlRsp" /\ m.status = 200
      /\ Kind(m) = "refuse" <=> m.type = "ControlRsp" /\ m.status = 603
      /\ Kind(m) \in {"ask", "stop", "grant", "refuse"}
  BY KindOfMsg DEF Kind
<1>1. CASE SrvOnReqControl(m)
  <2>1. /\ server'.asked = server.asked /\ server'.requestQ = server.requestQ
        /\ server'.rc = IF m.status = 1 /\ server.rc = "Normal" THEN "RecvReqControling"
                        ELSE IF m.status = 0 /\ server.rc \in {"RecvReqControling", "Controling"}
                          THEN "Normal" ELSE server.rc
    BY <1>1 DEF SrvOnReqControl, ServerFields
  <2>2. Kind(m) = "ask" \/ Kind(m) = "stop"
    BY <1>1, <1>k DEF SrvOnReqControl
  <2> QED BY <1>k, <2>1, <2>2 DEF Turned
<1>2. CASE SrvOnControlRsp(m)
  <2>1. /\ server'.asked = server.asked /\ server'.requestQ = server.requestQ
        /\ server'.rc = IF server.rc = "ReqControling" /\ m.status = 200 THEN "Controling"
                        ELSE IF server.rc = "ReqControling" /\ m.status = 603
                          THEN "Normal" ELSE server.rc
    BY <1>2 DEF SrvOnControlRsp, ServerFields
  <2>2. Kind(m) = "grant" \/ Kind(m) = "refuse"
    BY <1>2, <1>k DEF SrvOnControlRsp
  <2> QED BY <1>k, <2>1, <2>2 DEF Turned
<1> QED BY <1>1, <1>2

LEMMA ViewerTurns ==
  ASSUME viewer \in ViewerFields, NEW m, Kind(m) # "other",
         VwrOnReqControl(m) \/ VwrOnControlRsp(m)
  PROVE  /\ viewer'.rc = Turned(viewer.rc, Kind(m))
         /\ viewer'.asked = viewer.asked /\ viewer'.requestQ = viewer.requestQ
<1>k. /\ Kind(m) = "ask" <=> m.type = "ReqControl" /\ m.status = 1
      /\ Kind(m) = "stop" <=> m.type = "ReqControl" /\ m.status = 0
      /\ Kind(m) = "grant" <=> m.type = "ControlRsp" /\ m.status = 200
      /\ Kind(m) = "refuse" <=> m.type = "ControlRsp" /\ m.status = 603
      /\ Kind(m) \in {"ask", "stop", "grant", "refuse"}
  BY KindOfMsg DEF Kind
<1>1. CASE VwrOnReqControl(m)
  <2>1. /\ viewer'.asked = viewer.asked /\ viewer'.requestQ = viewer.requestQ
        /\ viewer'.rc = IF m.status = 1 /\ viewer.rc = "Normal" THEN "RecvReqControling"
                        ELSE IF m.status = 0 /\ viewer.rc \in {"RecvReqControling", "Controling"}
                          THEN "Normal" ELSE viewer.rc
    BY <1>1 DEF VwrOnReqControl, ViewerFields
  <2>2. Kind(m) = "ask" \/ Kind(m) = "stop"
    BY <1>1, <1>k DEF VwrOnReqControl
  <2> QED BY <1>k, <2>1, <2>2 DEF Turned
<1>2. CASE VwrOnControlRsp(m)
  <2>1. /\ viewer'.asked = viewer.asked /\ viewer'.requestQ = viewer.requestQ
        /\ viewer'.rc = IF viewer.rc = "ReqControling" /\ m.status = 200 THEN "Controling"
                        ELSE IF viewer.rc = "ReqControling" /\ m.status = 603
                          THEN "Normal" ELSE viewer.rc
    BY <1>2 DEF VwrOnControlRsp, ViewerFields
  <2>2. Kind(m) = "grant" \/ Kind(m) = "refuse"
    BY <1>2, <1>k DEF VwrOnControlRsp
  <2> QED BY <1>k, <2>1, <2>2 DEF Turned
<1> QED BY <1>1, <1>2

(* The sharer takes the oldest message of the viewer. *)
LEMMA SharerHandlesAgree ==
  ASSUME SrvInv, VwrInv, AgreeInv, ServerHandles
  PROVE  AgreeInv'
<1>t. /\ ToViewer \in Seq(Messages) /\ ToServer \in Seq(Messages)
      /\ serverIn \in Seq(Messages) /\ viewer.requestQ \in Seq(Messages)
      /\ server \in ServerFields /\ server.rc \in ControlStates /\ viewer.rc \in ControlStates
  BY WordTypes
<1> DEFINE m == Head(serverIn)
<1>1. /\ serverIn # << >> /\ serverIn' = Tail(serverIn)
      /\ viewer' = viewer /\ viewerIn' = viewerIn
      /\ \/ SrvOnCreateRoom(m) \/ SrvOnRoomClosed(m) \/ SrvOnJoinRoom(m)
         \/ SrvOnQuitRoom(m) \/ SrvOnExitRoom(m) \/ SrvOnReqInitMsg(m)
         \/ SrvOnReqControl(m) \/ SrvOnControlRsp(m)
  BY DEF ServerHandles, SrvHandle
<1>2. /\ ToServer # << >> /\ Head(ToServer) = m /\ ToServer' = Tail(ToServer)
  BY <1>t, <1>1, LeavesFirst DEF ToServer
<1> HIDE DEF m
<1>3. /\ \A kinds : Has(ToServer, kinds) <=> Has(Tail(ToServer), kinds) \/ Kind(m) \in kinds
  BY <1>t, <1>2, WordShrinks
<1>4. Kind(m) # "other" /\ ~Has(ToServer', {"other"})
  BY <1>2, <1>3 DEF AgreeInv, ControlOnly
<1>5. SrvOnReqControl(m) \/ SrvOnControlRsp(m)
  BY <1>1, <1>4, KindOfMsg DEF SrvOnCreateRoom, SrvOnRoomClosed, SrvOnJoinRoom, SrvOnQuitRoom,
     SrvOnExitRoom, SrvOnReqInitMsg
<1>6. /\ server'.rc = Turned(server.rc, Kind(m))
      /\ server'.asked = server.asked /\ server'.requestQ = server.requestQ
  BY <1>t, <1>4, <1>5, SharerTurns
<1>7. ToViewer' = ToViewer /\ (AskedOnce' => AskedOnce)
  BY <1>1, <1>6 DEF ToViewer, AskedOnce
<1>8. ASSUME BothSides(server.rc, server.asked, ToViewer, viewer.rc, viewer.asked, ToServer)
      PROVE  BothSides(server'.rc, server.asked, ToViewer,
                       viewer.rc, viewer.asked, Tail(ToServer))
  <2>1. /\ Side(server.rc, server.asked, ToViewer, viewer.rc, ToServer, FALSE)
        /\ Side(viewer.rc, viewer.asked, ToServer, server.rc, ToViewer, TRUE)
    BY <1>8 DEF BothSides
  <2>2. server'.rc = Turned(server.rc, Kind(Head(ToServer)))
    BY <1>2, <1>6
  <2>3. /\ Side(server'.rc, server.asked, ToViewer, viewer.rc, Tail(ToServer), FALSE)
        /\ Side(viewer.rc, viewer.asked, Tail(ToServer), server'.rc, ToViewer, TRUE)
    BY <1>t, <1>2, <2>1, <2>2, HandleKeeps
  <2> QED BY <2>3 DEF BothSides
<1>9. SidesAgree'
  BY <1>1, <1>2, <1>6, <1>7, <1>8 DEF AgreeInv, SidesAgree
<1> QED BY <1>4, <1>7, <1>9 DEF AgreeInv, ControlOnly

(* ... and the viewer that of the sharer. *)
LEMMA ViewerHandlesAgree ==
  ASSUME SrvInv, VwrInv, AgreeInv, ViewerHandles
  PROVE  AgreeInv'
<1>t. /\ ToViewer \in Seq(Messages) /\ ToServer \in Seq(Messages)
      /\ viewerIn \in Seq(Messages) /\ server.requestQ \in Seq(Messages)
      /\ viewer \in ViewerFields /\ server.rc \in ControlStates /\ viewer.rc \in ControlStates
  BY WordTypes
<1> DEFINE m == Head(viewerIn)
<1>1. /\ viewerIn # << >> /\ viewerIn' = Tail(viewerIn)
      /\ server' = server /\ serverIn' = serverIn
      /\ \/ VwrOnCreateRoom(m) \/ VwrOnRoomClosed(m) \/ VwrOnJoinRoom(m)
         \/ VwrOnQuitRoom(m) \/ VwrOnExitRoom(m) \/ VwrOnReqInitMsg(m)
         \/ VwrOnReqControl(m) \/ VwrOnControlRsp(m)
  BY DEF ViewerHandles, VwrHandle
<1>2. /\ ToViewer # << >> /\ Head(ToViewer) = m /\ ToViewer' = Tail(ToViewer)
  BY <1>t, <1>1, LeavesFirst DEF ToViewer
<1> HIDE DEF m
<1>3. /\ \A kinds : Has(ToViewer, kinds) <=> Has(Tail(ToViewer), kinds) \/ Kind(m) \in kinds
  BY <1>t, <1>2, WordShrinks
<1>4. Kind(m) # "other" /\ ~Has(ToViewer', {"other"})
  BY <1>2, <1>3 DEF AgreeInv, ControlOnly
<1>5. VwrOnReqControl(m) \/ VwrOnControlRsp(m)
  BY <1>1, <1>4, KindOfMsg DEF VwrOnCreateRoom, VwrOnRoomClosed, VwrOnJoinRoom, VwrOnQuitRoom,
     VwrOnExitRoom, VwrOnReqInitMsg
<1>6. /\ viewer'.rc = Turned(viewer.rc, Kind(m))
      /\ viewer'.asked = viewer.asked /\ viewer'.requestQ = viewer.requestQ
  BY <1>t, <1>4, <1>5, ViewerTurns
<1>7. ToServer' = ToServer /\ (AskedOnce' => AskedOnce)
  BY <1>1, <1>6 DEF ToServer, AskedOnce
<1>8. ASSUME BothSides(server.rc, server.asked, ToViewer, viewer.rc, viewer.asked, ToServer)
      PROVE  BothSides(server.rc, server.asked, Tail(ToViewer),
                       viewer'.rc, viewer.asked, ToServer)
  <2>1. /\ Side(server.rc, server.asked, ToViewer, viewer.rc, ToServer, FALSE)
        /\ Side(viewer.rc, viewer.asked, ToServer, server.rc, ToViewer, TRUE)
    BY <1>8 DEF BothSides
  <2>2. viewer'.rc = Turned(viewer.rc, Kind(Head(ToViewer)))
    BY <1>2, <1>6
  <2>3. /\ Side(viewer'.rc, viewer.asked, ToServer, server.rc, Tail(ToViewer), TRUE)
        /\ Side(server.rc, server.asked, Tail(ToViewer), viewer'.rc, ToServer, FALSE)
    BY <1>t, <1>2, <2>1, <2>2, HandleKeeps
  <2> QED BY <2>3 DEF BothSides
<1>9. SidesAgree'
  BY <1>1, <1>2, <1>6, <1>7, <1>8 DEF AgreeInv, SidesAgree
<1> QED BY <1>4, <1>7, <1>9 DEF AgreeInv, ControlOnly

(* A send moves a message from one part of a word to the other. *)
LEMMA SendsAgree ==
  ASSUME SrvInv, VwrInv, AgreeInv, ServerSends \/ ViewerSends \/ UNCHANGED vars
  PROVE  AgreeInv'
<1>t. /\ viewerIn \in Seq(Messages) /\ serverIn \in Seq(Messages)
      /\ server.requestQ \in Seq(Messages) /\ viewer.requestQ \in Seq(Messages)
      /\ server \in ServerFields /\ viewer \in ViewerFields
  BY WordTypes
<1>k. ASSUME ToViewer' = ToViewer, ToServer' = ToServer,
             server'.rc = server.rc, server'.asked = server.asked,
             viewer'.rc = viewer.rc, viewer'.asked = viewer.asked
      PROVE  AgreeInv'
  BY <1>k DEF AgreeInv, ControlOnly, SidesAgree, AskedOnce
<1>1. CASE ServerSends
  <2>1. /\ server.requestQ # << >>
        /\ server' = [server EXCEPT !.requestQ = Tail(server.requestQ)]
        /\ viewerIn' = Append(viewerIn, Head(server.requestQ))
        /\ serverIn' = serverIn /\ viewer' = viewer
    BY <1>1 DEF ServerSends, SrvSend
  <2>2. /\ server'.requestQ = Tail(server.requestQ)
        /\ server'.rc = server.rc /\ server'.asked = server.asked
    BY <1>t, <2>1 DEF ServerFields
  <2>3. ToViewer' = ToViewer /\ ToServer' = ToServer
    BY <1>t, <2>1, <2>2, MovesOver DEF ToViewer, ToServer
  <2> QED BY <1>k, <2>1, <2>2, <2>3
<1>2. CASE ViewerSends
  <2>1. /\ viewer.requestQ # << >>
        /\ viewer' = [viewer EXCEPT !.requestQ = Tail(viewer.requestQ)]
        /\ serverIn' = Append(serverIn, Head(viewer.requestQ))
        /\ viewerIn' = viewerIn /\ server' = server
    BY <1>2 DEF ViewerSends, VwrSend
  <2>2. /\ viewer'.requestQ = Tail(viewer.requestQ)
        /\ viewer'.rc = viewer.rc /\ viewer'.asked = viewer.asked
    BY <1>t, <2>1 DEF ViewerFields
  <2>3. ToViewer' = ToViewer /\ ToServer' = ToServer
    BY <1>t, <2>1, <2>2, MovesOver DEF ToViewer, ToServer
  <2> QED BY <1>k, <2>1, <2>2, <2>3
<1>3. CASE UNCHANGED vars
  BY <1>k, <1>3 DEF vars, ToViewer, ToServer
<1> QED BY <1>1, <1>2, <1>3

(* When nothing is under way the two endpoints agree who is in control, if  *)
(* each side asked at most once: whatever requests, answers and stops       *)
(* crossed before, and however many rooms there are.                        *)
THEOREM ControlAgreement == Spec => []ControlAgreesAtRest
<1> DEFINE J == IInv /\ AgreeInv
<1>1. Init => J
  BY InitIInv, InitAgree
<1>2. J /\ [Next]_vars => J'
  <2> SUFFICES ASSUME J, [Next]_vars PROVE J'
    OBVIOUS
  <2>1. IInv'
    BY EndpointsKept, ServerConsent, ViewerConsent, SendConsent DEF IInv, Next
  <2>2. SrvInv /\ VwrInv
    BY DEF IInv
  <2>3. AgreeInv'
    BY <2>2, SharerCalls, ViewerCallsAgree, SharerHandlesAgree, ViewerHandlesAgree, SendsAgree
       DEF Next
  <2> QED BY <2>1, <2>3
<1>3. J => ControlAgreesAtRest
  <2> SUFFICES ASSUME J, AtRest, AskedOnce
               PROVE  /\ viewer.rc = "Controling" => server.rc \in {"Controling", "ReqControling"}
                      /\ server.rc = "Controling" => viewer.rc = "Controling"
    BY DEF ControlAgreesAtRest
  <2>1. ToViewer = << >> /\ ToServer = << >>
    BY DEF AtRest, ToViewer, ToServer
  <2>2. /\ PeerHolds(server.rc, << >>, viewer.rc, << >>, FALSE)
        /\ PeerHolds(viewer.rc, << >>, server.rc, << >>, TRUE)
    BY <2>1 DEF AgreeInv, SidesAgree, BothSides, Side
  <2> QED BY <2>2, EmptyWord DEF PeerHolds
<1> QED BY <1>1, <1>2, <1>3, PTL DEF Spec
=============================================================================
