--------------------------- MODULE RemoteControl ----------------------------
(* The remote control negotiation of a sharer and a viewer that sit in one  *)
(* room, with no disconnection: VncServer and VncViewer connected by the    *)
(* share server, which passes control messages on in order.                 *)
EXTENDS VncServer, VncViewer

vars == <<server, serverIn, viewer, viewerIn>>

(* both have joined room r *)
Init ==
  \E r \in Rooms :
    /\ server = [state |-> "Sharing", rc |-> "Normal", room |-> r,
                 sending |-> TRUE, reconnecting |-> FALSE, conn |-> "up",
                 requestQ |-> << >>, input |-> "default",
                 asked |-> 0]
    /\ viewer = [state |-> "Sharing", rc |-> "Normal", room |-> r,
                 reconnecting |-> FALSE, conn |-> "up",
                 requestQ |-> << >>, viewOnly |-> TRUE,
                 asked |-> 0]
    /\ serverIn = << >> /\ viewerIn = << >>

ServerCalls == SrvControlCall /\ UNCHANGED <<viewer, viewerIn>>
ViewerCalls == VwrControlCall /\ UNCHANGED <<server, serverIn>>

ServerSends ==
  /\ server.requestQ # << >>
  /\ LET m == Head(server.requestQ)
     IN SrvSend(m) /\ viewerIn' = Append(viewerIn, m)
  /\ UNCHANGED <<serverIn, viewer>>

ViewerSends ==
  /\ viewer.requestQ # << >>
  /\ LET m == Head(viewer.requestQ)
     IN VwrSend(m) /\ serverIn' = Append(serverIn, m)
  /\ UNCHANGED <<viewerIn, server>>

ServerHandles == SrvHandle /\ UNCHANGED <<viewer, viewerIn>>
ViewerHandles == VwrHandle /\ UNCHANGED <<server, serverIn>>

Next ==
  \/ ServerCalls \/ ServerSends \/ ServerHandles
  \/ ViewerCalls \/ ViewerSends \/ ViewerHandles

Spec == Init /\ [][Next]_vars

(* The send and receive threads of both sides run, and a connected netComm  *)
(* connection takes a request and delivers it in the end.  Nobody has to    *)
(* press a button.                                                          *)
FairSpec ==
  /\ Spec
  /\ WF_vars(ServerSends) /\ WF_vars(ViewerSends)
  /\ WF_vars(ServerHandles) /\ WF_vars(ViewerHandles)

-----------------------------------------------------------------------------
(* no request and no answer is waiting or under way *)
AtRest ==
  /\ server.requestQ = << >> /\ viewer.requestQ = << >>
  /\ serverIn = << >> /\ viewerIn = << >>

(* The viewer's input events are sent and the sharer's machine takes them. *)
EffectiveControl == ~viewer.viewOnly /\ server.input # "disabled"

(* The viewer drives the sharer's desktop only while the sharer's endpoint  *)
(* knows it: it granted control and has not taken it back, or it has asked  *)
(* for it.  It holds although the input is on by default and requests,      *)
(* answers and stops of the two sides cross on the wire.                    *)
EffectiveControlIsConsented ==
  EffectiveControl => server.rc \in {"Controling", "ReqControling"}

(* neither side has asked a second time *)
AskedOnce == server.asked <= 1 /\ viewer.asked <= 1

(* When nothing is under way the two endpoints agree who is in control,     *)
(* provided each side asked at most once: a viewer in control faces a       *)
(* sharer that is controlled or has just asked to be, and a controlled      *)
(* sharer faces a viewer in control.                                        *)
ControlAgreesAtRest ==
  AtRest /\ AskedOnce =>
    /\ viewer.rc = "Controling" => server.rc \in {"Controling", "ReqControling"}
    /\ server.rc = "Controling" => viewer.rc = "Controling"

(* A sharer that took control back and does not give it again is obeyed:    *)
(* the viewer becomes view only in the end, again if each asked only once.  *)
StopTakesEffect ==
  (server.rc = "Normal" /\ server.input = "disabled" /\ AskedOnce)
    ~> (viewer.viewOnly \/ server.rc # "Normal" \/ ~AskedOnce)
=============================================================================
