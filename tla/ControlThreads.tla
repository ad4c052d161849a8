--------------------------- MODULE ControlThreads ----------------------------
(* Remote control with the threads inside the calls.  On each side the page *)
(* calls on the UI thread while HandleVncMsgPacket runs on the receive      *)
(* thread, and both read and write m_RCState and the switch of the input    *)
(* without a lock.  VncServer, VncViewer and RemoteControl take a call or a *)
(* handler as one step; here each of its tests and assignments is one.      *)
EXTENDS Naturals, Sequences

CONSTANTS MaxAsks,     \* bound: requests for control, per side
          QueueBound   \* bound: messages in one queue

Sides == {"S", "V"}            \* CCPVncServer, CCPVncViewer
Peer(x) == IF x = "S" THEN "V" ELSE "S"

ASSUME ThreadsAssumption == MaxAsks \in [Sides -> Nat] /\ QueueBound \in Nat \ {0}

VARIABLES
  end,    \* per side: the fields of the endpoint and its two threads
  wire,   \* per side: what is on its way to the other one
  raced   \* the sides on which a call and a handler overlapped

vars == <<end, wire, raced>>

(* Input passes the sharer by default and the viewer not (view only).       *)
Endpoint(x) ==
  [rc    |-> "Normal",    \* m_RCState
   gate  |-> x = "S",     \* EnableRemoteInput; not SetViewOnly
   queue |-> << >>,       \* m_RequestQ
   asked |-> 0,           \* requests so far
   ui    |-> << >>,       \* what is left of the page's call
   recv  |-> << >>]       \* what is left of HandleVncMsgPacket

Init ==
  /\ end = [x \in Sides |-> Endpoint(x)]
  /\ wire = [x \in Sides |-> << >>]
  /\ raced = {}

-----------------------------------------------------------------------------
(* What calls and handlers consist of.                                      *)
SetRC(state)    == [op |-> "rc", arg |-> state]
SetGate(on)     == [op |-> "gate", arg |-> on]
Send(type)      == [op |-> "send", arg |-> type]
If(state, then) == [op |-> "if", arg |-> state, then |-> then]

(* The calls: the states in which they do something, and what.              *)
Pending == {"Controling", "ReqControling"}

reqRemoteControl(x) ==
  [when |-> IF x = "S" THEN {"Normal", "RecvReqControling", "Controling"} ELSE {"Normal"},
   do   |-> <<SetRC("ReqControling"), Send("Ask")>>]

(* mutant: the viewer's switch is forgotten *)
StopKeepsGate(x) ==
  [when |-> Pending,
   do   |-> IF x = "S" THEN <<SetGate(FALSE), SetRC("Normal"), Send("Stop")>>
                       ELSE <<SetRC("Normal"), Send("Stop")>>]
stopRemoteControl(x) ==
  [when |-> Pending,
   do   |-> IF x = "S" THEN <<SetGate(FALSE), SetRC("Normal"), Send("Stop")>>
                       ELSE <<SetRC("Normal"), SetGate(FALSE), Send("Stop")>>]

acceptRemoteControl(x) ==
  [when |-> {"RecvReqControling"},
   do   |-> IF x = "S" THEN <<SetGate(TRUE), Send("Grant"), SetRC("Controling")>>
                       ELSE <<SetRC("Controling"), SetGate(TRUE), Send("Grant")>>]

rejectRemoteControl(x) ==
  [when |-> {"RecvReqControling"},
   do   |-> IF x = "S" THEN <<SetGate(FALSE), Send("Refuse"), SetRC("Normal")>>
                       ELSE <<SetRC("Normal"), SetGate(FALSE), Send("Refuse")>>]

(* HandleVncMsgPacket, alike on both sides: each "if" reads m_RCState anew. *)
OnAsk    == <<If("Normal", <<SetRC("RecvReqControling")>>)>>
StopLeavesGate ==   \* mutant: the switch is left on
  <<If("RecvReqControling", <<SetRC("Normal")>>), If("Controling", <<SetRC("Normal")>>)>>
OnStop   == <<If("RecvReqControling", <<SetRC("Normal")>>),
              If("Controling", <<SetRC("Normal"), SetGate(FALSE)>>)>>
GrantLeavesGate == <<If("ReqControling", <<SetRC("Controling")>>)>>   \* mutant
OnGrant  == <<If("ReqControling", <<SetRC("Controling"), SetGate(TRUE)>>)>>
OnRefuse == <<If("ReqControling", <<SetRC("Normal"), SetGate(FALSE)>>)>>

Handler(type) ==
  CASE type = "Ask"   -> OnAsk
    [] type = "Stop"  -> OnStop
    [] type = "Grant" -> OnGrant
    [] OTHER          -> OnRefuse

-----------------------------------------------------------------------------
Races(x, other) == raced' = IF other = << >> THEN raced ELSE raced \cup {x}

(* A call of the page reads m_RCState and goes on, or does nothing.         *)
Call(x, call, asks) ==
  /\ end[x].ui = << >> /\ end[x].rc \in call.when
  /\ end' = [end EXCEPT ![x].ui = call.do, ![x].asked = @ + asks]
  /\ Races(x, end[x].recv)
  /\ UNCHANGED wire

PageCalls(x) ==
  \/ end[x].asked < MaxAsks[x] /\ Call(x, reqRemoteControl(x), 1)
  \/ Call(x, stopRemoteControl(x), 0)
  \/ Call(x, acceptRemoteControl(x), 0)
  \/ Call(x, rejectRemoteControl(x), 0)

Receives(x) ==
  /\ end[x].recv = << >> /\ wire[Peer(x)] # << >>
  /\ end' = [end EXCEPT ![x].recv = Handler(Head(wire[Peer(x)]))]
  /\ wire' = [wire EXCEPT ![Peer(x)] = Tail(@)]
  /\ Races(x, end[x].ui)

(* One test or assignment of a thread.                                      *)
Done(e, i) ==
  CASE i.op = "rc"   -> [e EXCEPT !.rc = i.arg]
    [] i.op = "gate" -> [e EXCEPT !.gate = i.arg]
    [] i.op = "send" -> [e EXCEPT !.queue = Append(@, i.arg)]
    [] i.op = "if"   -> e

Goes(x, thread) ==
  /\ end[x][thread] # << >>
  /\ LET i == Head(end[x][thread])
         then == IF i.op = "if" /\ end[x].rc = i.arg THEN i.then ELSE << >>
     IN /\ i.op = "send" => Len(end[x].queue) < QueueBound
        /\ end' = [end EXCEPT ![x] =
                    [Done(end[x], i) EXCEPT ![thread] = then \o Tail(end[x][thread])]]
  /\ UNCHANGED <<wire, raced>>

(* The sharer has a thread that sends; the viewer's receive thread does it  *)
(* between two messages.                                                    *)
Sends(x) ==
  /\ end[x].queue # << >> /\ Len(wire[x]) < QueueBound
  /\ x = "V" => end[x].recv = << >>
  /\ end' = [end EXCEPT ![x].queue = Tail(@)]
  /\ wire' = [wire EXCEPT ![x] = Append(@, Head(end[x].queue))]
  /\ UNCHANGED raced

Threads(x) == Receives(x) \/ Goes(x, "ui") \/ Goes(x, "recv") \/ Sends(x)

Next == \E x \in Sides : PageCalls(x) \/ Threads(x)

Spec == Init /\ [][Next]_vars

-----------------------------------------------------------------------------
AtRest ==
  \A x \in Sides : /\ wire[x] = << >> /\ end[x].queue = << >>
                   /\ end[x].ui = << >> /\ end[x].recv = << >>

EffectiveControl == end["V"].gate /\ end["S"].gate

(* The viewer's page and its receive thread may cross each other as they    *)
(* like: while they do not on the sharer's side, a viewer that has control  *)
(* at rest faces a sharer whose endpoint knows it, so that its page can     *)
(* stop it (stopRemoteControl does something in these states only).  With   *)
(* such a race on the sharer's side this is lost: see the README.           *)
ConsentUnlessRaced ==
  AtRest /\ EffectiveControl /\ "S" \notin raced => end["S"].rc \in Pending

(* And the viewer's switch follows its control state, whatever the threads  *)
(* of the sharer do: a call and a handler of the viewer that overlap can    *)
(* leave it in effective control with m_RCState Normal.                     *)
ViewFollows ==
  AtRest /\ "V" \notin raced => (end["V"].gate <=> end["V"].rc = "Controling")

(* No race leaves a sharer that counts as controlled with its input off,    *)
(* although stopRemoteControl and acceptRemoteControl write the two in      *)
(* opposite order and an answer's handler writes them at the same time.     *)
ControlledTakesInput == AtRest /\ end["S"].rc = "Controling" => end["S"].gate
=============================================================================
