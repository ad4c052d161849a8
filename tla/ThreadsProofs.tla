---------------------------- MODULE ThreadsProofs ----------------------------
(* Proofs about the two models whose steps are single statements of a call  *)
(* or a thread: ControlThreads, for any number of requests and messages,    *)
(* and ViewerThreads, for any number of frames.                             *)
EXTENDS ControlThreads, ViewerThreads, SequenceTheorems, TLAPS

-----------------------------------------------------------------------------
(* What is left of calls and handlers, step by step *)

States == {"Normal", "ReqControling", "RecvReqControling", "Controling"}
Types  == {"Ask", "Stop", "Grant", "Refuse"}

rcN == SetRC("Normal")
rcR == SetRC("ReqControling")
rcW == SetRC("RecvReqControling")
rcC == SetRC("Controling")
on  == SetGate(TRUE)
off == SetGate(FALSE)
ifC == If("Controling", <<rcN, off>>)

Ask2    == <<rcR, Send("Ask")>>
Ask1    == <<Send("Ask")>>
Stop1   == <<Send("Stop")>>

(* On the sharer's side *)
Stop3   == <<off, rcN, Send("Stop")>>
Stop2   == <<rcN, Send("Stop")>>
Grant3  == <<on, Send("Grant"), rcC>>
Grant2  == <<Send("Grant"), rcC>>
Grant1  == <<rcC>>
Refuse3 == <<off, Send("Refuse"), rcN>>
Refuse2 == <<Send("Refuse"), rcN>>
Refuse1 == <<rcN>>
SharerCalls ==
  {<<>>, Ask2, Ask1, Stop3, Stop2, Stop1, Grant3, Grant2, Grant1, Refuse3, Refuse2, Refuse1}

(* On the viewer's *)
VStop3   == <<rcN, off, Send("Stop")>>
VStop2   == <<off, Send("Stop")>>
VGrant3  == <<rcC, on, Send("Grant")>>
VGrant2  == <<on, Send("Grant")>>
VGrant1  == <<Send("Grant")>>
VRefuse3 == <<rcN, off, Send("Refuse")>>
VRefuse2 == <<off, Send("Refuse")>>
VRefuse1 == <<Send("Refuse")>>
ViewerCalls ==
  {<<>>, Ask2, Ask1, VStop3, VStop2, Stop1, VGrant3, VGrant2, VGrant1, VRefuse3, VRefuse2, VRefuse1}

Calls(x) == IF x = "S" THEN SharerCalls ELSE ViewerCalls

(* Of the handlers, which are alike *)
Asked1   == <<rcW>>
Stopped2 == <<rcN, ifC>>
Stopped1 == <<ifC>>
TurnOn2  == <<rcC, on>>
TurnOn1  == <<on>>
TurnOff2 == <<rcN, off>>
TurnOff1 == <<off>>
Handlers ==
  {<<>>, OnAsk, Asked1, OnStop, Stopped2, Stopped1, OnGrant, TurnOn2, TurnOn1,
   OnRefuse, TurnOff2, TurnOff1}

(* Types *)
Endpoints(x) ==
  [rc : States, gate : BOOLEAN, queue : Seq(Types), asked : Nat, ui : Calls(x), recv : Handlers]
TInv ==
  /\ end \in [Sides -> Endpoints("S") \cup Endpoints("V")]
  /\ \A x \in Sides : end[x] \in Endpoints(x)
  /\ wire \in [Sides -> Seq(Types)]
  /\ raced \subseteq Sides

(* A thread that has p left does i and has q left then *)
UiRuns(e, f, p, i, q)   == e.ui = p /\ f = [Done(e, i) EXCEPT !.ui = q]
RecvRuns(e, f, p, i, q) == e.recv = p /\ f = [Done(e, i) EXCEPT !.recv = q]

SharerTurns(e, f) ==
  \/ UiRuns(e, f, Ask2, rcR, Ask1)                \/ UiRuns(e, f, Ask1, Send("Ask"), <<>>)
  \/ UiRuns(e, f, Stop3, off, Stop2)              \/ UiRuns(e, f, Stop2, rcN, Stop1)
  \/ UiRuns(e, f, Stop1, Send("Stop"), <<>>)      \/ UiRuns(e, f, Grant3, on, Grant2)
  \/ UiRuns(e, f, Grant2, Send("Grant"), Grant1)  \/ UiRuns(e, f, Grant1, rcC, <<>>)
  \/ UiRuns(e, f, Refuse3, off, Refuse2)
  \/ UiRuns(e, f, Refuse2, Send("Refuse"), Refuse1) \/ UiRuns(e, f, Refuse1, rcN, <<>>)

ViewerTurns(e, f) ==
  \/ UiRuns(e, f, Ask2, rcR, Ask1)            \/ UiRuns(e, f, Ask1, Send("Ask"), <<>>)
  \/ UiRuns(e, f, VStop3, rcN, VStop2)        \/ UiRuns(e, f, VStop2, off, Stop1)
  \/ UiRuns(e, f, Stop1, Send("Stop"), <<>>)  \/ UiRuns(e, f, VGrant3, rcC, VGrant2)
  \/ UiRuns(e, f, VGrant2, on, VGrant1)       \/ UiRuns(e, f, VGrant1, Send("Grant"), <<>>)
  \/ UiRuns(e, f, VRefuse3, rcN, VRefuse2)    \/ UiRuns(e, f, VRefuse2, off, VRefuse1)
  \/ UiRuns(e, f, VRefuse1, Send("Refuse"), <<>>)

(* A test has no effect of its own: what it is about is in what is left *)
Tests(e, f, p, want, yes, no) ==
  e.recv = p /\ f = [e EXCEPT !.recv = IF e.rc = want THEN yes ELSE no]

HandlerTurns(e, f) ==
  \/ Tests(e, f, OnAsk, "Normal", Asked1, <<>>)
  \/ RecvRuns(e, f, Asked1, rcW, <<>>)
  \/ Tests(e, f, OnStop, "RecvReqControling", Stopped2, Stopped1)
  \/ RecvRuns(e, f, Stopped2, rcN, Stopped1)
  \/ Tests(e, f, Stopped1, "Controling", TurnOff2, <<>>)
  \/ Tests(e, f, OnGrant, "ReqControling", TurnOn2, <<>>)
  \/ RecvRuns(e, f, TurnOn2, rcC, TurnOn1)    \/ RecvRuns(e, f, TurnOn1, on, <<>>)
  \/ Tests(e, f, OnRefuse, "ReqControling", TurnOff2, <<>>)
  \/ RecvRuns(e, f, TurnOff2, rcN, TurnOff1)  \/ RecvRuns(e, f, TurnOff1, off, <<>>)

(* The first operation of a sequence, and what is left after it *)
First(p, i, q) == Head(p) = i /\ Tail(p) = q /\ <<>> \o q = q

LEMMA Asking == First(Ask2, rcR, Ask1) /\ First(Ask1, Send("Ask"), <<>>)
BY DEF First, Ask2, Ask1

LEMMA Stopping ==
  /\ First(Stop3, off, Stop2) /\ First(Stop2, rcN, Stop1) /\ First(Stop1, Send("Stop"), <<>>)
  /\ First(VStop3, rcN, VStop2) /\ First(VStop2, off, Stop1)
BY DEF First, Stop3, Stop2, Stop1, VStop3, VStop2

LEMMA Answering ==
  /\ First(Grant3, on, Grant2) /\ First(Grant2, Send("Grant"), Grant1) /\ First(Grant1, rcC, <<>>)
  /\ First(Refuse3, off, Refuse2) /\ First(Refuse2, Send("Refuse"), Refuse1)
  /\ First(Refuse1, rcN, <<>>)
  /\ First(VGrant3, rcC, VGrant2) /\ First(VGrant2, on, VGrant1)
  /\ First(VGrant1, Send("Grant"), <<>>)
  /\ First(VRefuse3, rcN, VRefuse2) /\ First(VRefuse2, off, VRefuse1)
  /\ First(VRefuse1, Send("Refuse"), <<>>)
BY DEF First, Grant3, Grant2, Grant1, Refuse3, Refuse2, Refuse1,
       VGrant3, VGrant2, VGrant1, VRefuse3, VRefuse2, VRefuse1

LEMMA Handling ==
  /\ First(Asked1, rcW, <<>>)
  /\ First(Stopped2, rcN, Stopped1)
  /\ First(TurnOn2, rcC, TurnOn1) /\ First(TurnOn1, on, <<>>)
  /\ First(TurnOff2, rcN, TurnOff1) /\ First(TurnOff1, off, <<>>)
BY DEF First, Asked1, Stopped2, Stopped1, TurnOn2, TurnOn1, TurnOff2, TurnOff1

LEMMA Plain ==
  /\ \A want : SetRC(want).op # "if"
  /\ \A value : SetGate(value).op # "if"
  /\ \A type : Send(type).op # "if"
BY DEF SetRC, SetGate, Send

(* A call begins with p in front of the page's thread *)
Begins(e, f, p, states) ==
  e.ui = <<>> /\ e.rc \in states /\ \E n \in Nat : f = [e EXCEPT !.ui = p, !.asked = n]

SharerBegins(e, f) ==
  \/ Begins(e, f, Ask2, {"Normal", "RecvReqControling", "Controling"})
  \/ Begins(e, f, Stop3, Pending)
  \/ Begins(e, f, Grant3, {"RecvReqControling"})
  \/ Begins(e, f, Refuse3, {"RecvReqControling"})

ViewerBegins(e, f) ==
  \/ Begins(e, f, Ask2, {"Normal"})
  \/ Begins(e, f, VStop3, Pending)
  \/ Begins(e, f, VGrant3, {"RecvReqControling"})
  \/ Begins(e, f, VRefuse3, {"RecvReqControling"})

(* And a handler with the one of the message *)
Takes(e, f) ==
  e.recv = <<>> /\ \E type \in Types : f = [e EXCEPT !.recv = Handler(type)]

(* One turn of a thread that has an operation in front *)
LEMMA UiTurn ==
  ASSUME NEW x \in Sides, Goes(x, "ui"), TInv,
         NEW p, NEW i, NEW q, end[x].ui = p, First(p, i, q), i.op # "if"
  PROVE  UiRuns(end[x], end'[x], p, i, q)
BY DEF Goes, UiRuns, TInv, First

LEMMA RecvTurn ==
  ASSUME NEW x \in Sides, Goes(x, "recv"), TInv,
         NEW p, NEW i, NEW q, end[x].recv = p, First(p, i, q), i.op # "if"
  PROVE  RecvRuns(end[x], end'[x], p, i, q)
BY DEF Goes, RecvRuns, TInv, First

LEMMA TestTurn ==
  ASSUME NEW x \in Sides, Goes(x, "recv"), TInv,
         NEW p, NEW want, NEW then, NEW yes, NEW no, end[x].recv = p,
         Head(p) = If(want, then), Tail(p) = no, then \o no = yes, <<>> \o no = no
  PROVE  Tests(end[x], end'[x], p, want, yes, no)
<1> DEFINE i == If(want, then)
<1>1. i.op = "if" /\ i.arg = want /\ i.then = then
  BY DEF If
<1>2. Done(end[x], i) = end[x]
  BY <1>1 DEF Done
<1>3. Head(end[x].recv) = i /\ Tail(end[x].recv) = no
  OBVIOUS
<1> HIDE DEF i
<1>4. end'[x] = [end[x] EXCEPT !.recv = (IF end[x].rc = want THEN then ELSE <<>>) \o no]
  BY <1>1, <1>2, <1>3 DEF Goes, TInv
<1> QED
  BY <1>4 DEF Tests

LEMMA SharerUi ==
  ASSUME Goes("S", "ui"), TInv
  PROVE  SharerTurns(end["S"], end'["S"])
<1>1. end["S"].ui \in SharerCalls \ {<<>>}
  BY DEF TInv, Endpoints, Calls, Sides, Goes
<1>2. "S" \in Sides
  BY DEF Sides
<1> QED
  BY <1>1, <1>2, UiTurn, Asking, Stopping, Answering, Plain
  DEF SharerCalls, SharerTurns, rcN, rcR, rcC, on, off

LEMMA ViewerUi ==
  ASSUME Goes("V", "ui"), TInv
  PROVE  ViewerTurns(end["V"], end'["V"])
<1>1. end["V"].ui \in ViewerCalls \ {<<>>}
  BY DEF TInv, Endpoints, Calls, Sides, Goes
<1>2. "V" \in Sides
  BY DEF Sides
<1> QED
  BY <1>1, <1>2, UiTurn, Asking, Stopping, Answering, Plain
  DEF ViewerCalls, ViewerTurns, rcN, rcR, rcC, on, off

LEMMA Joined ==
  /\ \A p \in {Asked1, TurnOn2, TurnOff2} : p \o <<>> = p
  /\ <<rcN>> \o Stopped1 = Stopped2
  /\ <<>> \o Stopped1 = Stopped1
  /\ <<>> \o <<>> = <<>>
<1>1. <<rcN>> \o <<ifC>> = <<rcN, ifC>>
  <2> DEFINE S == {rcN, ifC}
  <2>1. <<rcN>> \in Seq(S) /\ <<ifC>> \in Seq(S) /\ <<rcN, ifC>> \in Seq(S)
    OBVIOUS
  <2>2. /\ <<rcN>> \o <<ifC>> \in Seq(S) /\ Len(<<rcN>> \o <<ifC>>) = 2
        /\ (<<rcN>> \o <<ifC>>)[1] = rcN /\ (<<rcN>> \o <<ifC>>)[2] = ifC
    BY <2>1, ConcatProperties
  <2>3. \A n \in 1 .. 2 : (<<rcN>> \o <<ifC>>)[n] = <<rcN, ifC>>[n]
    BY <2>2
  <2> QED
    BY <2>1, <2>2, <2>3, SeqEqual
<1>2. \A p \in {Asked1, TurnOn2, TurnOff2} : p \o <<>> = p
  BY DEF Asked1, TurnOn2, TurnOff2
<1> QED
  BY <1>1, <1>2 DEF Stopped1, Stopped2

LEMMA Tested ==
  /\ Head(OnAsk) = If("Normal", Asked1) /\ Tail(OnAsk) = <<>>
  /\ Head(OnStop) = If("RecvReqControling", <<rcN>>) /\ Tail(OnStop) = Stopped1
  /\ Head(Stopped1) = If("Controling", TurnOff2) /\ Tail(Stopped1) = <<>>
  /\ Head(OnGrant) = If("ReqControling", TurnOn2) /\ Tail(OnGrant) = <<>>
  /\ Head(OnRefuse) = If("ReqControling", TurnOff2) /\ Tail(OnRefuse) = <<>>
BY DEF OnAsk, OnStop, OnGrant, OnRefuse, Stopped1, Asked1, TurnOn2, TurnOff2, ifC,
       rcN, rcW, rcC, on, off

LEMMA HandlerTurn ==
  ASSUME NEW x \in Sides, Goes(x, "recv"), TInv
  PROVE  HandlerTurns(end[x], end'[x])
<1>1. end[x].recv \in Handlers \ {<<>>}
  BY DEF TInv, Endpoints, Goes
<1>2. ASSUME end[x].recv = OnAsk
      PROVE  Tests(end[x], end'[x], OnAsk, "Normal", Asked1, <<>>)
  BY <1>2, Joined, Tested, TestTurn
<1>3. ASSUME end[x].recv = OnStop
      PROVE  Tests(end[x], end'[x], OnStop, "RecvReqControling", Stopped2, Stopped1)
  BY <1>3, Joined, Tested, TestTurn
<1>4. ASSUME end[x].recv = Stopped1
      PROVE  Tests(end[x], end'[x], Stopped1, "Controling", TurnOff2, <<>>)
  BY <1>4, Joined, Tested, TestTurn
<1>5. ASSUME end[x].recv = OnGrant
      PROVE  Tests(end[x], end'[x], OnGrant, "ReqControling", TurnOn2, <<>>)
  BY <1>5, Joined, Tested, TestTurn
<1>6. ASSUME end[x].recv = OnRefuse
      PROVE  Tests(end[x], end'[x], OnRefuse, "ReqControling", TurnOff2, <<>>)
  BY <1>6, Joined, Tested, TestTurn
<1>7. ASSUME end[x].recv \in {Asked1, Stopped2, TurnOn2, TurnOn1, TurnOff2, TurnOff1}
      PROVE  HandlerTurns(end[x], end'[x])
  BY <1>7, RecvTurn, Handling, Plain DEF HandlerTurns, rcN, rcW, rcC, on, off
<1> QED
  BY <1>1, <1>2, <1>3, <1>4, <1>5, <1>6, <1>7 DEF Handlers, HandlerTurns

-----------------------------------------------------------------------------
(* Types *)

LEMMA OneEnd ==
  ASSUME TInv, NEW x \in Sides, NEW f \in Endpoints(x), end' = [end EXCEPT ![x] = f],
         wire' \in [Sides -> Seq(Types)], raced' \subseteq Sides
  PROVE  TInv'
<1>1. f \in Endpoints("S") \cup Endpoints("V")
  BY DEF Sides
<1>2. \A y \in Sides : end'[y] = IF y = x THEN f ELSE end[y]
  BY DEF TInv
<1>3. end' \in [Sides -> Endpoints("S") \cup Endpoints("V")]
  BY <1>1 DEF TInv
<1> QED
  BY <1>2, <1>3 DEF TInv

(* A thread's turn is about its own side *)
LEMMA OwnSide ==
  ASSUME TInv, NEW x \in Sides, NEW thread \in {"ui", "recv"}, Goes(x, thread)
  PROVE  /\ end' = [end EXCEPT ![x] = end'[x]]
         /\ wire' = wire /\ raced' = raced
BY DEF Goes, TInv

LEMMA InitTInv == Init => TInv
<1> SUFFICES ASSUME Init PROVE TInv
  OBVIOUS
<1>1. \A x \in Sides : Endpoint(x) \in Endpoints(x)
  BY DEF Endpoints, Endpoint, Calls, SharerCalls, ViewerCalls, Handlers, States, Sides
<1>2. Sides = {"S", "V"}
  BY DEF Sides
<1> QED
  BY <1>1, <1>2 DEF Init, TInv

(* What an operation may write *)
Operations ==
  {SetRC(want) : want \in States} \cup {SetGate(value) : value \in BOOLEAN}
    \cup {Send(type) : type \in Types}

LEMMA TheOperations ==
  /\ {rcN, rcR, rcW, rcC, on, off} \subseteq Operations
  /\ \A type \in Types : Send(type) \in Operations
BY DEF Operations, rcN, rcR, rcW, rcC, on, off, States

LEMMA DoneTyped ==
  ASSUME NEW x \in Sides, NEW e \in Endpoints(x), NEW i \in Operations
  PROVE  Done(e, i) \in Endpoints(x)
<1>1. CASE i \in {SetRC(want) : want \in States}
  BY <1>1 DEF SetRC, Done, Endpoints
<1>2. CASE i \in {SetGate(value) : value \in BOOLEAN}
  BY <1>2 DEF SetGate, Done, Endpoints
<1>3. CASE i \in {Send(type) : type \in Types}
  <2>1. PICK type \in Types : i = Send(type)
    BY <1>3
  <2>2. Append(e.queue, type) \in Seq(Types)
    BY AppendProperties DEF Endpoints
  <2>3. Done(e, i) = [e EXCEPT !.queue = Append(e.queue, type)]
    BY <2>1 DEF Send, Done
  <2> QED
    BY <2>2, <2>3 DEF Endpoints
<1> QED
  BY <1>1, <1>2, <1>3 DEF Operations

LEMMA UiTyped ==
  ASSUME NEW x \in Sides, NEW e \in Endpoints(x), NEW f, NEW p, NEW i \in Operations,
         NEW q \in Calls(x), UiRuns(e, f, p, i, q)
  PROVE  f \in Endpoints(x)
BY DoneTyped DEF UiRuns, Endpoints

LEMMA RecvTyped ==
  ASSUME NEW x \in Sides, NEW e \in Endpoints(x), NEW f, NEW p, NEW i \in Operations,
         NEW q \in Handlers, RecvRuns(e, f, p, i, q)
  PROVE  f \in Endpoints(x)
BY DoneTyped DEF RecvRuns, Endpoints

LEMMA SharerTyped ==
  ASSUME NEW e \in Endpoints("S"), NEW f, SharerTurns(e, f)
  PROVE  f \in Endpoints("S")
<1>1. PICK p, i, q : UiRuns(e, f, p, i, q) /\ i \in Operations /\ q \in SharerCalls
  BY TheOperations DEF SharerTurns, SharerCalls, Types
<1> QED
  BY <1>1, UiTyped DEF Calls, Sides

LEMMA ViewerTyped ==
  ASSUME NEW e \in Endpoints("V"), NEW f, ViewerTurns(e, f)
  PROVE  f \in Endpoints("V")
<1>1. PICK p, i, q : UiRuns(e, f, p, i, q) /\ i \in Operations /\ q \in ViewerCalls
  BY TheOperations DEF ViewerTurns, ViewerCalls, Types
<1> QED
  BY <1>1, UiTyped DEF Calls, Sides

LEMMA HandlerTyped ==
  ASSUME NEW x \in Sides, NEW e \in Endpoints(x), NEW f, HandlerTurns(e, f)
  PROVE  f \in Endpoints(x)
<1>1. CASE \E p, want : \E yes \in Handlers, no \in Handlers : Tests(e, f, p, want, yes, no)
  BY <1>1 DEF Tests, Endpoints
<1>2. CASE \E p : \E i \in Operations, q \in Handlers : RecvRuns(e, f, p, i, q)
  BY <1>2, RecvTyped
<1> QED
  BY <1>1, <1>2, TheOperations DEF HandlerTurns, Handlers

LEMMA GoesTInv ==
  ASSUME TInv, NEW x \in Sides, NEW thread \in {"ui", "recv"}, Goes(x, thread)
  PROVE  TInv'
<1>1. ASSUME end'[x] \in Endpoints(x) PROVE TInv'
  BY <1>1, OwnSide, OneEnd DEF TInv
<1>2. CASE thread = "ui" /\ x = "S"
  BY <1>1, <1>2, SharerUi, SharerTyped DEF TInv
<1>3. CASE thread = "ui" /\ x = "V"
  BY <1>1, <1>3, ViewerUi, ViewerTyped DEF TInv
<1>4. CASE thread = "recv"
  BY <1>1, <1>4, HandlerTurn, HandlerTyped DEF TInv
<1> QED
  BY <1>2, <1>3, <1>4 DEF Sides

LEMMA CallBegins ==
  ASSUME TInv, NEW x \in Sides, NEW call, NEW n \in {0, 1}, Call(x, call, n)
  PROVE  /\ Begins(end[x], end'[x], call.do, call.when)
         /\ end' = [end EXCEPT ![x] = end'[x]]
         /\ wire' = wire
         /\ raced' = IF end[x].recv = <<>> THEN raced ELSE raced \cup {x}
<1>1. end[x] \in Endpoints(x) /\ end \in [Sides -> Endpoints("S") \cup Endpoints("V")]
  BY DEF TInv
<1>2. end[x].asked + n \in Nat
  BY <1>1 DEF Endpoints
<1>3. end'[x] = [end[x] EXCEPT !.ui = call.do, !.asked = end[x].asked + n]
  BY <1>1 DEF Call, Endpoints
<1>4. end[x].ui = <<>> /\ end[x].rc \in call.when
  BY DEF Call
<1>5. Begins(end[x], end'[x], call.do, call.when)
  BY <1>2, <1>3, <1>4 DEF Begins
<1> QED
  BY <1>1, <1>5 DEF Call, Races

LEMMA Calling ==
  ASSUME TInv, NEW x \in Sides, PageCalls(x)
  PROVE  /\ IF x = "S" THEN SharerBegins(end[x], end'[x]) ELSE ViewerBegins(end[x], end'[x])
         /\ end' = [end EXCEPT ![x] = end'[x]]
         /\ wire' = wire
         /\ raced' = IF end[x].recv = <<>> THEN raced ELSE raced \cup {x}
<1> DEFINE Did(call) == Begins(end[x], end'[x], call.do, call.when)
<1>1. \/ Did(reqRemoteControl(x)) \/ Did(stopRemoteControl(x))
      \/ Did(acceptRemoteControl(x)) \/ Did(rejectRemoteControl(x))
  BY CallBegins DEF PageCalls
<1>2. /\ end' = [end EXCEPT ![x] = end'[x]] /\ wire' = wire
      /\ raced' = IF end[x].recv = <<>> THEN raced ELSE raced \cup {x}
  <2>1. \E call : \E n \in {0, 1} : Call(x, call, n)
    BY DEF PageCalls
  <2> QED
    BY <2>1, CallBegins
<1>3. ASSUME x = "S" PROVE SharerBegins(end[x], end'[x])
  <2>1. /\ reqRemoteControl(x).do = Ask2 /\ stopRemoteControl(x).do = Stop3
        /\ acceptRemoteControl(x).do = Grant3 /\ rejectRemoteControl(x).do = Refuse3
    BY <1>3 DEF reqRemoteControl, stopRemoteControl, acceptRemoteControl, rejectRemoteControl,
           Ask2, Stop3, Grant3, Refuse3, rcN, rcR, rcC, on, off
  <2>2. /\ reqRemoteControl(x).when = {"Normal", "RecvReqControling", "Controling"}
        /\ stopRemoteControl(x).when = Pending
        /\ acceptRemoteControl(x).when = {"RecvReqControling"}
        /\ rejectRemoteControl(x).when = {"RecvReqControling"}
    BY <1>3 DEF reqRemoteControl, stopRemoteControl, acceptRemoteControl, rejectRemoteControl
  <2>3. Did(reqRemoteControl(x)) =>
        Begins(end[x], end'[x], Ask2, {"Normal", "RecvReqControling", "Controling"})
    BY <2>1, <2>2 DEF Begins
  <2>4. Did(stopRemoteControl(x)) => Begins(end[x], end'[x], Stop3, Pending)
    BY <2>1, <2>2 DEF Begins
  <2>5. Did(acceptRemoteControl(x)) => Begins(end[x], end'[x], Grant3, {"RecvReqControling"})
    BY <2>1, <2>2 DEF Begins
  <2>6. Did(rejectRemoteControl(x)) => Begins(end[x], end'[x], Refuse3, {"RecvReqControling"})
    BY <2>1, <2>2 DEF Begins
  <2> QED
    BY <1>1, <1>3, <2>3, <2>4, <2>5, <2>6 DEF SharerBegins
<1>4. ASSUME x = "V" PROVE ViewerBegins(end[x], end'[x])
  <2>1. /\ reqRemoteControl(x).do = Ask2 /\ stopRemoteControl(x).do = VStop3
        /\ acceptRemoteControl(x).do = VGrant3 /\ rejectRemoteControl(x).do = VRefuse3
    BY <1>4 DEF reqRemoteControl, stopRemoteControl, acceptRemoteControl, rejectRemoteControl,
           Ask2, VStop3, VGrant3, VRefuse3, rcN, rcR, rcC, on, off
  <2>2. /\ reqRemoteControl(x).when = {"Normal"}
        /\ stopRemoteControl(x).when = Pending
        /\ acceptRemoteControl(x).when = {"RecvReqControling"}
        /\ rejectRemoteControl(x).when = {"RecvReqControling"}
    BY <1>4 DEF reqRemoteControl, stopRemoteControl, acceptRemoteControl, rejectRemoteControl
  <2>3. Did(reqRemoteControl(x)) => Begins(end[x], end'[x], Ask2, {"Normal"})
    BY <2>1, <2>2 DEF Begins
  <2>4. Did(stopRemoteControl(x)) => Begins(end[x], end'[x], VStop3, Pending)
    BY <2>1, <2>2 DEF Begins
  <2>5. Did(acceptRemoteControl(x)) => Begins(end[x], end'[x], VGrant3, {"RecvReqControling"})
    BY <2>1, <2>2 DEF Begins
  <2>6. Did(rejectRemoteControl(x)) => Begins(end[x], end'[x], VRefuse3, {"RecvReqControling"})
    BY <2>1, <2>2 DEF Begins
  <2> QED
    BY <1>1, <1>4, <2>3, <2>4, <2>5, <2>6 DEF ViewerBegins
<1> QED
  BY <1>2, <1>3, <1>4 DEF Sides

LEMMA Receiving ==
  ASSUME TInv, NEW x \in Sides, Receives(x)
  PROVE  /\ Takes(end[x], end'[x])
         /\ end' = [end EXCEPT ![x] = end'[x]]
         /\ wire' \in [Sides -> Seq(Types)]
         /\ raced' = IF end[x].ui = <<>> THEN raced ELSE raced \cup {x}
<1>1. Peer(x) \in Sides
  BY DEF Peer, Sides
<1>2. wire[Peer(x)] \in Seq(Types) /\ wire[Peer(x)] # <<>>
  BY <1>1 DEF Receives, TInv
<1>3. Head(wire[Peer(x)]) \in Types /\ Tail(wire[Peer(x)]) \in Seq(Types)
  BY <1>2, HeadTailProperties
<1>4. end'[x] = [end[x] EXCEPT !.recv = Handler(Head(wire[Peer(x)]))]
  BY DEF Receives, TInv
<1>5. Takes(end[x], end'[x])
  BY <1>3, <1>4 DEF Receives, Takes
<1>6. wire' \in [Sides -> Seq(Types)]
  BY <1>1, <1>3 DEF Receives, TInv
<1> QED
  BY <1>5, <1>6 DEF Receives, Races, TInv

LEMMA Sending ==
  ASSUME TInv, NEW x \in Sides, Sends(x)
  PROVE  /\ Tail(end[x].queue) \in Seq(Types)
         /\ end' = [end EXCEPT ![x] = [end[x] EXCEPT !.queue = Tail(end[x].queue)]]
         /\ wire' \in [Sides -> Seq(Types)]
         /\ raced' = raced
<1>1. end[x].queue \in Seq(Types) /\ end[x].queue # <<>>
  BY DEF Sends, TInv, Endpoints
<1>2. Head(end[x].queue) \in Types /\ Tail(end[x].queue) \in Seq(Types)
  BY <1>1, HeadTailProperties
<1>3. wire' \in [Sides -> Seq(Types)]
  <2>1. Append(wire[x], Head(end[x].queue)) \in Seq(Types)
    BY <1>2, AppendProperties DEF TInv
  <2> QED
    BY <2>1 DEF Sends, TInv
<1> QED
  BY <1>2, <1>3 DEF Sends, TInv

LEMMA BeginsTyped ==
  ASSUME NEW x \in Sides, NEW e \in Endpoints(x), NEW f, NEW states, NEW p \in Calls(x),
         Begins(e, f, p, states)
  PROVE  f \in Endpoints(x)
BY DEF Begins, Endpoints

LEMMA HandlersOnly == \A type : Handler(type) \in Handlers
BY DEF Handler, Handlers

LEMMA NextTInv == TInv /\ [Next]_vars => TInv'
<1> SUFFICES ASSUME TInv, [Next]_vars PROVE TInv'
  OBVIOUS
<1>1. CASE UNCHANGED vars
  BY <1>1 DEF TInv, vars
<1>2. ASSUME NEW x \in Sides, PageCalls(x) PROVE TInv'
  <2>1. CASE x = "S"
    <3>1. SharerBegins(end[x], end'[x]) /\ Calls(x) = SharerCalls
      BY <1>2, <2>1, Calling DEF Calls
    <3>2. end'[x] \in Endpoints(x)
      BY <3>1, BeginsTyped DEF TInv, SharerBegins, SharerCalls
    <3> QED
      BY <1>2, <3>2, Calling, OneEnd DEF TInv
  <2>2. CASE x = "V"
    <3>1. ViewerBegins(end[x], end'[x]) /\ Calls(x) = ViewerCalls
      BY <1>2, <2>2, Calling DEF Calls
    <3>2. end'[x] \in Endpoints(x)
      BY <3>1, BeginsTyped DEF TInv, ViewerBegins, ViewerCalls
    <3> QED
      BY <1>2, <3>2, Calling, OneEnd DEF TInv
  <2> QED
    BY <2>1, <2>2 DEF Sides
<1>3. ASSUME NEW x \in Sides, Receives(x) PROVE TInv'
  <2>1. PICK type \in Types : end'[x] = [end[x] EXCEPT !.recv = Handler(type)]
    BY <1>3, Receiving DEF Takes
  <2>2. Handler(type) \in Handlers /\ end[x] \in Endpoints(x)
    BY HandlersOnly DEF TInv
  <2>3. end'[x] \in Endpoints(x)
    BY <2>1, <2>2 DEF Endpoints
  <2>4. /\ raced' \subseteq Sides /\ wire' \in [Sides -> Seq(Types)]
        /\ end' = [end EXCEPT ![x] = end'[x]]
    BY <1>3, Receiving DEF TInv
  <2> QED
    BY <2>3, <2>4, OneEnd
<1>4. ASSUME NEW x \in Sides, Sends(x) PROVE TInv'
  <2>1. [end[x] EXCEPT !.queue = Tail(end[x].queue)] \in Endpoints(x)
    BY <1>4, Sending DEF TInv, Endpoints
  <2> QED
    BY <1>4, <2>1, Sending, OneEnd DEF TInv
<1> QED
  BY <1>1, <1>2, <1>3, <1>4, GoesTInv DEF Next, Threads

-----------------------------------------------------------------------------
(* The sharer's state and its switch *)

AnswerCalls == {Grant3, Grant2, Grant1, Refuse3, Refuse2, Refuse1}
Decisions   == {TurnOn2, TurnOn1, TurnOff2, TurnOff1}

(* The page answers a request it has seen, which the answer of the other    *)
(* side cannot be about: the two never overlap.                             *)
OneAnswers(e) ==
  /\ e.recv \in Decisions => e.rc # "RecvReqControling" /\ e.ui \notin AnswerCalls
  /\ e.ui \in AnswerCalls => e.rc \in {"RecvReqControling", "Normal"}

(* Who has turned on, and who is about to                                   *)
OnWhenControled(e) ==
  /\ e.rc = "Controling" /\ ~e.gate => e.recv = TurnOn1 \/ e.ui = Stop2
  /\ e.recv = TurnOff1 => e.rc # "Controling"
  /\ e.ui \in {Grant2, Grant1} => e.gate

InputInv(e) == OneAnswers(e) /\ OnWhenControled(e)

(* What a turn does to the fields *)
UiTo(e, f, p, rc, gate, queue, q) ==
  /\ e.ui = p /\ f.ui = q /\ f.recv = e.recv
  /\ f.rc = rc /\ f.gate = gate /\ f.queue = queue

RecvTo(e, f, p, rc, gate, q) ==
  /\ e.recv = p /\ f.recv = q /\ f.ui = e.ui
  /\ f.rc = rc /\ f.gate = gate /\ f.queue = e.queue

SharerMoves(e, f) ==
  \/ UiTo(e, f, Ask2, "ReqControling", e.gate, e.queue, Ask1)
  \/ UiTo(e, f, Ask1, e.rc, e.gate, Append(e.queue, "Ask"), <<>>)
  \/ UiTo(e, f, Stop3, e.rc, FALSE, e.queue, Stop2)
  \/ UiTo(e, f, Stop2, "Normal", e.gate, e.queue, Stop1)
  \/ UiTo(e, f, Stop1, e.rc, e.gate, Append(e.queue, "Stop"), <<>>)
  \/ UiTo(e, f, Grant3, e.rc, TRUE, e.queue, Grant2)
  \/ UiTo(e, f, Grant2, e.rc, e.gate, Append(e.queue, "Grant"), Grant1)
  \/ UiTo(e, f, Grant1, "Controling", e.gate, e.queue, <<>>)
  \/ UiTo(e, f, Refuse3, e.rc, FALSE, e.queue, Refuse2)
  \/ UiTo(e, f, Refuse2, e.rc, e.gate, Append(e.queue, "Refuse"), Refuse1)
  \/ UiTo(e, f, Refuse1, "Normal", e.gate, e.queue, <<>>)

ViewerMoves(e, f) ==
  \/ UiTo(e, f, Ask2, "ReqControling", e.gate, e.queue, Ask1)
  \/ UiTo(e, f, Ask1, e.rc, e.gate, Append(e.queue, "Ask"), <<>>)
  \/ UiTo(e, f, VStop3, "Normal", e.gate, e.queue, VStop2)
  \/ UiTo(e, f, VStop2, e.rc, FALSE, e.queue, Stop1)
  \/ UiTo(e, f, Stop1, e.rc, e.gate, Append(e.queue, "Stop"), <<>>)
  \/ UiTo(e, f, VGrant3, "Controling", e.gate, e.queue, VGrant2)
  \/ UiTo(e, f, VGrant2, e.rc, TRUE, e.queue, VGrant1)
  \/ UiTo(e, f, VGrant1, e.rc, e.gate, Append(e.queue, "Grant"), <<>>)
  \/ UiTo(e, f, VRefuse3, "Normal", e.gate, e.queue, VRefuse2)
  \/ UiTo(e, f, VRefuse2, e.rc, FALSE, e.queue, VRefuse1)
  \/ UiTo(e, f, VRefuse1, e.rc, e.gate, Append(e.queue, "Refuse"), <<>>)

HandlerMoves(e, f) ==
  \/ RecvTo(e, f, OnAsk, e.rc, e.gate, IF e.rc = "Normal" THEN Asked1 ELSE <<>>)
  \/ RecvTo(e, f, Asked1, "RecvReqControling", e.gate, <<>>)
  \/ RecvTo(e, f, OnStop, e.rc, e.gate, IF e.rc = "RecvReqControling" THEN Stopped2 ELSE Stopped1)
  \/ RecvTo(e, f, Stopped2, "Normal", e.gate, Stopped1)
  \/ RecvTo(e, f, Stopped1, e.rc, e.gate, IF e.rc = "Controling" THEN TurnOff2 ELSE <<>>)
  \/ RecvTo(e, f, OnGrant, e.rc, e.gate, IF e.rc = "ReqControling" THEN TurnOn2 ELSE <<>>)
  \/ RecvTo(e, f, TurnOn2, "Controling", e.gate, TurnOn1)
  \/ RecvTo(e, f, TurnOn1, e.rc, TRUE, <<>>)
  \/ RecvTo(e, f, OnRefuse, e.rc, e.gate, IF e.rc = "ReqControling" THEN TurnOff2 ELSE <<>>)
  \/ RecvTo(e, f, TurnOff2, "Normal", e.gate, TurnOff1)
  \/ RecvTo(e, f, TurnOff1, e.rc, FALSE, <<>>)

LEMMA SharerEffect ==
  ASSUME NEW x \in Sides, NEW e \in Endpoints(x), NEW f, SharerTurns(e, f)
  PROVE  SharerMoves(e, f)
<1>1. UiRuns(e, f, Ask2, rcR, Ask1) => UiTo(e, f, Ask2, "ReqControling", e.gate, e.queue, Ask1)
  BY DEF UiRuns, rcR, SetRC, Done, Endpoints, UiTo
<1>2. UiRuns(e, f, Ask1, Send("Ask"), <<>>)
      => UiTo(e, f, Ask1, e.rc, e.gate, Append(e.queue, "Ask"), <<>>)
  BY DEF UiRuns, Send, Done, Endpoints, UiTo
<1>3. UiRuns(e, f, Stop3, off, Stop2) => UiTo(e, f, Stop3, e.rc, FALSE, e.queue, Stop2)
  BY DEF UiRuns, off, SetGate, Done, Endpoints, UiTo
<1>4. UiRuns(e, f, Stop2, rcN, Stop1) => UiTo(e, f, Stop2, "Normal", e.gate, e.queue, Stop1)
  BY DEF UiRuns, rcN, SetRC, Done, Endpoints, UiTo
<1>5. UiRuns(e, f, Stop1, Send("Stop"), <<>>)
      => UiTo(e, f, Stop1, e.rc, e.gate, Append(e.queue, "Stop"), <<>>)
  BY DEF UiRuns, Send, Done, Endpoints, UiTo
<1>6. UiRuns(e, f, Grant3, on, Grant2) => UiTo(e, f, Grant3, e.rc, TRUE, e.queue, Grant2)
  BY DEF UiRuns, on, SetGate, Done, Endpoints, UiTo
<1>7. UiRuns(e, f, Grant2, Send("Grant"), Grant1)
      => UiTo(e, f, Grant2, e.rc, e.gate, Append(e.queue, "Grant"), Grant1)
  BY DEF UiRuns, Send, Done, Endpoints, UiTo
<1>8. UiRuns(e, f, Grant1, rcC, <<>>) => UiTo(e, f, Grant1, "Controling", e.gate, e.queue, <<>>)
  BY DEF UiRuns, rcC, SetRC, Done, Endpoints, UiTo
<1>9. UiRuns(e, f, Refuse3, off, Refuse2) => UiTo(e, f, Refuse3, e.rc, FALSE, e.queue, Refuse2)
  BY DEF UiRuns, off, SetGate, Done, Endpoints, UiTo
<1>10. UiRuns(e, f, Refuse2, Send("Refuse"), Refuse1)
       => UiTo(e, f, Refuse2, e.rc, e.gate, Append(e.queue, "Refuse"), Refuse1)
  BY DEF UiRuns, Send, Done, Endpoints, UiTo
<1>11. UiRuns(e, f, Refuse1, rcN, <<>>) => UiTo(e, f, Refuse1, "Normal", e.gate, e.queue, <<>>)
  BY DEF UiRuns, rcN, SetRC, Done, Endpoints, UiTo
<1> QED
  BY <1>1, <1>2, <1>3, <1>4, <1>5, <1>6, <1>7, <1>8, <1>9, <1>10, <1>11 DEF SharerTurns, SharerMoves

LEMMA ViewerEffect ==
  ASSUME NEW x \in Sides, NEW e \in Endpoints(x), NEW f, ViewerTurns(e, f)
  PROVE  ViewerMoves(e, f)
<1>1. UiRuns(e, f, Ask2, rcR, Ask1) => UiTo(e, f, Ask2, "ReqControling", e.gate, e.queue, Ask1)
  BY DEF UiRuns, rcR, SetRC, Done, Endpoints, UiTo
<1>2. UiRuns(e, f, Ask1, Send("Ask"), <<>>)
      => UiTo(e, f, Ask1, e.rc, e.gate, Append(e.queue, "Ask"), <<>>)
  BY DEF UiRuns, Send, Done, Endpoints, UiTo
<1>3. UiRuns(e, f, VStop3, rcN, VStop2) => UiTo(e, f, VStop3, "Normal", e.gate, e.queue, VStop2)
  BY DEF UiRuns, rcN, SetRC, Done, Endpoints, UiTo
<1>4. UiRuns(e, f, VStop2, off, Stop1) => UiTo(e, f, VStop2, e.rc, FALSE, e.queue, Stop1)
  BY DEF UiRuns, off, SetGate, Done, Endpoints, UiTo
<1>5. UiRuns(e, f, Stop1, Send("Stop"), <<>>)
      => UiTo(e, f, Stop1, e.rc, e.gate, Append(e.queue, "Stop"), <<>>)
  BY DEF UiRuns, Send, Done, Endpoints, UiTo
<1>6. UiRuns(e, f, VGrant3, rcC, VGrant2)
      => UiTo(e, f, VGrant3, "Controling", e.gate, e.queue, VGrant2)
  BY DEF UiRuns, rcC, SetRC, Done, Endpoints, UiTo
<1>7. UiRuns(e, f, VGrant2, on, VGrant1) => UiTo(e, f, VGrant2, e.rc, TRUE, e.queue, VGrant1)
  BY DEF UiRuns, on, SetGate, Done, Endpoints, UiTo
<1>8. UiRuns(e, f, VGrant1, Send("Grant"), <<>>)
      => UiTo(e, f, VGrant1, e.rc, e.gate, Append(e.queue, "Grant"), <<>>)
  BY DEF UiRuns, Send, Done, Endpoints, UiTo
<1>9. UiRuns(e, f, VRefuse3, rcN, VRefuse2)
      => UiTo(e, f, VRefuse3, "Normal", e.gate, e.queue, VRefuse2)
  BY DEF UiRuns, rcN, SetRC, Done, Endpoints, UiTo
<1>10. UiRuns(e, f, VRefuse2, off, VRefuse1) => UiTo(e, f, VRefuse2, e.rc, FALSE, e.queue, VRefuse1)
  BY DEF UiRuns, off, SetGate, Done, Endpoints, UiTo
<1>11. UiRuns(e, f, VRefuse1, Send("Refuse"), <<>>)
       => UiTo(e, f, VRefuse1, e.rc, e.gate, Append(e.queue, "Refuse"), <<>>)
  BY DEF UiRuns, Send, Done, Endpoints, UiTo
<1> QED
  BY <1>1, <1>2, <1>3, <1>4, <1>5, <1>6, <1>7, <1>8, <1>9, <1>10, <1>11 DEF ViewerTurns, ViewerMoves

LEMMA HandlerEffect ==
  ASSUME NEW x \in Sides, NEW e \in Endpoints(x), NEW f, HandlerTurns(e, f)
  PROVE  HandlerMoves(e, f)
<1>1. Tests(e, f, OnAsk, "Normal", Asked1, <<>>)
      => RecvTo(e, f, OnAsk, e.rc, e.gate, IF e.rc = "Normal" THEN Asked1 ELSE <<>>)
  BY DEF Tests, RecvTo, Endpoints
<1>2. RecvRuns(e, f, Asked1, rcW, <<>>) => RecvTo(e, f, Asked1, "RecvReqControling", e.gate, <<>>)
  BY DEF RecvRuns, rcW, SetRC, Done, Endpoints, RecvTo
<1>3. Tests(e, f, OnStop, "RecvReqControling", Stopped2, Stopped1)
      => RecvTo(e, f, OnStop, e.rc, e.gate, IF e.rc = "RecvReqControling" THEN Stopped2 ELSE Stopped1)
  BY DEF Tests, RecvTo, Endpoints
<1>4. RecvRuns(e, f, Stopped2, rcN, Stopped1) => RecvTo(e, f, Stopped2, "Normal", e.gate, Stopped1)
  BY DEF RecvRuns, rcN, SetRC, Done, Endpoints, RecvTo
<1>5. Tests(e, f, Stopped1, "Controling", TurnOff2, <<>>)
      => RecvTo(e, f, Stopped1, e.rc, e.gate, IF e.rc = "Controling" THEN TurnOff2 ELSE <<>>)
  BY DEF Tests, RecvTo, Endpoints
<1>6. Tests(e, f, OnGrant, "ReqControling", TurnOn2, <<>>)
      => RecvTo(e, f, OnGrant, e.rc, e.gate, IF e.rc = "ReqControling" THEN TurnOn2 ELSE <<>>)
  BY DEF Tests, RecvTo, Endpoints
<1>7. RecvRuns(e, f, TurnOn2, rcC, TurnOn1) => RecvTo(e, f, TurnOn2, "Controling", e.gate, TurnOn1)
  BY DEF RecvRuns, rcC, SetRC, Done, Endpoints, RecvTo
<1>8. RecvRuns(e, f, TurnOn1, on, <<>>) => RecvTo(e, f, TurnOn1, e.rc, TRUE, <<>>)
  BY DEF RecvRuns, on, SetGate, Done, Endpoints, RecvTo
<1>9. Tests(e, f, OnRefuse, "ReqControling", TurnOff2, <<>>)
      => RecvTo(e, f, OnRefuse, e.rc, e.gate, IF e.rc = "ReqControling" THEN TurnOff2 ELSE <<>>)
  BY DEF Tests, RecvTo, Endpoints
<1>10. RecvRuns(e, f, TurnOff2, rcN, TurnOff1) => RecvTo(e, f, TurnOff2, "Normal", e.gate, TurnOff1)
  BY DEF RecvRuns, rcN, SetRC, Done, Endpoints, RecvTo
<1>11. RecvRuns(e, f, TurnOff1, off, <<>>) => RecvTo(e, f, TurnOff1, e.rc, FALSE, <<>>)
  BY DEF RecvRuns, off, SetGate, Done, Endpoints, RecvTo
<1> QED
  BY <1>1, <1>2, <1>3, <1>4, <1>5, <1>6, <1>7, <1>8, <1>9, <1>10, <1>11
  DEF HandlerTurns, HandlerMoves

LEMMA BeginEffect ==
  ASSUME NEW x \in Sides, NEW e \in Endpoints(x), NEW f, NEW p, NEW states,
         Begins(e, f, p, states)
  PROVE  e.rc \in states /\ UiTo(e, f, <<>>, e.rc, e.gate, e.queue, p)
BY DEF Begins, UiTo, Endpoints

LEMMA TakeEffect ==
  ASSUME NEW x \in Sides, NEW e \in Endpoints(x), NEW f, Takes(e, f)
  PROVE  \E p \in {OnAsk, OnStop, OnGrant, OnRefuse} : RecvTo(e, f, <<>>, e.rc, e.gate, p)
BY DEF Takes, RecvTo, Handler, Endpoints

(* Different parts of a call or of a handler look different *)
LEMMA SharerParts ==
  /\ Ask2 \notin {<<>>, Ask1, Stop3, Stop2, Stop1, Grant3, Grant2, Grant1, Refuse3, Refuse2, Refuse1}
  /\ Ask1 \notin {<<>>, Stop3, Stop2, Stop1, Grant3, Grant2, Grant1, Refuse3, Refuse2, Refuse1}
  /\ Stop3 \notin {<<>>, Stop2, Stop1, Grant3, Grant2, Grant1, Refuse3, Refuse2, Refuse1}
  /\ Stop2 \notin {<<>>, Stop1, Grant3, Grant2, Grant1, Refuse3, Refuse2, Refuse1}
  /\ Stop1 \notin {<<>>, Grant3, Grant2, Grant1, Refuse3, Refuse2, Refuse1}
  /\ Grant3 \notin {<<>>, Grant2, Grant1, Refuse3, Refuse2, Refuse1}
  /\ Grant2 \notin {<<>>, Grant1, Refuse3, Refuse2, Refuse1}
  /\ Grant1 \notin {<<>>, Refuse3, Refuse2, Refuse1}
  /\ Refuse3 \notin {<<>>, Refuse2, Refuse1}
  /\ Refuse2 \notin {<<>>, Refuse1}
  /\ Refuse1 \notin {<<>>}
BY DEF Ask2, Ask1, Stop3, Stop2, Stop1, Grant3, Grant2, Grant1, Refuse3, Refuse2, Refuse1,
       rcN, rcR, rcC, on, off, SetRC, SetGate, Send

LEMMA ViewerParts ==
  /\ Ask2 \notin {<<>>, Ask1, VStop3, VStop2, Stop1, VGrant3, VGrant2, VGrant1,
                  VRefuse3, VRefuse2, VRefuse1}
  /\ Ask1 \notin {<<>>, VStop3, VStop2, Stop1, VGrant3, VGrant2, VGrant1, VRefuse3, VRefuse2, VRefuse1}
  /\ VStop3 \notin {<<>>, VStop2, Stop1, VGrant3, VGrant2, VGrant1, VRefuse3, VRefuse2, VRefuse1}
  /\ VStop2 \notin {<<>>, Stop1, VGrant3, VGrant2, VGrant1, VRefuse3, VRefuse2, VRefuse1}
  /\ Stop1 \notin {<<>>, VGrant3, VGrant2, VGrant1, VRefuse3, VRefuse2, VRefuse1}
  /\ VGrant3 \notin {<<>>, VGrant2, VGrant1, VRefuse3, VRefuse2, VRefuse1}
  /\ VGrant2 \notin {<<>>, VGrant1, VRefuse3, VRefuse2, VRefuse1}
  /\ VGrant1 \notin {<<>>, VRefuse3, VRefuse2, VRefuse1}
  /\ VRefuse3 \notin {<<>>, VRefuse2, VRefuse1}
  /\ VRefuse2 \notin {<<>>, VRefuse1}
  /\ VRefuse1 \notin {<<>>}
BY DEF Ask2, Ask1, VStop3, VStop2, Stop1, VGrant3, VGrant2, VGrant1, VRefuse3, VRefuse2, VRefuse1,
       rcN, rcR, rcC, on, off, SetRC, SetGate, Send

LEMMA HandlerParts ==
  /\ OnAsk \notin {<<>>, Asked1, OnStop, Stopped2, Stopped1, OnGrant, TurnOn2, TurnOn1,
                   OnRefuse, TurnOff2, TurnOff1}
  /\ Asked1 \notin {<<>>, OnStop, Stopped2, Stopped1, OnGrant, TurnOn2, TurnOn1,
                    OnRefuse, TurnOff2, TurnOff1}
  /\ OnStop \notin {<<>>, Stopped2, Stopped1, OnGrant, TurnOn2, TurnOn1, OnRefuse, TurnOff2, TurnOff1}
  /\ Stopped2 \notin {<<>>, Stopped1, OnGrant, TurnOn2, TurnOn1, OnRefuse, TurnOff2, TurnOff1}
  /\ Stopped1 \notin {<<>>, OnGrant, TurnOn2, TurnOn1, OnRefuse, TurnOff2, TurnOff1}
  /\ OnGrant \notin {<<>>, TurnOn2, TurnOn1, OnRefuse, TurnOff2, TurnOff1}
  /\ TurnOn2 \notin {<<>>, TurnOn1, OnRefuse, TurnOff2, TurnOff1}
  /\ TurnOn1 \notin {<<>>, OnRefuse, TurnOff2, TurnOff1}
  /\ OnRefuse \notin {<<>>, TurnOff2, TurnOff1}
  /\ TurnOff2 \notin {<<>>, TurnOff1}
  /\ TurnOff1 \notin {<<>>}
BY DEF OnAsk, Asked1, OnStop, Stopped2, Stopped1, OnGrant, TurnOn2, TurnOn1,
       OnRefuse, TurnOff2, TurnOff1,
       rcN, rcW, rcC, on, off, ifC, SetRC, SetGate, If

LEMMA InputTurns ==
  ASSUME NEW e \in Endpoints("S"), NEW f, InputInv(e), SharerMoves(e, f)
  PROVE  InputInv(f)
<1> USE DEF InputInv, OneAnswers, OnWhenControled, AnswerCalls, Decisions, Endpoints
<1>1. CASE UiTo(e, f, Ask2, "ReqControling", e.gate, e.queue, Ask1)
  BY <1>1, SharerParts DEF UiTo, RecvTo
<1>2. CASE UiTo(e, f, Ask1, e.rc, e.gate, Append(e.queue, "Ask"), <<>>)
  BY <1>2, SharerParts DEF UiTo, RecvTo
<1>3. CASE UiTo(e, f, Stop3, e.rc, FALSE, e.queue, Stop2)
  BY <1>3, SharerParts DEF UiTo, RecvTo
<1>4. CASE UiTo(e, f, Stop2, "Normal", e.gate, e.queue, Stop1)
  BY <1>4, SharerParts DEF UiTo, RecvTo
<1>5. CASE UiTo(e, f, Stop1, e.rc, e.gate, Append(e.queue, "Stop"), <<>>)
  BY <1>5, SharerParts DEF UiTo, RecvTo
<1>6. CASE UiTo(e, f, Grant3, e.rc, TRUE, e.queue, Grant2)
  BY <1>6, SharerParts DEF UiTo, RecvTo
<1>7. CASE UiTo(e, f, Grant2, e.rc, e.gate, Append(e.queue, "Grant"), Grant1)
  BY <1>7, SharerParts DEF UiTo, RecvTo
<1>8. CASE UiTo(e, f, Grant1, "Controling", e.gate, e.queue, <<>>)
  BY <1>8, SharerParts DEF UiTo, RecvTo
<1>9. CASE UiTo(e, f, Refuse3, e.rc, FALSE, e.queue, Refuse2)
  BY <1>9, SharerParts DEF UiTo, RecvTo
<1>10. CASE UiTo(e, f, Refuse2, e.rc, e.gate, Append(e.queue, "Refuse"), Refuse1)
  BY <1>10, SharerParts DEF UiTo, RecvTo
<1>11. CASE UiTo(e, f, Refuse1, "Normal", e.gate, e.queue, <<>>)
  BY <1>11, SharerParts DEF UiTo, RecvTo
<1> QED
  BY <1>1, <1>2, <1>3, <1>4, <1>5, <1>6, <1>7, <1>8, <1>9, <1>10, <1>11 DEF SharerMoves

LEMMA InputHandles ==
  ASSUME NEW e \in Endpoints("S"), NEW f, InputInv(e), HandlerMoves(e, f)
  PROVE  InputInv(f)
<1> USE DEF InputInv, OneAnswers, OnWhenControled, AnswerCalls, Decisions, Endpoints
<1>1. CASE RecvTo(e, f, OnAsk, e.rc, e.gate, IF e.rc = "Normal" THEN Asked1 ELSE <<>>)
  BY <1>1, HandlerParts DEF UiTo, RecvTo
<1>2. CASE RecvTo(e, f, Asked1, "RecvReqControling", e.gate, <<>>)
  BY <1>2, HandlerParts DEF UiTo, RecvTo
<1>3. CASE RecvTo(e, f, OnStop, e.rc, e.gate, IF e.rc = "RecvReqControling" THEN Stopped2 ELSE Stopped1)
  BY <1>3, HandlerParts DEF UiTo, RecvTo
<1>4. CASE RecvTo(e, f, Stopped2, "Normal", e.gate, Stopped1)
  BY <1>4, HandlerParts DEF UiTo, RecvTo
<1>5. CASE RecvTo(e, f, Stopped1, e.rc, e.gate, IF e.rc = "Controling" THEN TurnOff2 ELSE <<>>)
  BY <1>5, HandlerParts DEF UiTo, RecvTo
<1>6. CASE RecvTo(e, f, OnGrant, e.rc, e.gate, IF e.rc = "ReqControling" THEN TurnOn2 ELSE <<>>)
  BY <1>6, HandlerParts DEF UiTo, RecvTo
<1>7. CASE RecvTo(e, f, TurnOn2, "Controling", e.gate, TurnOn1)
  BY <1>7, HandlerParts DEF UiTo, RecvTo
<1>8. CASE RecvTo(e, f, TurnOn1, e.rc, TRUE, <<>>)
  BY <1>8, HandlerParts DEF UiTo, RecvTo
<1>9. CASE RecvTo(e, f, OnRefuse, e.rc, e.gate, IF e.rc = "ReqControling" THEN TurnOff2 ELSE <<>>)
  BY <1>9, HandlerParts DEF UiTo, RecvTo
<1>10. CASE RecvTo(e, f, TurnOff2, "Normal", e.gate, TurnOff1)
  BY <1>10, HandlerParts DEF UiTo, RecvTo
<1>11. CASE RecvTo(e, f, TurnOff1, e.rc, FALSE, <<>>)
  BY <1>11, HandlerParts DEF UiTo, RecvTo
<1> QED
  BY <1>1, <1>2, <1>3, <1>4, <1>5, <1>6, <1>7, <1>8, <1>9, <1>10, <1>11 DEF HandlerMoves

LEMMA InputBegins ==
  ASSUME NEW e \in Endpoints("S"), NEW f, InputInv(e), SharerBegins(e, f)
  PROVE  InputInv(f)
<1>1. "S" \in Sides
  BY DEF Sides
<1>2. \E p \in {Ask2, Stop3, Grant3, Refuse3} :
        /\ UiTo(e, f, <<>>, e.rc, e.gate, e.queue, p)
        /\ p \in {Grant3, Refuse3} => e.rc = "RecvReqControling"
  BY <1>1, BeginEffect, SharerParts DEF SharerBegins
<1> QED
  BY <1>2, SharerParts
  DEF UiTo, InputInv, OneAnswers, OnWhenControled, AnswerCalls, Decisions, Endpoints

LEMMA InputTakes ==
  ASSUME NEW e \in Endpoints("S"), NEW f, InputInv(e), Takes(e, f)
  PROVE  InputInv(f)
<1>1. "S" \in Sides
  BY DEF Sides
<1>2. PICK p \in {OnAsk, OnStop, OnGrant, OnRefuse} : RecvTo(e, f, <<>>, e.rc, e.gate, p)
  BY <1>1, TakeEffect
<1> QED
  BY <1>2, HandlerParts
  DEF RecvTo, InputInv, OneAnswers, OnWhenControled, AnswerCalls, Decisions, Endpoints

(* What a step of the system does to one side *)
EndSteps(x, e, f) ==
  \/ f = e
  \/ e.queue # <<>> /\ f = [e EXCEPT !.queue = Tail(e.queue)]
  \/ /\ IF x = "S" THEN SharerBegins(e, f) ELSE ViewerBegins(e, f)
     /\ x \notin raced' => e.recv = <<>>
  \/ Takes(e, f) /\ (x \notin raced' => e.ui = <<>>)
  \/ IF x = "S" THEN SharerMoves(e, f) ELSE ViewerMoves(e, f)
  \/ HandlerMoves(e, f)

LEMMA OnlyOwn ==
  ASSUME TInv, NEW x \in Sides, NEW y \in Sides, PageCalls(x) \/ Threads(x)
  PROVE  /\ y # x => end'[y] = end[y]
         /\ x = y => EndSteps(y, end[y], end'[y])
         /\ raced \subseteq raced'
<1>1. CASE PageCalls(x)
  <2>1. end' = [end EXCEPT ![x] = end'[x]] /\ raced \subseteq raced'
    BY <1>1, Calling
  <2>2. x \notin raced' => end[x].recv = <<>>
    BY <1>1, Calling
  <2>3. IF x = "S" THEN SharerBegins(end[x], end'[x]) ELSE ViewerBegins(end[x], end'[x])
    BY <1>1, Calling
  <2> QED
    BY <2>1, <2>2, <2>3 DEF EndSteps, TInv
<1>2. CASE Receives(x)
  <2>1. end' = [end EXCEPT ![x] = end'[x]] /\ raced \subseteq raced'
    BY <1>2, Receiving
  <2>2. Takes(end[x], end'[x]) /\ (x \notin raced' => end[x].ui = <<>>)
    BY <1>2, Receiving
  <2> QED
    BY <2>1, <2>2 DEF EndSteps, TInv
<1>3. CASE Sends(x)
  <2>1. /\ end' = [end EXCEPT ![x] = [end[x] EXCEPT !.queue = Tail(end[x].queue)]]
        /\ raced \subseteq raced'
    BY <1>3, Sending
  <2>2. end[x].queue # <<>>
    BY <1>3 DEF Sends
  <2> QED
    BY <2>1, <2>2 DEF EndSteps, TInv
<1>4. CASE Goes(x, "ui")
  <2>1. end' = [end EXCEPT ![x] = end'[x]] /\ raced \subseteq raced'
    BY <1>4, OwnSide
  <2>2. x = "S" => SharerMoves(end[x], end'[x])
    BY <1>4, SharerUi, SharerEffect DEF TInv
  <2>3. x = "V" => ViewerMoves(end[x], end'[x])
    BY <1>4, ViewerUi, ViewerEffect DEF TInv
  <2>4. IF x = "S" THEN SharerMoves(end[x], end'[x]) ELSE ViewerMoves(end[x], end'[x])
    BY <2>2, <2>3 DEF Sides
  <2> QED
    BY <2>1, <2>4 DEF EndSteps, TInv
<1>5. CASE Goes(x, "recv")
  <2>1. end' = [end EXCEPT ![x] = end'[x]] /\ raced \subseteq raced'
    BY <1>5, OwnSide
  <2>2. HandlerMoves(end[x], end'[x])
    BY <1>5, HandlerTurn, HandlerEffect DEF TInv
  <2> QED
    BY <2>1, <2>2 DEF EndSteps, TInv
<1> QED
  BY <1>1, <1>2, <1>3, <1>4, <1>5 DEF Threads

LEMMA EndStep ==
  ASSUME TInv, [Next]_vars, NEW x \in Sides
  PROVE  EndSteps(x, end[x], end'[x]) /\ raced \subseteq raced'
<1>1. CASE UNCHANGED vars
  BY <1>1 DEF vars, EndSteps
<1>2. CASE Next
  BY <1>2, OnlyOwn DEF Next, EndSteps
<1> QED
  BY <1>1, <1>2

LEMMA InitInput == Init => InputInv(end["S"])
BY HandlerParts, SharerParts
DEF Init, Endpoint, Sides, InputInv, OneAnswers, OnWhenControled, AnswerCalls, Decisions

LEMMA InputSteps ==
  ASSUME NEW e \in Endpoints("S"), NEW f, InputInv(e), EndSteps("S", e, f)
  PROVE  InputInv(f)
<1>1. CASE f = e \/ f = [e EXCEPT !.queue = Tail(e.queue)]
  BY <1>1 DEF InputInv, OneAnswers, OnWhenControled, Endpoints
<1>2. CASE SharerBegins(e, f)
  BY <1>2, InputBegins
<1>3. CASE Takes(e, f)
  BY <1>3, InputTakes
<1>4. CASE SharerMoves(e, f)
  BY <1>4, InputTurns
<1>5. CASE HandlerMoves(e, f)
  BY <1>5, InputHandles
<1> QED
  BY <1>1, <1>2, <1>3, <1>4, <1>5 DEF EndSteps

LEMMA NextInput == TInv /\ InputInv(end["S"]) /\ [Next]_vars => InputInv(end["S"])'
BY InputSteps, EndStep DEF TInv, Sides

(* No interleaving of the sharer's page with its receive thread, and no     *)
(* number of requests, leaves a sharer that counts as controlled with its   *)
(* input off once both have come to rest (CCPVncServer.cpp 760 to 870 and   *)
(* 654 to 708).                                                             *)
THEOREM ControlledInput == Spec => []ControlledTakesInput
<1>1. InputInv(end["S"]) => ControlledTakesInput
  BY HandlerParts, SharerParts
  DEF InputInv, OnWhenControled, ControlledTakesInput, AtRest, Sides
<1> QED
  BY <1>1, InitTInv, NextTInv, InitInput, NextInput, PTL DEF Spec

-----------------------------------------------------------------------------
(* The viewer's state and its switch *)

(* While calls and handlers take turns, one of the threads is idle          *)
Alone(e) == e.ui = <<>> \/ e.recv = <<>>

(* The one that works is between its two assignments, or the fields agree   *)
ByCall(e) ==
  /\ e.ui \in {VStop2, VRefuse2} => e.rc = "Normal"
  /\ e.ui = VGrant2 => e.rc = "Controling"
  /\ e.ui = Ask2 => ~e.gate
ByHandler(e) ==
  /\ e.recv = TurnOff1 => e.rc = "Normal"
  /\ e.recv = TurnOn1 => e.rc = "Controling"
  /\ e.recv \in {Asked1, Stopped2} => ~e.gate
Following(e) ==
  \/ e.ui \in {VStop2, VRefuse2, VGrant2} \/ e.recv \in {TurnOff1, TurnOn1}
  \/ e.gate <=> e.rc = "Controling"

ViewInv(e) == Alone(e) /\ ByCall(e) /\ ByHandler(e) /\ Following(e)

LEMMA ViewTurns ==
  ASSUME NEW e \in Endpoints("V"), NEW f, ViewInv(e), ViewerMoves(e, f)
  PROVE  ViewInv(f)
<1> USE DEF ViewInv, Alone, Following, ByCall, ByHandler
<1>1. CASE UiTo(e, f, Ask2, "ReqControling", e.gate, e.queue, Ask1)
  BY <1>1, ViewerParts, HandlerParts DEF UiTo, RecvTo
<1>2. CASE UiTo(e, f, Ask1, e.rc, e.gate, Append(e.queue, "Ask"), <<>>)
  BY <1>2, ViewerParts, HandlerParts DEF UiTo, RecvTo
<1>3. CASE UiTo(e, f, VStop3, "Normal", e.gate, e.queue, VStop2)
  BY <1>3, ViewerParts, HandlerParts DEF UiTo, RecvTo
<1>4. CASE UiTo(e, f, VStop2, e.rc, FALSE, e.queue, Stop1)
  BY <1>4, ViewerParts, HandlerParts DEF UiTo, RecvTo
<1>5. CASE UiTo(e, f, Stop1, e.rc, e.gate, Append(e.queue, "Stop"), <<>>)
  BY <1>5, ViewerParts, HandlerParts DEF UiTo, RecvTo
<1>6. CASE UiTo(e, f, VGrant3, "Controling", e.gate, e.queue, VGrant2)
  BY <1>6, ViewerParts, HandlerParts DEF UiTo, RecvTo
<1>7. CASE UiTo(e, f, VGrant2, e.rc, TRUE, e.queue, VGrant1)
  BY <1>7, ViewerParts, HandlerParts DEF UiTo, RecvTo
<1>8. CASE UiTo(e, f, VGrant1, e.rc, e.gate, Append(e.queue, "Grant"), <<>>)
  BY <1>8, ViewerParts, HandlerParts DEF UiTo, RecvTo
<1>9. CASE UiTo(e, f, VRefuse3, "Normal", e.gate, e.queue, VRefuse2)
  BY <1>9, ViewerParts, HandlerParts DEF UiTo, RecvTo
<1>10. CASE UiTo(e, f, VRefuse2, e.rc, FALSE, e.queue, VRefuse1)
  BY <1>10, ViewerParts, HandlerParts DEF UiTo, RecvTo
<1>11. CASE UiTo(e, f, VRefuse1, e.rc, e.gate, Append(e.queue, "Refuse"), <<>>)
  BY <1>11, ViewerParts, HandlerParts DEF UiTo, RecvTo
<1> QED
  BY <1>1, <1>2, <1>3, <1>4, <1>5, <1>6, <1>7, <1>8, <1>9, <1>10, <1>11 DEF ViewerMoves

LEMMA ViewHandles ==
  ASSUME NEW e \in Endpoints("V"), NEW f, ViewInv(e), HandlerMoves(e, f)
  PROVE  ViewInv(f)
<1> USE DEF ViewInv, Alone, Following, ByCall, ByHandler
<1>1. CASE RecvTo(e, f, OnAsk, e.rc, e.gate, IF e.rc = "Normal" THEN Asked1 ELSE <<>>)
  BY <1>1, ViewerParts, HandlerParts DEF UiTo, RecvTo
<1>2. CASE RecvTo(e, f, Asked1, "RecvReqControling", e.gate, <<>>)
  BY <1>2, ViewerParts, HandlerParts DEF UiTo, RecvTo
<1>3. CASE RecvTo(e, f, OnStop, e.rc, e.gate, IF e.rc = "RecvReqControling" THEN Stopped2 ELSE Stopped1)
  BY <1>3, ViewerParts, HandlerParts DEF UiTo, RecvTo
<1>4. CASE RecvTo(e, f, Stopped2, "Normal", e.gate, Stopped1)
  BY <1>4, ViewerParts, HandlerParts DEF UiTo, RecvTo
<1>5. CASE RecvTo(e, f, Stopped1, e.rc, e.gate, IF e.rc = "Controling" THEN TurnOff2 ELSE <<>>)
  BY <1>5, ViewerParts, HandlerParts DEF UiTo, RecvTo
<1>6. CASE RecvTo(e, f, OnGrant, e.rc, e.gate, IF e.rc = "ReqControling" THEN TurnOn2 ELSE <<>>)
  BY <1>6, ViewerParts, HandlerParts DEF UiTo, RecvTo
<1>7. CASE RecvTo(e, f, TurnOn2, "Controling", e.gate, TurnOn1)
  BY <1>7, ViewerParts, HandlerParts DEF UiTo, RecvTo
<1>8. CASE RecvTo(e, f, TurnOn1, e.rc, TRUE, <<>>)
  BY <1>8, ViewerParts, HandlerParts DEF UiTo, RecvTo
<1>9. CASE RecvTo(e, f, OnRefuse, e.rc, e.gate, IF e.rc = "ReqControling" THEN TurnOff2 ELSE <<>>)
  BY <1>9, ViewerParts, HandlerParts DEF UiTo, RecvTo
<1>10. CASE RecvTo(e, f, TurnOff2, "Normal", e.gate, TurnOff1)
  BY <1>10, ViewerParts, HandlerParts DEF UiTo, RecvTo
<1>11. CASE RecvTo(e, f, TurnOff1, e.rc, FALSE, <<>>)
  BY <1>11, ViewerParts, HandlerParts DEF UiTo, RecvTo
<1> QED
  BY <1>1, <1>2, <1>3, <1>4, <1>5, <1>6, <1>7, <1>8, <1>9, <1>10, <1>11 DEF HandlerMoves

LEMMA ViewSteps ==
  ASSUME NEW e \in Endpoints("V"), NEW f, ViewInv(e), EndSteps("V", e, f), "V" \notin raced'
  PROVE  ViewInv(f)
<1> USE DEF ViewInv, Alone, Following, ByCall, ByHandler
<1>0. "V" \in Sides
  BY DEF Sides
<1>1. CASE f = e \/ f = [e EXCEPT !.queue = Tail(e.queue)]
  BY <1>1 DEF Endpoints
<1>2. CASE ViewerBegins(e, f) /\ e.recv = <<>>
  <2>1. \E p \in {Ask2, VStop3, VGrant3, VRefuse3} :
          /\ UiTo(e, f, <<>>, e.rc, e.gate, e.queue, p)
          /\ p = Ask2 => e.rc = "Normal"
    BY <1>0, <1>2, BeginEffect, ViewerParts DEF ViewerBegins
  <2> QED
    BY <1>2, <2>1, ViewerParts, HandlerParts DEF UiTo
<1>3. CASE Takes(e, f) /\ e.ui = <<>>
  <2>1. PICK p \in {OnAsk, OnStop, OnGrant, OnRefuse} : RecvTo(e, f, <<>>, e.rc, e.gate, p)
    BY <1>0, <1>3, TakeEffect
  <2> QED
    BY <1>3, <2>1, ViewerParts, HandlerParts DEF RecvTo
<1>4. CASE ViewerMoves(e, f)
  BY <1>4, ViewTurns
<1>5. CASE HandlerMoves(e, f)
  BY <1>5, ViewHandles
<1> QED
  BY <1>1, <1>2, <1>3, <1>4, <1>5 DEF EndSteps

LEMMA InitView == Init => ViewInv(end["V"])
<1> SUFFICES ASSUME Init PROVE ViewInv(end["V"])
  OBVIOUS
<1>1. end["V"].ui = <<>> /\ end["V"].recv = <<>> /\ end["V"].rc = "Normal" /\ ~end["V"].gate
  BY DEF Init, Endpoint, Sides
<1> QED
  BY <1>1, HandlerParts, ViewerParts DEF ViewInv, Alone, Following, ByCall, ByHandler

LEMMA NextView ==
  TInv /\ ("V" \notin raced => ViewInv(end["V"])) /\ [Next]_vars
    => ("V" \notin raced => ViewInv(end["V"]))'
BY ViewSteps, EndStep DEF TInv, Sides

(* While the viewer's calls and handlers take turns, what the page shows it *)
(* as controlling and what its switch lets through agree whenever nothing   *)
(* is under way, whatever the sharer's threads do to each other             *)
(* (CCPVncViewer.cpp 277 to 391 and 697 to 756).                            *)
THEOREM ViewFollowing == Spec => []ViewFollows
<1> DEFINE VInv == "V" \notin raced => ViewInv(end["V"])
<1>1. VInv => ViewFollows
  BY HandlerParts, ViewerParts DEF ViewInv, Following, ViewFollows, AtRest, Sides
<1>2. Init => VInv
  BY InitView
<1>3. TInv /\ VInv /\ [Next]_vars => VInv'
  BY NextView
<1> QED
  BY <1>1, <1>2, <1>3, InitTInv, NextTInv, PTL DEF Spec

-----------------------------------------------------------------------------
(* The sharer's page knows of the control *)

(* While calls and handlers of the sharer take turns *)
Own(e) ==
  /\ Alone(e)
  /\ e.recv = Asked1 => e.rc = "Normal"
  /\ e.recv = Stopped2 => e.rc = "RecvReqControling"
  /\ e.recv = TurnOn1 => e.rc = "Controling"
  /\ e.ui \in {Stop2, Refuse2, Refuse1} => ~e.gate

(* Input that passes is that of a control under way or about to change *)
Known(e) ==
  e.gate /\ e.rc \notin Pending => e.ui \in {Grant2, Grant1} \/ e.recv = TurnOff1

(* Or the sharer has not asked nor answered yet, so that its input passes   *)
(* as it does by default, and the viewer cannot have got control.           *)
QuietSharer(e) ==
  /\ e.queue = <<>>
  /\ e.rc \in {"Normal", "RecvReqControling"}
  /\ e.ui \in {<<>>, Ask2, Grant3, Refuse3}
  /\ e.recv \notin Decisions
QuietViewer(e) ==
  /\ e.recv = <<>>
  /\ e.rc \in {"Normal", "ReqControling"} /\ ~e.gate
  /\ e.ui \in {<<>>, Ask2, Ask1, VStop3, VStop2, Stop1}

KnownInv(e) == Own(e) /\ Known(e)
QuietInv(e) == Own(e) /\ QuietSharer(e)

LEMMA KnownTurns ==
  ASSUME NEW e \in Endpoints("S"), NEW f, KnownInv(e), SharerMoves(e, f)
  PROVE  KnownInv(f)
<1> USE DEF KnownInv, Own, Known, Alone, Pending
<1>1. CASE UiTo(e, f, Ask2, "ReqControling", e.gate, e.queue, Ask1)
  BY <1>1, SharerParts, HandlerParts DEF UiTo, RecvTo
<1>2. CASE UiTo(e, f, Ask1, e.rc, e.gate, Append(e.queue, "Ask"), <<>>)
  BY <1>2, SharerParts, HandlerParts DEF UiTo, RecvTo
<1>3. CASE UiTo(e, f, Stop3, e.rc, FALSE, e.queue, Stop2)
  BY <1>3, SharerParts, HandlerParts DEF UiTo, RecvTo
<1>4. CASE UiTo(e, f, Stop2, "Normal", e.gate, e.queue, Stop1)
  BY <1>4, SharerParts, HandlerParts DEF UiTo, RecvTo
<1>5. CASE UiTo(e, f, Stop1, e.rc, e.gate, Append(e.queue, "Stop"), <<>>)
  BY <1>5, SharerParts, HandlerParts DEF UiTo, RecvTo
<1>6. CASE UiTo(e, f, Grant3, e.rc, TRUE, e.queue, Grant2)
  BY <1>6, SharerParts, HandlerParts DEF UiTo, RecvTo
<1>7. CASE UiTo(e, f, Grant2, e.rc, e.gate, Append(e.queue, "Grant"), Grant1)
  BY <1>7, SharerParts, HandlerParts DEF UiTo, RecvTo
<1>8. CASE UiTo(e, f, Grant1, "Controling", e.gate, e.queue, <<>>)
  BY <1>8, SharerParts, HandlerParts DEF UiTo, RecvTo
<1>9. CASE UiTo(e, f, Refuse3, e.rc, FALSE, e.queue, Refuse2)
  BY <1>9, SharerParts, HandlerParts DEF UiTo, RecvTo
<1>10. CASE UiTo(e, f, Refuse2, e.rc, e.gate, Append(e.queue, "Refuse"), Refuse1)
  BY <1>10, SharerParts, HandlerParts DEF UiTo, RecvTo
<1>11. CASE UiTo(e, f, Refuse1, "Normal", e.gate, e.queue, <<>>)
  BY <1>11, SharerParts, HandlerParts DEF UiTo, RecvTo
<1> QED
  BY <1>1, <1>2, <1>3, <1>4, <1>5, <1>6, <1>7, <1>8, <1>9, <1>10, <1>11 DEF SharerMoves

LEMMA KnownHandles ==
  ASSUME NEW e \in Endpoints("S"), NEW f, KnownInv(e), HandlerMoves(e, f)
  PROVE  KnownInv(f)
<1> USE DEF KnownInv, Own, Known, Alone, Pending
<1>1. CASE RecvTo(e, f, OnAsk, e.rc, e.gate, IF e.rc = "Normal" THEN Asked1 ELSE <<>>)
  BY <1>1, SharerParts, HandlerParts DEF UiTo, RecvTo
<1>2. CASE RecvTo(e, f, Asked1, "RecvReqControling", e.gate, <<>>)
  BY <1>2, SharerParts, HandlerParts DEF UiTo, RecvTo
<1>3. CASE RecvTo(e, f, OnStop, e.rc, e.gate, IF e.rc = "RecvReqControling" THEN Stopped2 ELSE Stopped1)
  BY <1>3, SharerParts, HandlerParts DEF UiTo, RecvTo
<1>4. CASE RecvTo(e, f, Stopped2, "Normal", e.gate, Stopped1)
  BY <1>4, SharerParts, HandlerParts DEF UiTo, RecvTo
<1>5. CASE RecvTo(e, f, Stopped1, e.rc, e.gate, IF e.rc = "Controling" THEN TurnOff2 ELSE <<>>)
  BY <1>5, SharerParts, HandlerParts DEF UiTo, RecvTo
<1>6. CASE RecvTo(e, f, OnGrant, e.rc, e.gate, IF e.rc = "ReqControling" THEN TurnOn2 ELSE <<>>)
  BY <1>6, SharerParts, HandlerParts DEF UiTo, RecvTo
<1>7. CASE RecvTo(e, f, TurnOn2, "Controling", e.gate, TurnOn1)
  BY <1>7, SharerParts, HandlerParts DEF UiTo, RecvTo
<1>8. CASE RecvTo(e, f, TurnOn1, e.rc, TRUE, <<>>)
  BY <1>8, SharerParts, HandlerParts DEF UiTo, RecvTo
<1>9. CASE RecvTo(e, f, OnRefuse, e.rc, e.gate, IF e.rc = "ReqControling" THEN TurnOff2 ELSE <<>>)
  BY <1>9, SharerParts, HandlerParts DEF UiTo, RecvTo
<1>10. CASE RecvTo(e, f, TurnOff2, "Normal", e.gate, TurnOff1)
  BY <1>10, SharerParts, HandlerParts DEF UiTo, RecvTo
<1>11. CASE RecvTo(e, f, TurnOff1, e.rc, FALSE, <<>>)
  BY <1>11, SharerParts, HandlerParts DEF UiTo, RecvTo
<1> QED
  BY <1>1, <1>2, <1>3, <1>4, <1>5, <1>6, <1>7, <1>8, <1>9, <1>10, <1>11 DEF HandlerMoves

LEMMA QuietTurns ==
  ASSUME NEW e \in Endpoints("S"), NEW f, QuietInv(e), SharerMoves(e, f)
  PROVE  QuietInv(f) \/ KnownInv(f)
<1> USE DEF KnownInv, QuietInv, Own, Known, Alone, Pending, QuietSharer, Decisions
<1>1. CASE UiTo(e, f, Ask2, "ReqControling", e.gate, e.queue, Ask1)
  BY <1>1, SharerParts, HandlerParts DEF UiTo, RecvTo
<1>2. CASE UiTo(e, f, Ask1, e.rc, e.gate, Append(e.queue, "Ask"), <<>>)
  BY <1>2, SharerParts, HandlerParts DEF UiTo, RecvTo
<1>3. CASE UiTo(e, f, Stop3, e.rc, FALSE, e.queue, Stop2)
  BY <1>3, SharerParts, HandlerParts DEF UiTo, RecvTo
<1>4. CASE UiTo(e, f, Stop2, "Normal", e.gate, e.queue, Stop1)
  BY <1>4, SharerParts, HandlerParts DEF UiTo, RecvTo
<1>5. CASE UiTo(e, f, Stop1, e.rc, e.gate, Append(e.queue, "Stop"), <<>>)
  BY <1>5, SharerParts, HandlerParts DEF UiTo, RecvTo
<1>6. CASE UiTo(e, f, Grant3, e.rc, TRUE, e.queue, Grant2)
  BY <1>6, SharerParts, HandlerParts DEF UiTo, RecvTo
<1>7. CASE UiTo(e, f, Grant2, e.rc, e.gate, Append(e.queue, "Grant"), Grant1)
  BY <1>7, SharerParts, HandlerParts DEF UiTo, RecvTo
<1>8. CASE UiTo(e, f, Grant1, "Controling", e.gate, e.queue, <<>>)
  BY <1>8, SharerParts, HandlerParts DEF UiTo, RecvTo
<1>9. CASE UiTo(e, f, Refuse3, e.rc, FALSE, e.queue, Refuse2)
  BY <1>9, SharerParts, HandlerParts DEF UiTo, RecvTo
<1>10. CASE UiTo(e, f, Refuse2, e.rc, e.gate, Append(e.queue, "Refuse"), Refuse1)
  BY <1>10, SharerParts, HandlerParts DEF UiTo, RecvTo
<1>11. CASE UiTo(e, f, Refuse1, "Normal", e.gate, e.queue, <<>>)
  BY <1>11, SharerParts, HandlerParts DEF UiTo, RecvTo
<1> QED
  BY <1>1, <1>2, <1>3, <1>4, <1>5, <1>6, <1>7, <1>8, <1>9, <1>10, <1>11 DEF SharerMoves

LEMMA QuietHandles ==
  ASSUME NEW e \in Endpoints("S"), NEW f, QuietInv(e), HandlerMoves(e, f)
  PROVE  QuietInv(f) \/ KnownInv(f)
<1> USE DEF KnownInv, QuietInv, Own, Known, Alone, Pending, QuietSharer, Decisions
<1>1. CASE RecvTo(e, f, OnAsk, e.rc, e.gate, IF e.rc = "Normal" THEN Asked1 ELSE <<>>)
  BY <1>1, SharerParts, HandlerParts DEF UiTo, RecvTo
<1>2. CASE RecvTo(e, f, Asked1, "RecvReqControling", e.gate, <<>>)
  BY <1>2, SharerParts, HandlerParts DEF UiTo, RecvTo
<1>3. CASE RecvTo(e, f, OnStop, e.rc, e.gate, IF e.rc = "RecvReqControling" THEN Stopped2 ELSE Stopped1)
  BY <1>3, SharerParts, HandlerParts DEF UiTo, RecvTo
<1>4. CASE RecvTo(e, f, Stopped2, "Normal", e.gate, Stopped1)
  BY <1>4, SharerParts, HandlerParts DEF UiTo, RecvTo
<1>5. CASE RecvTo(e, f, Stopped1, e.rc, e.gate, IF e.rc = "Controling" THEN TurnOff2 ELSE <<>>)
  BY <1>5, SharerParts, HandlerParts DEF UiTo, RecvTo
<1>6. CASE RecvTo(e, f, OnGrant, e.rc, e.gate, IF e.rc = "ReqControling" THEN TurnOn2 ELSE <<>>)
  BY <1>6, SharerParts, HandlerParts DEF UiTo, RecvTo
<1>7. CASE RecvTo(e, f, TurnOn2, "Controling", e.gate, TurnOn1)
  BY <1>7, SharerParts, HandlerParts DEF UiTo, RecvTo
<1>8. CASE RecvTo(e, f, TurnOn1, e.rc, TRUE, <<>>)
  BY <1>8, SharerParts, HandlerParts DEF UiTo, RecvTo
<1>9. CASE RecvTo(e, f, OnRefuse, e.rc, e.gate, IF e.rc = "ReqControling" THEN TurnOff2 ELSE <<>>)
  BY <1>9, SharerParts, HandlerParts DEF UiTo, RecvTo
<1>10. CASE RecvTo(e, f, TurnOff2, "Normal", e.gate, TurnOff1)
  BY <1>10, SharerParts, HandlerParts DEF UiTo, RecvTo
<1>11. CASE RecvTo(e, f, TurnOff1, e.rc, FALSE, <<>>)
  BY <1>11, SharerParts, HandlerParts DEF UiTo, RecvTo
<1> QED
  BY <1>1, <1>2, <1>3, <1>4, <1>5, <1>6, <1>7, <1>8, <1>9, <1>10, <1>11 DEF HandlerMoves

LEMMA SharerCalled ==
  ASSUME NEW e \in Endpoints("S"), NEW f, SharerBegins(e, f)
  PROVE  \/ UiTo(e, f, <<>>, e.rc, e.gate, e.queue, Ask2)
         \/ UiTo(e, f, <<>>, e.rc, e.gate, e.queue, Stop3) /\ e.rc \in Pending
         \/ UiTo(e, f, <<>>, e.rc, e.gate, e.queue, Grant3)
         \/ UiTo(e, f, <<>>, e.rc, e.gate, e.queue, Refuse3)
BY BeginEffect DEF SharerBegins, Sides

LEMMA SharerTook ==
  ASSUME NEW e \in Endpoints("S"), NEW f, Takes(e, f)
  PROVE  \E p \in {OnAsk, OnStop, OnGrant, OnRefuse} : RecvTo(e, f, <<>>, e.rc, e.gate, p)
BY TakeEffect DEF Sides

LEMMA KnownSteps ==
  ASSUME NEW e \in Endpoints("S"), NEW f, KnownInv(e), EndSteps("S", e, f), "S" \notin raced'
  PROVE  KnownInv(f)
<1> USE DEF KnownInv, Own, Known, Alone
<1>1. CASE f = e \/ f = [e EXCEPT !.queue = Tail(e.queue)]
  BY <1>1 DEF Endpoints
<1>2. CASE SharerBegins(e, f) /\ e.recv = <<>>
  BY <1>2, SharerCalled, SharerParts, HandlerParts DEF UiTo
<1>3. CASE Takes(e, f) /\ e.ui = <<>>
  BY <1>3, SharerTook, SharerParts, HandlerParts DEF RecvTo
<1>4. CASE SharerMoves(e, f)
  BY <1>4, KnownTurns
<1>5. CASE HandlerMoves(e, f)
  BY <1>5, KnownHandles
<1> QED
  BY <1>1, <1>2, <1>3, <1>4, <1>5 DEF EndSteps

LEMMA QuietSteps ==
  ASSUME NEW e \in Endpoints("S"), NEW f, QuietInv(e), EndSteps("S", e, f), "S" \notin raced'
  PROVE  QuietInv(f) \/ KnownInv(f)
<1> USE DEF QuietInv, QuietSharer, Own, Alone, Decisions
<1>1. CASE f = e \/ e.queue # <<>>
  BY <1>1
<1>2. CASE SharerBegins(e, f) /\ e.recv = <<>>
  BY <1>2, SharerCalled, SharerParts, HandlerParts DEF UiTo, Pending
<1>3. CASE Takes(e, f) /\ e.ui = <<>>
  BY <1>3, SharerTook, SharerParts, HandlerParts DEF RecvTo
<1>4. CASE SharerMoves(e, f)
  BY <1>4, QuietTurns
<1>5. CASE HandlerMoves(e, f)
  BY <1>5, QuietHandles
<1> QED
  BY <1>1, <1>2, <1>3, <1>4, <1>5 DEF EndSteps

(* The viewer that nobody has written to *)
LEMMA QuietViewerTurns ==
  ASSUME NEW e \in Endpoints("V"), NEW f, QuietViewer(e), ViewerMoves(e, f)
  PROVE  QuietViewer(f)
BY ViewerParts DEF QuietViewer, ViewerMoves, UiTo, Endpoints

LEMMA QuietViewerBegins ==
  ASSUME NEW e \in Endpoints("V"), NEW f, QuietViewer(e), ViewerBegins(e, f)
  PROVE  QuietViewer(f)
<1>1. "V" \in Sides
  BY DEF Sides
<1>2. \E p \in {Ask2, VStop3} : UiTo(e, f, <<>>, e.rc, e.gate, e.queue, p)
  BY <1>1, BeginEffect DEF ViewerBegins, QuietViewer
<1> QED
  BY <1>2 DEF UiTo, QuietViewer

LEMMA QuietViewerSteps ==
  ASSUME TInv, [Next]_vars, QuietViewer(end["V"]), end["S"].queue = <<>>, wire["S"] = <<>>
  PROVE  QuietViewer(end'["V"]) /\ wire'["S"] = <<>>
<1>0. Sides = {"S", "V"} /\ Peer("S") = "V" /\ Peer("V") = "S" /\ end["V"] \in Endpoints("V")
  BY DEF Sides, Peer, TInv
<1>1. CASE UNCHANGED vars
  BY <1>1 DEF vars
<1>2. ASSUME PageCalls("S") \/ Goes("S", "ui") \/ Goes("S", "recv")
      PROVE  end'["V"] = end["V"] /\ wire' = wire
  BY <1>0, <1>2, Calling, OwnSide, OnlyOwn DEF Threads
<1>3. CASE Receives("S")
  <2>1. end'["V"] = end["V"]
    BY <1>0, <1>3, OnlyOwn DEF Threads
  <2>2. wire'["S"] = wire["S"]
    BY <1>0, <1>3 DEF Receives, TInv
  <2> QED
    BY <2>1, <2>2
<1>4. ~Sends("S") /\ ~Receives("V") /\ ~Goes("V", "recv")
  BY <1>0 DEF Sends, Receives, Goes, QuietViewer
<1>5. CASE PageCalls("V")
  <2>1. ViewerBegins(end["V"], end'["V"]) /\ wire' = wire
    BY <1>0, <1>5, Calling
  <2> QED
    BY <1>0, <2>1, QuietViewerBegins
<1>6. CASE Goes("V", "ui")
  <2>1. ViewerMoves(end["V"], end'["V"]) /\ wire' = wire
    BY <1>0, <1>6, ViewerUi, ViewerEffect, OwnSide
  <2> QED
    BY <1>0, <2>1, QuietViewerTurns
<1>7. CASE Sends("V")
  <2>1. end'["V"] = [end["V"] EXCEPT !.queue = Tail(end["V"].queue)]
    BY <1>0, <1>7 DEF Sends, TInv
  <2>2. wire'["S"] = wire["S"]
    BY <1>0, <1>7 DEF Sends, TInv
  <2> QED
    BY <1>0, <2>1, <2>2 DEF QuietViewer, Endpoints
<1> QED
  BY <1>0, <1>1, <1>2, <1>3, <1>4, <1>5, <1>6, <1>7 DEF Next, Threads

(* The inductive invariant *)
Quiet == QuietInv(end["S"]) /\ QuietViewer(end["V"]) /\ wire["S"] = <<>>
ConsentInv == "S" \notin raced => KnownInv(end["S"]) \/ Quiet

LEMMA InitConsent == Init => ConsentInv
<1> SUFFICES ASSUME Init PROVE Quiet
  BY DEF ConsentInv
<1>1. \A x \in Sides : /\ end[x].ui = <<>> /\ end[x].recv = <<>> /\ end[x].queue = <<>>
                       /\ end[x].rc = "Normal" /\ end[x].gate = (x = "S") /\ wire[x] = <<>>
  BY DEF Init, Endpoint
<1>2. QuietInv(end["S"]) /\ wire["S"] = <<>>
  BY <1>1, HandlerParts, SharerParts DEF Sides, QuietInv, QuietSharer, Own, Alone, Decisions
<1>3. QuietViewer(end["V"])
  BY <1>1 DEF Sides, QuietViewer
<1> QED
  BY <1>2, <1>3 DEF Quiet

LEMMA NextConsent == TInv /\ ConsentInv /\ [Next]_vars => ConsentInv'
<1> SUFFICES ASSUME TInv, ConsentInv, [Next]_vars, "S" \notin raced'
    PROVE  (KnownInv(end["S"]) \/ Quiet)'
  BY DEF ConsentInv
<1>1. /\ end["S"] \in Endpoints("S") /\ EndSteps("S", end["S"], end'["S"]) /\ "S" \notin raced
  BY EndStep DEF TInv, Sides
<1>2. CASE KnownInv(end["S"])
  BY <1>1, <1>2, KnownSteps
<1>3. CASE Quiet
  <2>1. QuietInv(end'["S"]) \/ KnownInv(end'["S"])
    BY <1>1, <1>3, QuietSteps DEF Quiet
  <2>2. QuietViewer(end'["V"]) /\ wire'["S"] = <<>>
    BY <1>3, QuietViewerSteps DEF Quiet, QuietInv, QuietSharer
  <2> QED
    BY <2>1, <2>2 DEF Quiet
<1> QED
  BY <1>1, <1>2, <1>3 DEF ConsentInv

(* A viewer that has control at rest faces a sharer whose page can end it,  *)
(* as long as no call of the sharer's page overlapped a handler             *)
(* (CCPVncServer.cpp 789 to 815): the crossings on the viewer's side and on *)
(* the wire cannot undo that, however many requests there are.              *)
THEOREM ConsentHolds == Spec => []ConsentUnlessRaced
<1>1. ConsentInv => ConsentUnlessRaced
  BY SharerParts, HandlerParts
  DEF ConsentInv, Quiet, KnownInv, Known, QuietViewer, ConsentUnlessRaced, AtRest, Sides,
      EffectiveControl
<1> QED
  BY <1>1, InitTInv, NextTInv, InitConsent, NextConsent, PTL DEF Spec

USE DEF Callers, Painters, Locks

-----------------------------------------------------------------------------
(* Types *)

(* A frame that was collected is in the queue, being drawn, or shown. *)
InHand  == IF proc \in Drawing THEN 1 ELSE 0
Counted == queued + shown + InHand <= came

VInv == TypeOK /\ Counted

LEMMA InitVInv == VtInit => VInv
<1> SUFFICES ASSUME VtInit PROVE VInv
  OBVIOUS
<1>1. \A t \in Painters : job[t] \in Seq(Locks)
  BY DEF VtInit
<1>2. /\ came \in 0 .. MaxFrames /\ queued \in 0 .. RecvQSize /\ shown \in 0 .. MaxFrames
      /\ queued + shown <= came /\ Counted
  BY ViewerAssumption DEF VtInit, Counted, InHand, Drawing
<1>3. /\ at \in [Callers -> CallPlaces] /\ deleting \in [Callers -> BOOLEAN]
      /\ owner \in [Locks -> Painters \cup {"none"}]
  BY DEF VtInit, CallPlaces
<1>4. recv \in RecvPlaces /\ proc \in ProcPlaces
  BY DEF VtInit, RecvPlaces, ProcPlaces
<1> QED
  BY <1>1, <1>2, <1>3, <1>4 DEF VtInit, VInv, TypeOK

LEMMA RecvVInv == VInv /\ RecvThread => VInv'
<1> SUFFICES ASSUME VInv, RecvThread PROVE VInv'
  OBVIOUS
<1> USE DEF VInv, TypeOK, Counted, InHand, Drawing, RecvPlaces, ending, locks
<1>1. CASE RecvStarts
  BY <1>1 DEF RecvStarts, Joins
<1>2. CASE RecvLooks
  BY <1>2 DEF RecvLooks
<1>3. CASE RecvHandles
  BY <1>3, ViewerAssumption DEF RecvHandles
<1> QED
  BY <1>1, <1>2, <1>3 DEF RecvThread

LEMMA PaintsVInv ==
  ASSUME VInv, NEW from \in {"hide", "draw", "restore"}, NEW needs \in Seq(Locks),
         NEW to \in {"draw", "restore", "update"}, Paints(from, needs, to)
  PROVE  VInv'
<1>1. \A t \in Painters : job'[t] \in Seq(Locks)
  BY DEF Paints, VInv, TypeOK
<1>2. proc = from /\ proc' = to
  BY DEF Paints
<1> QED
  BY <1>1, <1>2 DEF Paints, VInv, TypeOK, Counted, InHand, Drawing, ProcPlaces, ending

LEMMA ProcVInv == VInv /\ ProcThread => VInv'
<1> SUFFICES ASSUME VInv, ProcThread PROVE VInv'
  OBVIOUS
<1>0. CursorFirst \in Seq(Locks) /\ BitmapOnly \in Seq(Locks)
  BY DEF CursorFirst, BitmapOnly
<1> USE DEF VInv, TypeOK, Counted, InHand, Drawing, ProcPlaces, ending, locks
<1>1. CASE ProcStarts
  BY <1>1 DEF ProcStarts, Joins
<1>2. CASE ProcLooks
  BY <1>2 DEF ProcLooks
<1>3. CASE ProcTakes
  <2>1. /\ queued' \in 0 .. RecvQSize /\ queued' + shown' <= came'
        /\ queued' + shown' + InHand' <= came'
    BY <1>3, ViewerAssumption DEF ProcTakes
  <2>2. proc' \in ProcPlaces
    BY <1>3 DEF ProcTakes
  <2> QED
    BY <1>3, <2>1, <2>2 DEF ProcTakes
<1>4. CASE ProcHides
  BY <1>4, <1>0, PaintsVInv DEF ProcHides
<1>5. CASE ProcDraws
  BY <1>5, <1>0, PaintsVInv DEF ProcDraws
<1>6. CASE ProcRestores
  BY <1>6, <1>0, PaintsVInv DEF ProcRestores
<1>7. CASE ProcGoesOn
  <2>1. /\ shown' \in 0 .. MaxFrames /\ queued' + shown' <= came'
        /\ queued' + shown' + InHand' <= came'
    BY <1>7, ViewerAssumption DEF ProcGoesOn
  <2>2. proc' \in ProcPlaces
    BY <1>7 DEF ProcGoesOn
  <2> QED
    BY <1>7, <2>1, <2>2 DEF ProcGoesOn
<1> QED
  BY <1>1, <1>2, <1>3, <1>4, <1>5, <1>6, <1>7 DEF ProcThread

LEMMA LocksVInv ==
  ASSUME VInv, NEW t \in Painters, Lock(t) \/ Unlock(t)
  PROVE  VInv'
<1> USE DEF threads, ending
<1>1. CASE Lock(t)
  <2>1. job[t] \in Seq(Locks) /\ job[t] # <<>>
    BY <1>1 DEF Lock, VInv, TypeOK
  <2>2. Head(job[t]) \in Locks /\ Tail(job[t]) \in Seq(Locks)
    BY <2>1, HeadTailProperties
  <2>3. \A u \in Painters : job'[u] \in Seq(Locks)
    BY <2>2, <1>1 DEF Lock, VInv, TypeOK
  <2>4. owner' \in [Locks -> Painters \cup {"none"}]
    BY <2>2, <1>1 DEF Lock, VInv, TypeOK
  <2> QED
    BY <2>3, <2>4, <1>1 DEF Lock, VInv, TypeOK, Counted, InHand
<1>2. CASE Unlock(t)
  BY <1>2 DEF Unlock, VInv, TypeOK, Counted, InHand
<1> QED
  BY <1>1, <1>2

LEMMA UiVInv == VInv /\ (UiAnswersUpdate \/ UiPaints) => VInv'
<1> SUFFICES ASSUME VInv, UiAnswersUpdate \/ UiPaints PROVE VInv'
  OBVIOUS
<1>0. CursorFirst \in Seq(Locks) /\ BitmapOnly \in Seq(Locks)
  BY DEF CursorFirst, BitmapOnly
<1>1. \A t \in Painters : job'[t] \in Seq(Locks)
  <2>1. CASE UiAnswersUpdate
    BY <1>0, <2>1 DEF UiAnswersUpdate, VInv, TypeOK
  <2>2. CASE UiPaints
    BY <1>0, <2>2 DEF UiPaints, MoveLocks, VInv, TypeOK
  <2> QED
    BY <2>1, <2>2
<1>2. CASE UiAnswersUpdate
  BY <1>1, <1>2 DEF UiAnswersUpdate, VInv, TypeOK, Counted, InHand, Drawing, ProcPlaces, ending
<1>3. CASE UiPaints
  BY <1>1, <1>3 DEF UiPaints, VInv, TypeOK, Counted, InHand, threads, ending
<1> QED
  BY <1>2, <1>3

LEMMA EndVInv ==
  ASSUME VInv, NEW t \in Callers, UiCalls \/ Delete(t) \/ Ends(t)
  PROVE  VInv'
<1> USE DEF VInv, TypeOK, Counted, InHand, CallPlaces, threads, locks
<1>1. CASE UiCalls
  BY <1>1 DEF UiCalls
<1>2. CASE Delete(t)
  BY <1>2 DEF Delete
<1>3. CASE Begin(t)
  BY <1>3 DEF Begin, Out
<1>4. CASE JoinRecv(t)
  BY <1>4 DEF JoinRecv
<1>5. CASE JoinProc(t)
  BY <1>5 DEF JoinProc
<1>6. CASE Close(t)
  BY <1>6 DEF Close
<1>7. CASE Leave(t)
  BY <1>7 DEF Leave, Out
<1> QED
  BY <1>1, <1>2, <1>3, <1>4, <1>5, <1>6, <1>7 DEF Ends

LEMMA NextVInv == VInv /\ [VtNext]_vtVars => VInv'
<1> SUFFICES ASSUME VInv, [VtNext]_vtVars PROVE VInv'
  OBVIOUS
<1>1. CASE UNCHANGED vtVars
  BY <1>1 DEF vtVars, threads, ending, locks, VInv, TypeOK, Counted, InHand
<1> QED
  BY <1>1, RecvVInv, ProcVInv, LocksVInv, UiVInv, EndVInv DEF VtNext

(* Flags, queue, locks and the threads' places keep their types; no frame   *)
(* is shown that did not come.                                              *)
THEOREM ViewerThreadsTyping == VtSpec => []TypeOK
<1>1. VInv => TypeOK
  BY DEF VInv
<1> QED
  BY <1>1, InitVInv, NextVInv, PTL DEF VtSpec

-----------------------------------------------------------------------------
(* The order in which a viewer ends *)

Ended == recv = "ended" /\ proc = "ended"

(* One thread at a time is past the test of uninitViewer, ... *)
OneInside == \A t \in Callers : at[t] \notin {"out", "enter"} => section = t

(* ... it passes each join when the thread it waits for has ended, ... *)
JoinedInTurn ==
  \A t \in Callers :
    /\ at[t] \in {"joinProc", "close", "leave"} => recv = "ended"
    /\ at[t] \in {"close", "leave"} => proc = "ended"

(* ... and who finds the viewer uninitialised finds the threads ended, or   *)
(* somebody who waits for them.                                             *)
UnInitEnded == state = "UnInit" => Ended \/ Joins

ClosedEnded == ~dll => Ended
DeletedEnded == gone => Ended \/ Joins

EndInv == TypeOK /\ OneInside /\ JoinedInTurn /\ UnInitEnded /\ ClosedEnded /\ DeletedEnded

LEMMA InitEnd == VtInit => EndInv
<1> SUFFICES ASSUME VtInit PROVE EndInv
  OBVIOUS
<1>1. TypeOK
  BY InitVInv DEF VInv
<1> QED
  BY <1>1 DEF VtInit, EndInv, OneInside, JoinedInTurn, UnInitEnded, ClosedEnded, DeletedEnded

(* Steps that leave the callers alone and take no thread back from its end *)
LEMMA OthersEnd ==
  ASSUME EndInv, TypeOK', UNCHANGED <<dll, at, section, gone>>,
         Ended => Ended', recv = "ended" => recv' = "ended", proc = "ended" => proc' = "ended",
         state' \in {state, "live"}
  PROVE  EndInv'
  BY DEF EndInv, OneInside, JoinedInTurn, UnInitEnded, ClosedEnded, DeletedEnded, Joins

LEMMA ThreadsEnd ==
  ASSUME EndInv, TypeOK',
         RecvThread \/ ProcThread \/ UiAnswersUpdate \/ UiPaints
           \/ \E t \in Painters : Lock(t) \/ Unlock(t)
  PROVE  EndInv'
<1> USE DEF Ended
<1>1. CASE RecvThread
  BY <1>1, OthersEnd DEF RecvThread, RecvStarts, RecvLooks, RecvHandles, ending
<1>2. CASE ProcThread
  BY <1>2, OthersEnd DEF ProcThread, ProcStarts, ProcLooks, ProcTakes, ProcHides, ProcDraws,
     ProcRestores, ProcGoesOn, Paints, ending
<1>3. CASE UiAnswersUpdate \/ UiPaints
  BY <1>3, OthersEnd DEF UiAnswersUpdate, UiPaints, ending, threads
<1>4. CASE \E t \in Painters : Lock(t) \/ Unlock(t)
  BY <1>4, OthersEnd DEF Lock, Unlock, ending, threads
<1> QED
  BY <1>1, <1>2, <1>3, <1>4

LEMMA CallersEnd ==
  ASSUME EndInv, TypeOK', NEW t \in Callers, UiCalls \/ Delete(t) \/ Ends(t)
  PROVE  EndInv'
<1> USE DEF EndInv, TypeOK, OneInside, JoinedInTurn, UnInitEnded, ClosedEnded, DeletedEnded,
            Joins, Ended, CallPlaces, threads, locks
<1>1. CASE UiCalls
  BY <1>1 DEF UiCalls, May
<1>2. CASE Delete(t)
  BY <1>2 DEF Delete, May
<1>3. CASE Begin(t)
  BY <1>3 DEF Begin, Out
<1>4. CASE JoinRecv(t)
  BY <1>4 DEF JoinRecv
<1>5. CASE JoinProc(t)
  BY <1>5 DEF JoinProc
<1>6. CASE Close(t)
  BY <1>6 DEF Close
<1>7. CASE Leave(t)
  BY <1>7 DEF Leave, Out
<1> QED
  BY <1>1, <1>2, <1>3, <1>4, <1>5, <1>6, <1>7 DEF Ends

LEMMA NextEnd == EndInv /\ TypeOK' /\ [VtNext]_vtVars => EndInv'
<1> SUFFICES ASSUME EndInv, TypeOK', [VtNext]_vtVars PROVE EndInv'
  OBVIOUS
<1>1. CASE UNCHANGED vtVars
  BY <1>1, OthersEnd DEF vtVars, threads, ending, locks, Ended
<1> QED
  BY <1>1, ThreadsEnd, CallersEnd DEF VtNext

LEMMA EndInvariant == VtSpec => []EndInv
<1> QED
  BY InitEnd, NextEnd, ViewerThreadsTyping, PTL DEF VtSpec

(* The process thread and the receive thread find m_ViewerDll whenever they *)
(* use it, however many times and on whatever threads the viewer is ended.  *)
THEOREM DllIsThere == VtSpec => []DllWhileUsed
<1>1. EndInv => DllWhileUsed
  BY DEF EndInv, ClosedEnded, Ended, DllWhileUsed, Drawing
<1> QED
  BY <1>1, EndInvariant, PTL

(* The viewer is deleted after its threads, but by a thread that finds the  *)
(* other waiting for them.                                                  *)
THEOREM ThreadsBeforeViewer == VtSpec => []DeletedLast
<1>1. EndInv => DeletedLast
  BY DEF EndInv, DeletedEnded, Ended, Joins, DeletedLast
<1> QED
  BY <1>1, EndInvariant, PTL
=============================================================================
