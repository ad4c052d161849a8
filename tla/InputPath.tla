------------------------------ MODULE InputPath -------------------------------
(* The way of the viewer's input events through the sharer, and its end:    *)
(* RecvDataThread queues a received frame (m_RecvQ), ProcessDataThread      *)
(* writes it to the channel with m_csRecvQ held, the vncClient thread reads *)
(* messages from the channel and carries them out, uninitServer on the UI   *)
(* thread ends them all.  A message comes in one frame, a clipboard text in *)
(* two.  After a join of 10 s has timed out the thread's kill event is      *)
(* closed and NULL: it never ends.                                          *)
EXTENDS ByteChannel, FiniteSets

CONSTANTS
  Inputs,      \* the frames the viewer sends
  RecvQSize    \* slots of m_RecvQ (100 in the code)

(* ends: up to which byte of the frame each ReadExact goes; strict: a       *)
(* failed read ends the client (the others just go on to the next message); *)
(* more: the next frame goes on with the same message                       *)
Frame == [strict : BOOLEAN, more : BOOLEAN, ends : Seq(Nat \ {0})]
Begins(i) == i = 1 \/ ~Inputs[i - 1].more
ASSUME InputsAssumption ==
  /\ RecvQSize \in Nat /\ Inputs \in Seq(Frame)
  /\ Inputs # << >> => ~Inputs[Len(Inputs)].more
  /\ \A i \in DOMAIN Inputs :
       LET ends == Inputs[i].ends
       IN /\ ends # << >> /\ (Begins(i) => ends[1] = 1)
          /\ \A p \in 2 .. Len(ends) : ends[p - 1] < ends[p]

Parts(i) == Len(Inputs[i].ends)
Bytes(i) == Inputs[i].ends[Parts(i)]
PartBytes(i, p) == IF p = 1 THEN Inputs[i].ends[1]
                   ELSE Inputs[i].ends[p] - Inputs[i].ends[p - 1]

VARIABLES
  arrived,      \* frames RecvDataThread has received
  recvQ,        \* m_RecvQ, the numbers of the frames
  lost,         \* m_RecvQ was full and refused a frame
  recvPc,       \* "loop", "adding" (waits for m_csRecvQ), "ended"
  procPc,       \* "loop", "writing" (holds m_csRecvQ), "ended"
  stream,       \* frames handed to the channel so far, and where they start in it
  client,       \* the vncClient thread
  current, part,\* the frame it is in, as it understands it, and which part
  handled,      \* frames it has done with: read, and at the end carried out
  quits,        \* the client has ended of itself: no desktop, bad message
  hasClient,    \* m_pVncClient # NULL
  ui,           \* the UI thread
  timedOut,     \* threads whose join timed out
  crashed       \* the process has used a pointer it must not

pathVars == <<arrived, recvQ, lost, recvPc, procPc, stream, client, current,
              part, handled, quits, hasClient, ui, timedOut, crashed>>
vars == <<chVars, pathVars>>

ClientPlaces == {"top", "type", "rest", "leaving", "removed", "closing", "deleted"}
UiPlaces == {"running", "endRecv", "endProcess", "kill", "killing",
             "waitClient", "drain", "stopped"}

Init ==
  /\ ChInit
  /\ arrived = 0 /\ recvQ = << >> /\ lost = FALSE
  /\ recvPc = "loop" /\ procPc = "loop"
  /\ stream = << >> /\ client = "top" /\ current = 1 /\ part = 1
  /\ handled = << >> /\ quits = FALSE /\ hasClient = TRUE
  /\ ui = "running" /\ timedOut = {} /\ crashed = FALSE

(* the number of the first byte of the next frame in the stream *)
NextFirst == IF stream = << >> THEN 1
             ELSE LET last == stream[Len(stream)] IN last.first + Bytes(last.frame)

LockFree == procPc # "writing"
AppServerGone == ui \in {"drain", "stopped"}       \* m_WinVncDll = NULL

-----------------------------------------------------------------------------
(* RecvDataThread *)
FrameComes ==
  /\ recvPc = "loop" /\ arrived < Len(Inputs) /\ ~AppServerGone
  /\ arrived' = arrived + 1 /\ recvPc' = "adding"
  /\ UNCHANGED <<chVars, recvQ, lost, procPc, stream, client, current, part,
                 handled, quits, hasClient, ui, timedOut, crashed>>

(* what push_back returned is not looked at *)
FrameQueued ==
  /\ recvPc = "adding" /\ LockFree /\ recvPc' = "loop"
  /\ \/ Len(recvQ) < RecvQSize /\ recvQ' = Append(recvQ, arrived) /\ lost' = lost
     \/ Len(recvQ) >= RecvQSize /\ lost' = TRUE /\ recvQ' = recvQ
  /\ UNCHANGED <<chVars, arrived, procPc, stream, client, current, part,
                 handled, quits, hasClient, ui, timedOut, crashed>>

RecvEnds ==
  /\ recvPc = "loop" /\ ui = "endRecv"
  /\ recvPc' = "ended"
  /\ UNCHANGED <<chVars, arrived, recvQ, lost, procPc, stream, client,
                 current, part, handled, quits, hasClient, ui, timedOut,
                 crashed>>

-----------------------------------------------------------------------------
(* ProcessDataThread *)
ProcessTakes ==
  /\ procPc = "loop" /\ recvQ # << >> /\ ~AppServerGone
  /\ recvQ' = Tail(recvQ)
  /\ IF hasClient
       THEN /\ Call("write", Bytes(Head(recvQ)))
            /\ stream' = Append(stream, [frame |-> Head(recvQ), first |-> NextFirst])
            /\ procPc' = "writing"
       ELSE UNCHANGED <<chVars, stream, procPc>>
  /\ UNCHANGED <<arrived, lost, recvPc, client, current, part, handled,
                 quits, hasClient, ui, timedOut, crashed>>

(* what RecvVncViewerData returned is not looked at *)
ProcessWritten ==
  /\ procPc = "writing" /\ Return("write")
  /\ procPc' = "loop"
  /\ UNCHANGED <<arrived, recvQ, lost, recvPc, stream, client, current,
                 part, handled, quits, hasClient, ui, timedOut, crashed>>

ProcessEnds ==
  /\ procPc = "loop" /\ ui = "endProcess"
  /\ procPc' = "ended"
  /\ UNCHANGED <<chVars, arrived, recvQ, lost, recvPc, stream, client,
                 current, part, handled, quits, hasClient, ui, timedOut,
                 crashed>>

(* a frame found after m_WinVncDll is NULL *)
ProcessUsesNull ==
  /\ procPc = "loop" /\ recvQ # << >> /\ AppServerGone
  /\ crashed' = TRUE
  /\ UNCHANGED <<chVars, arrived, recvQ, lost, recvPc, procPc, stream,
                 client, current, part, handled, quits, hasClient, ui,
                 timedOut>>

(* still inside Write of a channel that is deleted; it may also get away *)
ProcessUsesFreed ==
  /\ client = "deleted" /\ procPc = "writing" /\ pc["write"] \notin {"done", "failed"}
  /\ crashed' = TRUE
  /\ UNCHANGED <<chVars, arrived, recvQ, lost, recvPc, procPc, stream,
                 client, current, part, handled, quits, hasClient, ui,
                 timedOut>>
-----------------------------------------------------------------------------
(* vncClientThread::run *)
ClientLoops ==
  /\ client = "top" /\ Call("read", 1)
  /\ client' = "type"
  /\ UNCHANGED <<arrived, recvQ, lost, recvPc, procPc, stream, current,
                 part, handled, quits, hasClient, ui, timedOut, crashed>>

(* the input desktop cannot be selected *)
ClientLosesDesktop ==
  /\ client = "top" /\ client' = "leaving" /\ quits' = TRUE
  /\ UNCHANGED <<chVars, arrived, recvQ, lost, recvPc, procPc, stream,
                 current, part, handled, hasClient, ui, timedOut, crashed>>

(* the frames handed over that begin a message with the byte just read *)
Begun == {k \in DOMAIN stream : /\ stream[k].first = delivered[Len(delivered)]
                                /\ Begins(stream[k].frame)}

(* Which message a type byte begins.  A byte from within a message, where   *)
(* the client looks for a type, may look like any type or like none: then   *)
(* the message is unknown and the client ends.                              *)
ClientReadsType ==
  /\ client = "type" /\ pc["read"] = "done" /\ Return("read")
  /\ \/ /\ Begun = {} /\ client' = "leaving" /\ quits' = TRUE
        /\ UNCHANGED <<current, part>>
     \/ /\ current' \in {i \in DOMAIN Inputs :
                           /\ Begins(i)
                           /\ Begun = {} \/ \E k \in Begun : stream[k].frame = i}
        /\ client' = "rest" /\ part' = 2 /\ UNCHANGED quits
  /\ UNCHANGED <<arrived, recvQ, lost, recvPc, procPc, stream, handled,
                 hasClient, ui, timedOut, crashed>>

ClientReadsOn ==
  /\ client = "rest" /\ part <= Parts(current)
  /\ Call("read", PartBytes(current, part))
  /\ UNCHANGED pathVars

ClientReadsPart ==
  /\ client = "rest" /\ pc["read"] = "done" /\ Return("read")
  /\ part' = part + 1
  /\ UNCHANGED <<arrived, recvQ, lost, recvPc, procPc, stream, client,
                 current, handled, quits, hasClient, ui, timedOut, crashed>>

(* the header of a clipboard text is read, now the text *)
ClientGoesOn ==
  /\ client = "rest" /\ pc["read"] = "idle" /\ part > Parts(current)
  /\ Inputs[current].more
  /\ handled' = Append(handled, current) /\ current' = current + 1 /\ part' = 1
  /\ UNCHANGED <<chVars, arrived, recvQ, lost, recvPc, procPc, stream,
                 client, quits, hasClient, ui, timedOut, crashed>>

(* SetPixelFormat with a format that is refused ends the client *)
ClientHandles ==
  /\ client = "rest" /\ pc["read"] = "idle" /\ part > Parts(current)
  /\ ~Inputs[current].more
  /\ handled' = Append(handled, current)
  /\ \/ client' = "top" /\ quits' = quits
     \/ Inputs[current].strict /\ client' = "leaving" /\ quits' = TRUE
  /\ UNCHANGED <<chVars, arrived, recvQ, lost, recvPc, procPc, stream,
                 current, part, hasClient, ui, timedOut, crashed>>

ClientFails ==
  /\ client \in {"type", "rest"} /\ pc["read"] = "failed" /\ Return("read")
  /\ client' = IF client = "type" \/ Inputs[current].strict THEN "leaving" ELSE "top"
  /\ UNCHANGED <<arrived, recvQ, lost, recvPc, procPc, stream, current,
                 part, handled, quits, hasClient, ui, timedOut, crashed>>

(* RemoveClient; KillAuthClients keeps m_clientsLock while it closes *)
ClientRemoved ==
  /\ client = "leaving" /\ ui # "killing"
  /\ client' = "removed" /\ hasClient' = FALSE
  /\ UNCHANGED <<chVars, arrived, recvQ, lost, recvPc, procPc, stream,
                 current, part, handled, quits, ui, timedOut, crashed>>

(* the thread deletes the client, whose socket closes the channel *)
ClientCloses ==
  /\ client = "removed" /\ CloseFrees
  /\ client' = "closing"
  /\ UNCHANGED <<arrived, recvQ, lost, recvPc, procPc, stream, current,
                 part, handled, quits, hasClient, ui, timedOut, crashed>>

ClientDeleted ==
  /\ client = "closing" /\ CloseSignals
  /\ client' = "deleted"
  /\ UNCHANGED <<arrived, recvQ, lost, recvPc, procPc, stream, current,
                 part, handled, quits, hasClient, ui, timedOut, crashed>>

-----------------------------------------------------------------------------
(* uninitServer *)
Stays == UNCHANGED <<arrived, lost, recvPc, procPc, stream, client, current,
                     part, handled, quits, hasClient, crashed>>

StopBegins == 
  /\ ui = "running" /\ ui' = "endRecv"
  /\ UNCHANGED <<chVars, recvQ, timedOut>> /\ Stays

WriterStuck == procPc = "writing" /\ pc["write"] = "waiting" /\ ~event["write"]

(* the 10 s pass only while the thread is kept from going on *)
RecvJoined ==
  /\ ui = "endRecv" /\ ui' = "endProcess"
  /\ \/ recvPc = "ended" /\ UNCHANGED timedOut
     \/ recvPc = "adding" /\ WriterStuck /\ timedOut' = timedOut \cup {"recv"}
  /\ UNCHANGED <<chVars, recvQ>> /\ Stays

ProcessNotJoined ==   \* mutant: no wait for the thread
  /\ ui = "endProcess" /\ ui' = "kill"
  /\ UNCHANGED <<chVars, recvQ, timedOut>> /\ Stays

ProcessJoined ==
  /\ ui = "endProcess" /\ ui' = "kill"
  /\ \/ procPc = "ended" /\ UNCHANGED timedOut
     \/ WriterStuck /\ timedOut' = timedOut \cup {"process"}
  /\ UNCHANGED <<chVars, recvQ>> /\ Stays

(* StopAppServer: ~vncServer closes the client's socket, if there is one *)
KillAuthClients ==
  /\ ui = "kill"
  /\ IF hasClient THEN CloseFrees /\ ui' = "killing"
     ELSE UNCHANGED chVars /\ ui' = "waitClient"
  /\ UNCHANGED <<recvQ, timedOut>> /\ Stays

KillSignals ==
  /\ ui = "killing" /\ CloseSignals /\ ui' = "waitClient"
  /\ UNCHANGED <<recvQ, timedOut>> /\ Stays

WaitUntilAuthEmpty ==
  /\ ui = "waitClient" /\ ~hasClient /\ ui' = "drain"
  /\ UNCHANGED <<chVars, recvQ, timedOut>> /\ Stays

Drained ==
  /\ ui = "drain" /\ LockFree /\ ui' = "stopped"
  /\ recvQ' = << >>
  /\ UNCHANGED <<chVars, timedOut>> /\ Stays

-----------------------------------------------------------------------------
ChannelSteps == \E s \in Sides : ChannelStep(s) /\ UNCHANGED pathVars
RecvThread == FrameQueued \/ RecvEnds
ProcessThread == ProcessTakes \/ ProcessWritten \/ ProcessEnds \/ ProcessUsesNull
ClientThread == \/ ClientLoops \/ ClientReadsType \/ ClientReadsOn \/ ClientReadsPart
                \/ ClientGoesOn \/ ClientHandles \/ ClientFails \/ ClientRemoved
                \/ ClientCloses \/ ClientDeleted
UninitServer == \/ RecvJoined \/ ProcessJoined \/ KillAuthClients \/ KillSignals
                \/ WaitUntilAuthEmpty \/ Drained

Next == 
  /\ ~crashed
  /\ \/ FrameComes \/ RecvThread \/ ProcessThread \/ ProcessUsesFreed
     \/ ClientLosesDesktop \/ ClientThread \/ StopBegins \/ UninitServer
     \/ ChannelSteps

(* Every thread goes on as long as it can.  Frames need not come, the UI    *)
(* need not stop and the desktop need not be lost.                          *)
Spec ==
  /\ Init /\ [][Next]_vars
  /\ WF_vars(~crashed /\ RecvThread) /\ WF_vars(~crashed /\ ProcessThread)
  /\ WF_vars(~crashed /\ ClientThread) /\ WF_vars(~crashed /\ UninitServer)
  /\ \A s \in Sides : WF_vars(~crashed /\ ChannelStep(s) /\ UNCHANGED pathVars)
-----------------------------------------------------------------------------
PathTypeOK ==
  /\ arrived \in 0 .. Len(Inputs) /\ recvQ \in Seq(1 .. Len(Inputs))
  /\ Len(recvQ) <= RecvQSize /\ lost \in BOOLEAN
  /\ recvPc \in {"loop", "adding", "ended"} /\ procPc \in {"loop", "writing", "ended"}
  /\ stream \in Seq([frame : 1 .. Len(Inputs), first : Nat]) /\ client \in ClientPlaces
  /\ current \in Nat /\ part \in Nat
  /\ handled \in Seq(1 .. Len(Inputs)) /\ quits \in BOOLEAN /\ hasClient \in BOOLEAN
  /\ ui \in UiPlaces /\ timedOut \subseteq {"recv", "process"} /\ crashed \in BOOLEAN
TypeOK == ChTypeOK /\ PathTypeOK

(* Unless m_RecvQ has refused a frame, the viewer's events are carried out  *)
(* in the order in which they came, each once and none passed over, and the *)
(* client finds the type of a message where it looks for one: it never      *)
(* takes a byte of a clipboard text for a type.                             *)
InputsInOrder ==
  ~lost =>
    /\ \A i \in DOMAIN handled : handled[i] = i
    /\ client = "type" /\ pc["read"] = "done" => Begun # {}

(* Deleting the client deletes the channel.  ProcessDataThread is never     *)
(* inside it then, and never finds m_WinVncDll gone, unless its join timed  *)
(* out or the client left by itself: uninitServer ends the threads first.   *)
ThreadsEndFirst ==
  /\ client = "deleted" /\ pc["write"] # "idle" => quits \/ "process" \in timedOut
  /\ crashed => quits \/ "process" \in timedOut

(* the channel was closed when a message had been written to it in part:    *)
(* the write had broken off, or the next frame was still to come            *)
CutShort ==
  /\ ~open /\ written # 0
  /\ \A k \in DOMAIN stream :
       written = stream[k].first + Bytes(stream[k].frame) - 1 =>
         Inputs[stream[k].frame].more


(* While the session goes on, the client does not leave by itself and no    *)
(* frame is refused, every event that has arrived is carried out: no signal *)
(* is lost on the way.                                                      *)
InputsHandled ==
  \A i \in 1 .. Len(Inputs) :
    arrived >= i ~> Len(handled) >= i \/ quits \/ lost \/ ui # "running"
=============================================================================
