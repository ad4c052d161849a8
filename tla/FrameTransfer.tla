---------------------------- MODULE FrameTransfer ----------------------------
(* The way of a frame from m_VncDataSendQ of CCPVncServer to m_RecvQ of     *)
(* CCPVncViewer: sendDataToRUDP cuts the frame at the head of the queue     *)
(* into packets and removes it when every packet was accepted;              *)
(* HandleVncDataPacket collects packets into m_CurVncFrame.  In between are *)
(* the sharer's connection, which may break and is made anew by             *)
(* RecvDataThread under the feet of SendDataThread, and the share server,   *)
(* which passes packets on between the members of the room.                 *)
(*                                                                          *)
(* Frame n is Whole(n): Total[n] units, of which a packet carries at most   *)
(* MaxPayload.  FrameQueue shows that the queue is a FIFO; here the frames  *)
(* from head on wait in it.                                                 *)
EXTENDS Naturals, Sequences, FiniteSets

CONSTANTS
  MaxFrames,     \* bound: frames captured
  Total,         \* nDataLen of each frame
  MaxPayload,    \* MAX_SEND_DATA_LEN
  SeqModulus,    \* packet_seq has 16 bits
  MaxFailures,   \* sendFailedTimes at which sendDataToRUDP gives up (100)
  WireBound,     \* packets netComm has on the way
  RecvQSize,     \* slots of the viewer's m_RecvQ (100 in the code)
  MaxRefusals, MaxAborts,   \* bounds: sends refused, attempts on a dead link
  MaxBreaks, MaxLeaves,     \* bounds: broken connections of the two sides
  NoFrame

Frames == 1 .. MaxFrames
Numbers == 0 .. SeqModulus - 1

ASSUME TransferAssumption ==
  /\ MaxFrames \in Nat
  /\ Total \in [Frames -> Nat \ {0}]
  /\ MaxPayload \in Nat \ {0} /\ SeqModulus \in Nat \ {0}
  /\ MaxFailures \in Nat /\ WireBound \in Nat /\ RecvQSize \in Nat
  /\ MaxRefusals \in Nat /\ MaxAborts \in Nat /\ MaxBreaks \in Nat /\ MaxLeaves \in Nat

(* The content of a frame; no two frames share a unit. *)
Whole(n) == [i \in 1 .. Total[n] |-> <<n, i>>]

VARIABLES
  head,        \* the frame at the head of m_VncDataSendQ
  sending,     \* SendDataThread is in sendDataToRUDP, ...
  done,        \* alreadySendLen
  failed,      \* sendFailedTimes
  curSeq,      \* m_CurDataSeq
  conn,        \* the sharer's connection: see Connections
  wire,        \* packets on their way to the viewer
  inRoom,      \* the share server counts the viewer as a member
  cur,         \* m_CurVncFrame
  delivered,   \* what m_RecvQ has taken, ProcessDataThreadFunc hands on
  waiting,     \* how many of these are still in m_RecvQ
  overrun,     \* m_RecvQ was full and refused a frame
  refusals, aborts, breaks, leaves

attempt == <<sending, done, failed>>
sharer  == <<head, attempt, curSeq>>
viewer  == <<cur, delivered, waiting, overrun>>
bounds  == <<refusals, aborts, breaks, leaves>>
vars    == <<sharer, conn, wire, inRoom, viewer, bounds>>

(* "up": a member of the room; "broken": RecvDataThread has not noticed;    *)
(* "none": released, m_bReconnectServering; "joining": made anew, the join  *)
(* not sent yet, so that the share server does not know the sender          *)
Connections == {"up", "broken", "none", "joining"}

Packets == [frame : Frames, from : Nat, seq : Numbers]

FullPartLen(p) == MaxPayload   \* mutant: the last packet is as long as the others

PartLen(p) ==
  IF Total[p.frame] - p.from > MaxPayload THEN MaxPayload ELSE Total[p.frame] - p.from

BeginMark(p) == p.from = 0
EndMark(p)   == Total[p.frame] - p.from <= MaxPayload

NextNumber == IF curSeq + 1 = SeqModulus THEN 0 ELSE curSeq + 1

(* Bound: the viewer does not hold what is left of an attempt a whole cycle *)
(* of numbers ago, and nothing that old is under way.                       *)
Fresh(s) ==
  /\ cur # NoFrame => cur.seq # s
  /\ \A i \in DOMAIN wire : wire[i].seq # s

Init ==
  /\ head = 1 /\ sending = FALSE /\ done = 0 /\ failed = 0
  /\ curSeq \in Numbers
  /\ conn = "up" /\ wire = <<>> /\ inRoom = FALSE
  /\ cur = NoFrame /\ delivered = <<>> /\ waiting = 0 /\ overrun = FALSE
  /\ refusals = 0 /\ aborts = 0 /\ breaks = 0 /\ leaves = 0

-----------------------------------------------------------------------------
(* SendDataThread peeks at the head of the queue and calls sendDataToRUDP,  *)
(* which takes a number and starts from the first byte.                     *)
BeginKeepsFailures ==   \* mutant: sendFailedTimes goes on from the last attempt
  /\ ~sending /\ head <= MaxFrames
  /\ conn # "none"
  /\ Fresh(NextNumber)
  /\ curSeq' = NextNumber
  /\ sending' = TRUE /\ done' = 0
  /\ UNCHANGED <<head, failed, conn, wire, inRoom, viewer, bounds>>

BeginFrame ==
  /\ ~sending /\ head <= MaxFrames
  /\ conn # "none"
  /\ Fresh(NextNumber)
  /\ curSeq' = NextNumber
  /\ sending' = TRUE /\ done' = 0 /\ failed' = 0
  /\ UNCHANGED <<head, conn, wire, inRoom, viewer, bounds>>

Trying == sending /\ done < Total[head] /\ failed < MaxFailures /\ conn # "none"

(* Send took the packet.  A connection that broke loses it, and the share   *)
(* server ignores it before the join.                                       *)
SendPart ==
  /\ Trying
  /\ LET p == [frame |-> head, from |-> done, seq |-> curSeq]
     IN  /\ done' = done + PartLen(p)
         /\ IF conn = "up"
              THEN Len(wire) < WireBound /\ wire' = Append(wire, p)
              ELSE UNCHANGED wire
  /\ UNCHANGED <<head, sending, failed, curSeq, conn, inRoom, viewer, bounds>>

(* Send did not *)
RefusePart ==
  /\ Trying /\ refusals < MaxRefusals
  /\ failed' = failed + 1
  /\ refusals' = refusals + 1
  /\ UNCHANGED <<head, sending, done, curSeq, conn, wire, inRoom, viewer, aborts, breaks, leaves>>

(* Every packet was accepted: the frame is removed. *)
EndKeepsFrame ==   \* mutant: the frame is not removed
  /\ sending /\ done = Total[head]
  /\ sending' = FALSE /\ done' = 0
  /\ UNCHANGED <<head, failed, curSeq, conn, wire, inRoom, viewer, bounds>>

EndFrame ==
  /\ sending /\ done = Total[head]
  /\ head' = head + 1
  /\ sending' = FALSE /\ done' = 0
  /\ UNCHANGED <<failed, curSeq, conn, wire, inRoom, viewer, bounds>>

(* The attempt ends before the frame does, which stays at the head: too     *)
(* many refusals, or a connection that is not connected.  "none" is taken   *)
(* for not connected; the code may be using the connection RecvDataThread   *)
(* releases, which is not modelled.                                         *)
HasGivenUp ==
  /\ sending /\ done < Total[head]
  /\ \/ failed >= MaxFailures
     \/ conn = "none"
     \/ conn = "broken" /\ aborts < MaxAborts

GiveUpDrops ==   \* mutant: the frame is removed all the same
  /\ HasGivenUp
  /\ head' = head + 1
  /\ sending' = FALSE /\ done' = 0
  /\ aborts' = IF conn = "broken" /\ failed < MaxFailures THEN aborts + 1 ELSE aborts
  /\ UNCHANGED <<failed, curSeq, conn, wire, inRoom, viewer, refusals, breaks, leaves>>

GiveUp ==
  /\ HasGivenUp
  /\ sending' = FALSE /\ done' = 0
  /\ aborts' = IF conn = "broken" /\ failed < MaxFailures THEN aborts + 1 ELSE aborts
  /\ UNCHANGED <<head, failed, curSeq, conn, wire, inRoom, viewer, refusals, breaks, leaves>>

-----------------------------------------------------------------------------
(* A connection that breaks loses the last packets of what is on its way.   *)
SharerBreaks ==
  /\ conn = "up" /\ breaks < MaxBreaks
  /\ conn' = "broken"
  /\ breaks' = breaks + 1
  /\ \E k \in 0 .. Len(wire) : wire' = SubSeq(wire, 1, k)
  /\ UNCHANGED <<sharer, inRoom, viewer, refusals, aborts, leaves>>

(* RecvDataThread: Recv returned -1; then a connection is made anew.  Where *)
(* SendDataThread is in a frame does not matter to it.                      *)
SharerDetects ==
  /\ conn = "broken"
  /\ conn' = "none"
  /\ UNCHANGED <<sharer, wire, inRoom, viewer, bounds>>

SharerReconnects ==
  /\ conn = "none"
  /\ conn' = "joining"
  /\ UNCHANGED <<sharer, wire, inRoom, viewer, bounds>>

(* The join waits in m_RequestQ and SendDataThread sends it between frames, *)
(* before the frames that follow or after them.                             *)
SendJoin ==
  /\ conn = "joining" /\ ~sending
  /\ conn' = "up"
  /\ UNCHANGED <<sharer, wire, inRoom, viewer, bounds>>

-----------------------------------------------------------------------------
(* HandleVncDataPacket, for a packet of the viewer's room: a begin mark     *)
(* with a new number starts a frame, a packet that fits is appended, an end *)
(* mark that makes the length of the frame delivers it.                     *)
StartsIfIdle(p) == cur = NoFrame /\ BeginMark(p)   \* mutant: only if there is none

Starts(p) == (cur = NoFrame \/ p.seq # cur.seq) /\ BeginMark(p)

Started(p) == [seq |-> p.seq, total |-> Total[p.frame], len |-> 0, data |-> <<>>]

Appended(frame, p) ==
  LET len == frame.len + PartLen(p)
  IN  [seq |-> frame.seq, total |-> frame.total, len |-> len,
       data |-> [i \in 1 .. len |-> IF i <= frame.len THEN frame.data[i]
                                    ELSE <<p.frame, p.from + i - frame.len>>]]

Collected(p) ==
  LET frame == IF Starts(p) THEN Started(p) ELSE cur
  IN  IF frame.len + PartLen(p) > frame.total THEN frame ELSE Appended(frame, p)

(* push_back: what a full ring returns is not looked at, the frame is gone. *)
Queue(data) ==
  \/ /\ waiting < RecvQSize /\ waiting' = waiting + 1
     /\ delivered' = Append(delivered, data) /\ UNCHANGED overrun
  \/ /\ waiting >= RecvQSize /\ overrun' = TRUE
     /\ UNCHANGED <<delivered, waiting>>

Handle(p) ==
  IF cur = NoFrame /\ ~Starts(p)
    THEN UNCHANGED viewer
    ELSE LET frame == Collected(p)
         IN  IF EndMark(p) /\ frame.len = Total[p.frame]
               THEN cur' = NoFrame /\ Queue(frame.data)
               ELSE cur' = frame /\ UNCHANGED <<delivered, waiting, overrun>>

ViewerReceives ==
  /\ inRoom /\ wire # <<>>
  /\ Handle(Head(wire))
  /\ wire' = Tail(wire)
  /\ UNCHANGED <<sharer, conn, inRoom, bounds>>

(* ProcessDataThreadFunc takes a frame and gives it to the decoder. *)
ViewerTakes ==
  /\ waiting > 0 /\ waiting' = waiting - 1
  /\ UNCHANGED <<sharer, conn, wire, inRoom, cur, delivered, overrun, bounds>>

(* What is passed on to nobody, and what a viewer that left does not get *)
WireDrops ==
  /\ ~inRoom /\ wire # <<>>
  /\ wire' = Tail(wire)
  /\ UNCHANGED <<sharer, conn, inRoom, viewer, bounds>>

(* The viewer's first join, and every one after its connection broke *)
ViewerJoins ==
  /\ ~inRoom
  /\ inRoom' = TRUE
  /\ UNCHANGED <<sharer, conn, wire, viewer, bounds>>

ViewerLeaves ==
  /\ inRoom /\ leaves < MaxLeaves
  /\ inRoom' = FALSE
  /\ leaves' = leaves + 1
  /\ UNCHANGED <<sharer, conn, wire, viewer, refusals, aborts, breaks>>

Sender  == BeginFrame \/ SendPart \/ RefusePart \/ EndFrame \/ GiveUp
Link    == SharerBreaks \/ SharerDetects \/ SharerReconnects \/ SendJoin
Viewers == \/ ViewerReceives \/ ViewerTakes \/ WireDrops \/ ViewerJoins
           \/ ViewerLeaves

Next == Sender \/ Link \/ Viewers

Spec == Init /\ [][Next]_vars

(* The threads run, refusals end, a lost connection is noticed and made     *)
(* anew, and what netComm has accepted gets on.                             *)
SendThread == BeginFrame \/ SendPart \/ EndFrame \/ GiveUp \/ SendJoin
RecvThread == SharerDetects \/ SharerReconnects
Network    == ViewerReceives \/ WireDrops

FairSpec ==
  /\ Spec
  /\ WF_vars(SendThread) /\ WF_vars(RecvThread)
  /\ WF_vars(Network) /\ WF_vars(ViewerJoins)

-----------------------------------------------------------------------------
(* What m_CurVncFrame may hold; NoFrame is none of it. *)
Partial == [seq : Numbers, total : Nat, len : Nat, data : Seq(Frames \X Nat)]

ASSUME NoFrameAssumption == NoFrame \notin Partial

SenderTypes ==
  /\ head \in 1 .. MaxFrames + 1
  /\ sending \in BOOLEAN
  /\ sending => head \in Frames /\ done <= Total[head]
  /\ done \in Nat /\ failed \in 0 .. MaxFailures
  /\ curSeq \in Numbers

LinkTypes == conn \in Connections /\ wire \in Seq(Packets) /\ inRoom \in BOOLEAN

ViewerTypes ==
  /\ cur = NoFrame \/ cur \in Partial
  /\ delivered \in Seq(Seq(Frames \X Nat))
  /\ waiting \in 0 .. RecvQSize /\ overrun \in BOOLEAN

BoundTypes ==
  /\ refusals \in 0 .. MaxRefusals /\ aborts \in 0 .. MaxAborts
  /\ breaks \in 0 .. MaxBreaks /\ leaves \in 0 .. MaxLeaves

(* Types; done never exceeds the frame, whose last packet is a short one. *)
TypeOK == SenderTypes /\ LinkTypes /\ ViewerTypes /\ BoundTypes

(* What the viewer hands to its decoder is one frame, whole and unmixed,    *)
(* although packets are collected without a check that they follow each     *)
(* other (CCPVncViewer.cpp:796-811).                                        *)
IsWhole(data) == \E n \in Frames : data = Whole(n)
WholeFrames == \A i \in DOMAIN delivered : IsWhole(delivered[i])

(* That is so whatever is refused, sent again, lost in a break or cut in    *)
(* two by a reconnection of the sharer.  When the viewer loses the room the *)
(* rest of a frame may be taken for the rest of another (m_CurVncFrame is   *)
(* kept): but at most once for each time.                                   *)
Mixed == {i \in DOMAIN delivered : ~IsWhole(delivered[i])}
OneMixedPerLeave == Cardinality(Mixed) <= leaves

(* 0 is no frame *)
FrameOf(data) == IF IsWhole(data) THEN CHOOSE n \in Frames : data = Whole(n) ELSE 0

Promise == INSTANCE LossyFrames
             WITH got    <- [i \in DOMAIN delivered |-> FrameOf(delivered[i])],
                  intact <- breaks = 0 /\ leaves = 0 /\ ~overrun

(* The viewer gets each frame at most once and in order, and as long as no  *)
(* connection breaks and m_RecvQ does not overrun every one from its first  *)
(* frame on and nothing that is not a frame, whatever was refused by netComm *)
(* and sent again meanwhile.                                                *)
DeliversFrames == Promise!Spec

(* What is handed to the decoder only moves forward, even when the viewer   *)
(* left the room in the middle of a frame and got into the middle of        *)
(* another: nothing in it is older than anything handed over before.        *)
OnlyForward ==
  \A i, j \in DOMAIN delivered :
    i < j => \A k \in DOMAIN delivered[i], l \in DOMAIN delivered[j] :
               delivered[i][k][1] < delivered[j][l][1]

(* A frame that is sent while sharer and viewer are in the room arrives,    *)
(* unless one of them loses the room or m_RecvQ overruns.                   *)
FrameArrives ==
  \A n \in Frames :
    (head = n /\ done = 0 /\ conn = "up" /\ inRoom)
      ~> \/ conn # "up" \/ ~inRoom \/ overrun
         \/ \E i \in DOMAIN delivered : FrameOf(delivered[i]) = n
=============================================================================
