----------------------------- MODULE FrameQueue -----------------------------
(* The ring stdvnc::deque of vnc/Queue.h as CCPVncServer uses it for        *)
(* m_VncDataSendQ: the capture thread pushes frames under the queue's       *)
(* critical section, SendDataThread peeks WITHOUT it, sends, and only then  *)
(* locks to remove the frame, and uninitServer drains what is left.         *)
(*                                                                          *)
(* A frame is the number of the OnVNCFrameData call that made it.  A slot   *)
(* of Table holds NULL, or points to a cell that is still the value-        *)
(* initialised null pointer (Fresh: new T() ran, the assignment did not),   *)
(* or points to a cell with a frame.                                        *)
EXTENDS Naturals, Sequences

CONSTANTS
  MaxQueueSize,   \* slots of Table (100 in the code)
  MaxFrames,      \* bound: frames the capture side offers
  NULL, Fresh

ASSUME QueueAssumption ==
  /\ MaxQueueSize \in Nat \ {0}
  /\ MaxFrames \in Nat
  /\ NULL \notin Nat
  /\ Fresh \notin Nat
  /\ NULL # Fresh

VARIABLES
  table, head, tail, count,   \* the ring
  lock,       \* owner of m_csVncDataSendQ
  ppc,        \* capture thread: "idle", "store", "advance"
  offered,    \* number of the last frame given to OnVNCFrameData
  cpc,        \* SendDataThread: "peek", "send", "get", "dead"
  frame,      \* its local vncFrame, NULL before the first peek
  sent,       \* number of the last frame it sent to the end
  kill,       \* uninitServer: "no", "signalled", "joined", "drained"
  timedOut    \* a 10 s wait of uninitServer ran out

ring   == <<table, head, tail, count>>
sender == <<cpc, frame, sent>>
vars   == <<ring, lock, ppc, offered, sender, kill, timedOut>>

Index == 0 .. MaxQueueSize - 1
Frames == 1 .. MaxFrames

(* (i + 1) % MaxQueueSize for an index of the table *)
NextIndex(i) == IF i + 1 = MaxQueueSize THEN 0 ELSE i + 1

(* the slot k places after i *)
SlotAfter(i, k) == IF i + k < MaxQueueSize THEN i + k ELSE i + k - MaxQueueSize

Init ==
  /\ table = [i \in Index |-> NULL]
  /\ head = 0 /\ tail = 0 /\ count = 0
  /\ lock = "none"
  /\ ppc = "idle" /\ offered = 0
  /\ cpc = "peek" /\ frame = NULL /\ sent = 0
  /\ kill = "no" /\ timedOut = FALSE

-----------------------------------------------------------------------------
(* deque::push_back, called by OnVNCFrameData with the lock held.  A full   *)
(* ring returns 1, which the caller ignores: the frame is lost.             *)
PushFullOverwrites ==   \* mutant: a full ring overwrites its oldest frame
  /\ ppc = "idle" /\ lock = "none" /\ offered < MaxFrames
  /\ table[tail] # NULL
  /\ table' = [table EXCEPT ![tail] = offered + 1]
  /\ offered' = offered + 1
  /\ UNCHANGED <<head, tail, count, lock, ppc, sender, kill, timedOut>>

PushFull ==
  /\ ppc = "idle" /\ lock = "none" /\ offered < MaxFrames
  /\ table[tail] # NULL
  /\ offered' = offered + 1
  /\ UNCHANGED <<ring, lock, ppc, sender, kill, timedOut>>

PushAllocAlways ==   \* mutant: the slot is taken whatever it holds
  /\ ppc = "idle" /\ lock = "none" /\ offered < MaxFrames
  /\ table' = [table EXCEPT ![tail] = Fresh]
  /\ offered' = offered + 1
  /\ lock' = "capture"
  /\ ppc' = "store"
  /\ UNCHANGED <<head, tail, count, sender, kill, timedOut>>

PushAlloc ==
  /\ ppc = "idle" /\ lock = "none" /\ offered < MaxFrames
  /\ table[tail] = NULL
  /\ table' = [table EXCEPT ![tail] = Fresh]
  /\ offered' = offered + 1
  /\ lock' = "capture"
  /\ ppc' = "store"
  /\ UNCHANGED <<head, tail, count, sender, kill, timedOut>>

PushStore ==
  /\ ppc = "store"
  /\ table' = [table EXCEPT ![tail] = offered]
  /\ ppc' = "advance"
  /\ UNCHANGED <<head, tail, count, lock, offered, sender, kill, timedOut>>

PushAdvance ==
  /\ ppc = "advance"
  /\ tail' = NextIndex(tail)
  /\ count' = count + 1
  /\ ppc' = "idle"
  /\ lock' = "none"
  /\ UNCHANGED <<table, head, offered, sender, kill, timedOut>>

-----------------------------------------------------------------------------
(* deque::Peek by SendDataThread, without the lock: a slot that is Fresh    *)
(* yields a null vncFrame, which the code's if (vncFrame) passes over.      *)
Peek ==
  /\ cpc = "peek"
  /\ table[head] # NULL
  /\ IF table[head] = Fresh
       THEN /\ frame' = NULL
            /\ cpc' = "peek"
       ELSE /\ frame' = table[head]
            /\ cpc' = "send"
  /\ UNCHANGED <<ring, lock, ppc, offered, sent, kill, timedOut>>

(* sendDataToRUDP returned 0: every packet of the frame was accepted *)
SendCompleteNoGet ==   \* mutant: the frame is not removed
  /\ cpc = "send"
  /\ sent' = frame
  /\ cpc' = "peek"
  /\ UNCHANGED <<ring, lock, ppc, offered, frame, kill, timedOut>>

SendComplete ==
  /\ cpc = "send"
  /\ sent' = frame
  /\ cpc' = "get"
  /\ UNCHANGED <<ring, lock, ppc, offered, frame, kill, timedOut>>

(* it did not: the frame stays at the head and is peeked again *)
SendFailedStops ==   \* mutant: a failed send ends the thread
  /\ cpc = "send"
  /\ cpc' = "dead"
  /\ UNCHANGED <<ring, lock, ppc, offered, frame, sent, kill, timedOut>>

SendFailed ==
  /\ cpc = "send"
  /\ cpc' = "peek"
  /\ UNCHANGED <<ring, lock, ppc, offered, frame, sent, kill, timedOut>>

Pop ==
  /\ table' = [table EXCEPT ![head] = NULL]
  /\ head' = NextIndex(head)
  /\ count' = count - 1
  /\ UNCHANGED tail

(* deque::Get under the lock; an empty ring leaves vncFrame as it was, and  *)
(* the code deletes vncFrame either way                                     *)
Get ==
  /\ cpc = "get" /\ lock = "none"
  /\ IF table[head] # NULL
       THEN Pop /\ frame' = table[head]
       ELSE UNCHANGED <<ring, frame>>
  /\ cpc' = "peek"
  /\ UNCHANGED <<lock, ppc, offered, sent, kill, timedOut>>

(* the thread sees m_hKillEventSend at the top of its loop *)
SenderExits ==
  /\ cpc = "peek" /\ kill # "no"
  /\ cpc' = "dead"
  /\ UNCHANGED <<ring, lock, ppc, offered, frame, sent, kill, timedOut>>

-----------------------------------------------------------------------------
(* uninitServer: signal, wait at most 10 s for the thread, then drain.      *)
Signal ==
  /\ kill = "no"
  /\ kill' = "signalled"
  /\ UNCHANGED <<ring, lock, ppc, offered, sender, timedOut>>

JoinedEarly ==   \* mutant: no wait for the thread
  /\ kill = "signalled"
  /\ kill' = "joined"
  /\ UNCHANGED <<ring, lock, ppc, offered, sender, timedOut>>

Joined ==
  /\ kill = "signalled" /\ cpc = "dead"
  /\ kill' = "joined"
  /\ UNCHANGED <<ring, lock, ppc, offered, sender, timedOut>>

JoinTimesOut ==
  /\ kill = "signalled" /\ cpc # "dead"
  /\ kill' = "joined"
  /\ timedOut' = TRUE
  /\ UNCHANGED <<ring, lock, ppc, offered, sender>>

(* while (!m_VncDataSendQ.Get(fData)) delete fData, holding the lock; one   *)
(* Get at a time, because SendDataThread's Peek does not take the lock      *)
DrainOne ==
  /\ kill = "joined" /\ lock \in {"none", "drain"}
  /\ table[head] # NULL
  /\ Pop
  /\ lock' = "drain"
  /\ UNCHANGED <<ppc, offered, sender, kill, timedOut>>

DrainEnds ==
  /\ kill = "joined" /\ lock \in {"none", "drain"}
  /\ table[head] = NULL
  /\ lock' = "none"
  /\ kill' = "drained"
  /\ UNCHANGED <<ring, ppc, offered, sender, timedOut>>

Capture  == PushFull \/ PushAlloc \/ PushStore \/ PushAdvance
Sender   == Peek \/ SendComplete \/ SendFailed \/ Get \/ SenderExits
Shutdown == Signal \/ Joined \/ JoinTimesOut \/ DrainOne \/ DrainEnds

Next == Capture \/ Sender \/ Shutdown

Spec == Init /\ [][Next]_vars

(* Both threads run, m_Sending stays TRUE, and a link that is up time and   *)
(* again takes a whole frame in the end.  Get competes for a critical       *)
(* section that is free time and again, hence strong fairness.              *)
FairSpec ==
  /\ Spec
  /\ WF_vars(PushStore) /\ WF_vars(PushAdvance)
  /\ WF_vars(Peek) /\ SF_vars(SendComplete) /\ SF_vars(Get)

-----------------------------------------------------------------------------
TypeOK ==
  /\ table \in [Index -> Frames \cup {NULL, Fresh}]
  /\ head \in Index /\ tail \in Index
  /\ count \in 0 .. MaxQueueSize
  /\ lock \in {"none", "capture", "drain"}
  /\ ppc \in {"idle", "store", "advance"}
  /\ offered \in 0 .. MaxFrames
  /\ cpc \in {"peek", "send", "get", "dead"}
  /\ frame \in Frames \cup {NULL}
  /\ sent \in 0 .. MaxFrames
  /\ kill \in {"no", "signalled", "joined", "drained"}
  /\ timedOut \in BOOLEAN

(* The frame SendDataThread holds between its unlocked Peek and its locked  *)
(* Get is still the one at the head: what Get removes, and the code then    *)
(* deletes, is what was sent.  It is what makes the unlocked Peek of        *)
(* CCPVncServer.cpp:106 sound; a join that timed out gives it up.           *)
SentFrameAtHead ==
  ~timedOut /\ cpc \in {"send", "get"} => table[head] = frame

(* A frame sent to the end is never sent again, and frames go out in the    *)
(* order they were captured: what is in SendDataThread's hand was captured  *)
(* after everything already sent.                                           *)
SendsInOrder == cpc = "send" /\ ~timedOut => sent < frame

(* Peek never hands out a cell that push_back has allocated and not filled. *)
(* The occupied slots are the count slots from head on, plus the one        *)
(* push_back is working on.                                                 *)
pending == IF ppc \in {"store", "advance"} THEN 1 ELSE 0

OccupiedRun ==
  \A k \in Index :
    (table[SlotAfter(head, k)] # NULL) <=> k < count + pending

(* The entries of the queue, oldest first *)
contents == [k \in 1 .. count |-> table[SlotAfter(head, k - 1)]]

Fifo == INSTANCE BoundedFifo
          WITH Capacity <- MaxQueueSize, Entries <- Frames, queue <- contents

(* The ring is the bounded FIFO: steps of push_back and Get are a Put and a *)
(* Take, everything else leaves the contents alone.                         *)
RingIsFifo == Fifo!Spec

(* No frame is stuck: whatever push_back accepted leaves the queue, unless  *)
(* uninitServer stops the thread.                                           *)
EveryFrameLeaves ==
  \A n \in Frames :
    (\E k \in Index : table[k] = n) ~> (kill # "no" \/ \A k \in Index : table[k] # n)
=============================================================================
