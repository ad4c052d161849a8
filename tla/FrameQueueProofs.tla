-------------------------- MODULE FrameQueueProofs --------------------------
(* Proofs about FrameQueue, for every table size and every number of frames *)
EXTENDS FrameQueue, SequenceTheorems, TLAPS

(* The shape of the ring: the occupied slots run from head, tail is the     *)
(* first slot behind the counted ones, and the one slot beyond them that    *)
(* may be taken is the one push_back works on.                              *)
RingShape ==
  /\ OccupiedRun
  /\ tail = SlotAfter(head, count)
  /\ count + pending <= MaxQueueSize

(* What the thread holding the lock has done to the slot at tail *)
PushShape ==
  /\ ppc # "idle" => lock = "capture" /\ offered >= 1
  /\ ppc = "store" => table[tail] = Fresh
  /\ ppc = "advance" => table[tail] = offered
  /\ \A i \in Index : table[i] = Fresh => ppc = "store" /\ i = tail

(* Who is still alive after a join that did not time out *)
ShutdownShape ==
  /\ ~timedOut /\ kill \in {"joined", "drained"} => cpc = "dead"
  /\ cpc \in {"send", "get"} => frame \in Frames

IInv == TypeOK /\ RingShape /\ PushShape /\ ShutdownShape /\ SentFrameAtHead

(* An empty ring with idle threads satisfies the invariant. *)
LEMMA InitInv == Init => IInv
<1> SUFFICES ASSUME Init PROVE IInv
  OBVIOUS
<1> USE QueueAssumption DEF Init, Index, Frames
<1>1. TypeOK
  <2>1. table \in [Index -> Frames \cup {NULL, Fresh}]
    OBVIOUS
  <2>2. 0 \in Index /\ 0 \in 0 .. MaxQueueSize /\ 0 \in 0 .. MaxFrames
    OBVIOUS
  <2>3. QED
    BY <2>1, <2>2 DEF TypeOK
<1>2. RingShape
  BY DEF RingShape, OccupiedRun, SlotAfter, pending
<1>3. PushShape /\ ShutdownShape /\ SentFrameAtHead
  BY DEF PushShape, ShutdownShape, SentFrameAtHead
<1>4. QED
  BY <1>1, <1>2, <1>3 DEF IInv

(* The tail slot is free only while the ring is not full. *)
LEMMA TailFree ==
  ASSUME IInv, ppc = "idle", table[tail] = NULL
  PROVE  count < MaxQueueSize
  BY QueueAssumption
     DEF IInv, TypeOK, RingShape, OccupiedRun, SlotAfter, pending, Index

(* The head slot is taken only while the ring is not empty; a counted head  *)
(* slot is not the one push_back works on.                                  *)
LEMMA HeadTaken ==
  ASSUME IInv, table[head] # NULL, lock # "capture"
  PROVE  count >= 1 /\ ppc = "idle"
  BY QueueAssumption
     DEF IInv, TypeOK, RingShape, PushShape, OccupiedRun, SlotAfter, pending, Index

(* Removing the head keeps the ring in shape. *)
LEMMA PopKeepsShape ==
  ASSUME IInv, table[head] # NULL, lock # "capture", Pop,
         UNCHANGED <<ppc, offered>>
  PROVE  /\ RingShape' /\ PushShape'
         /\ table' \in [Index -> Frames \cup {NULL, Fresh}]
         /\ head' \in Index /\ tail' \in Index
         /\ count' \in 0 .. MaxQueueSize
<1> USE QueueAssumption DEF IInv, TypeOK, Index
<1>1. count >= 1 /\ ppc = "idle"
  BY HeadTaken
<1>2. head' \in Index /\ tail' = tail /\ count' = count - 1
      /\ table' = [table EXCEPT ![head] = NULL]
  BY DEF Pop, NextIndex
<1>3. tail' = SlotAfter(head', count')
  BY <1>1, <1>2 DEF RingShape, SlotAfter, Pop, NextIndex
<1>4. ASSUME NEW k \in Index
      PROVE  (table'[SlotAfter(head', k)] # NULL) <=> k < count'
  <2>1. CASE k + 1 < MaxQueueSize
    <3>1. SlotAfter(head', k) = SlotAfter(head, k + 1) /\ k + 1 \in Index
          /\ SlotAfter(head, k + 1) \in Index /\ SlotAfter(head, k + 1) # head
      BY <2>1 DEF SlotAfter, Pop, NextIndex
    <3>2. (table[SlotAfter(head, k + 1)] # NULL) <=> k + 1 < count
      BY <1>1, <3>1 DEF RingShape, OccupiedRun, pending
    <3>3. QED
      BY <1>1, <1>2, <3>1, <3>2
  <2>2. CASE k + 1 = MaxQueueSize
    <3>1. SlotAfter(head', k) = head
      BY <2>2 DEF SlotAfter, Pop, NextIndex
    <3>2. QED
      BY <1>1, <1>2, <2>2, <3>1
  <2>3. QED
    BY <2>1, <2>2
<1>5. RingShape'
  BY <1>1, <1>2, <1>3, <1>4 DEF RingShape, OccupiedRun, pending
<1>6. PushShape'
  BY <1>1, <1>2 DEF PushShape
<1>7. QED
  BY <1>1, <1>2, <1>5, <1>6

(* Every step preserves the invariant: one step per action. *)
LEMMA NextInv == IInv /\ [Next]_vars => IInv'
<1> SUFFICES ASSUME IInv, [Next]_vars PROVE IInv'
  OBVIOUS
<1> USE QueueAssumption
<1>1. CASE PushFull
  <2>1. UNCHANGED <<ring, lock, ppc, sender, kill, timedOut>> /\ ppc = "idle"
        /\ offered' \in 0 .. MaxFrames
    BY <1>1 DEF PushFull, IInv, TypeOK
  <2>2. QED
    BY <2>1 DEF IInv, TypeOK, RingShape, OccupiedRun, pending, PushShape,
                ShutdownShape, SentFrameAtHead, ring, sender
<1>2. CASE PushAlloc
  <2> USE <1>2 DEF PushAlloc
  <2>1. count < MaxQueueSize
    BY TailFree
  <2>2. TypeOK'
    BY DEF IInv, TypeOK, sender, Index
  <2>3. RingShape'
    <3>1. ASSUME NEW k \in Index
          PROVE  (table'[SlotAfter(head', k)] # NULL) <=> k < count' + pending'
      <4>1. SlotAfter(head, k) \in Index
            /\ (SlotAfter(head, k) = tail <=> k = count)
        BY <2>1 DEF IInv, TypeOK, RingShape, SlotAfter, Index
      <4>2. (table[SlotAfter(head, k)] # NULL) <=> k < count
        BY DEF IInv, TypeOK, RingShape, OccupiedRun, pending
      <4>3. pending' = 1 /\ count' = count /\ head' = head
        BY DEF pending
      <4>4. CASE k = count
        BY <4>1, <4>3, <4>4 DEF IInv, TypeOK
      <4>5. CASE k # count
        BY <4>1, <4>2, <4>3, <4>5 DEF IInv, TypeOK, Index
      <4>6. QED
        BY <4>4, <4>5
    <3>2. tail' = SlotAfter(head', count')
      BY DEF IInv, RingShape, SlotAfter
    <3>3. count' + pending' <= MaxQueueSize
      BY <2>1 DEF IInv, TypeOK, pending
    <3>4. QED
      BY <3>1, <3>2, <3>3 DEF RingShape, OccupiedRun
  <2>4. PushShape' /\ ShutdownShape'
    BY DEF IInv, TypeOK, PushShape, ShutdownShape, sender
  <2>5. SentFrameAtHead'
    BY DEF IInv, TypeOK, SentFrameAtHead, ShutdownShape, Frames, sender
  <2>6. QED
    BY <2>2, <2>3, <2>4, <2>5 DEF IInv
<1>3. CASE PushStore
  <2> USE <1>3 DEF PushStore
  <2>1. offered \in Frames /\ offered # NULL /\ table[tail] = Fresh /\ table[tail] # NULL
        /\ lock = "capture"
    BY DEF IInv, TypeOK, PushShape, Frames
  <2>2. TypeOK'
    BY <2>1 DEF IInv, TypeOK, sender
  <2>3. \A i \in Index : (table'[i] # NULL) <=> (table[i] # NULL)
    BY <2>1 DEF IInv, TypeOK
  <2>4. RingShape'
    <3>1. \A k \in Index : SlotAfter(head, k) \in Index
      BY DEF IInv, TypeOK, SlotAfter, Index
    <3>2. SlotAfter(head', count') = SlotAfter(head, count) /\ pending' = pending
          /\ \A k \in Index : SlotAfter(head', k) = SlotAfter(head, k)
      BY DEF SlotAfter, pending
    <3>3. QED
      BY <2>3, <3>1, <3>2 DEF IInv, RingShape, OccupiedRun
  <2>5. PushShape' /\ ShutdownShape'
    BY <2>1 DEF IInv, TypeOK, PushShape, ShutdownShape, sender
  <2>6. SentFrameAtHead'
    BY <2>1 DEF IInv, TypeOK, SentFrameAtHead, ShutdownShape, Frames, sender
  <2>7. QED
    BY <2>2, <2>4, <2>5, <2>6 DEF IInv
<1>4. CASE PushAdvance
  <2> USE <1>4 DEF PushAdvance
  <2>1. count + 1 <= MaxQueueSize
    BY DEF IInv, TypeOK, RingShape, pending
  <2>2. TypeOK'
    BY <2>1 DEF IInv, TypeOK, NextIndex, Index, sender
  <2>3. tail' = SlotAfter(head', count')
    BY <2>1 DEF IInv, TypeOK, RingShape, SlotAfter, NextIndex, Index
  <2>4. RingShape'
    BY <2>1, <2>3 DEF IInv, TypeOK, RingShape, OccupiedRun, SlotAfter, pending, Index
  <2>5. PushShape' /\ ShutdownShape' /\ SentFrameAtHead'
    BY DEF IInv, TypeOK, PushShape, ShutdownShape, SentFrameAtHead, sender
  <2>6. QED
    BY <2>2, <2>4, <2>5 DEF IInv
<1>5. CASE Peek
  BY <1>5 DEF Peek, IInv, TypeOK, RingShape, OccupiedRun, pending, PushShape,
              ShutdownShape, SentFrameAtHead, ring
<1>6. CASE SendComplete
  BY <1>6 DEF SendComplete, IInv, TypeOK, RingShape, OccupiedRun, pending, PushShape,
              ShutdownShape, SentFrameAtHead, ring, Frames
<1>7. CASE SendFailed
  BY <1>7 DEF SendFailed, IInv, TypeOK, RingShape, OccupiedRun, pending, PushShape,
              ShutdownShape, SentFrameAtHead, ring
<1>8. CASE Get
  <2> USE <1>8 DEF Get
  <2>1. CASE table[head] # NULL
    <3>1. RingShape' /\ PushShape'
          /\ table' \in [Index -> Frames \cup {NULL, Fresh}]
          /\ head' \in Index /\ tail' \in Index
          /\ count' \in 0 .. MaxQueueSize
      BY <2>1, PopKeepsShape
    <3>2. table[head] \in Frames
      BY <2>1, HeadTaken DEF IInv, PushShape, TypeOK
    <3>3. QED
      BY <2>1, <3>1, <3>2 DEF IInv, TypeOK, ShutdownShape, SentFrameAtHead
  <2>2. CASE table[head] = NULL
    BY <2>2 DEF IInv, TypeOK, RingShape, OccupiedRun, pending, PushShape,
              ShutdownShape, SentFrameAtHead, ring
  <2>3. QED
    BY <2>1, <2>2
<1>9. CASE SenderExits
  BY <1>9 DEF SenderExits, IInv, TypeOK, RingShape, OccupiedRun, pending, PushShape,
              ShutdownShape, SentFrameAtHead, ring
<1>10. CASE Signal \/ Joined \/ JoinTimesOut
  BY <1>10 DEF Signal, Joined, JoinTimesOut, IInv, TypeOK, RingShape, OccupiedRun,
              pending, PushShape, ShutdownShape, SentFrameAtHead, ring, sender
<1>11. CASE DrainOne
  <2> USE <1>11 DEF DrainOne
  <2>1. RingShape' /\ PushShape'
        /\ table' \in [Index -> Frames \cup {NULL, Fresh}]
        /\ head' \in Index /\ tail' \in Index
        /\ count' \in 0 .. MaxQueueSize
    BY PopKeepsShape
  <2>2. QED
    BY <2>1 DEF IInv, TypeOK, ShutdownShape, SentFrameAtHead, sender
<1>12. CASE DrainEnds
  BY <1>12 DEF DrainEnds, IInv, TypeOK, RingShape, OccupiedRun,
              pending, PushShape, ShutdownShape, SentFrameAtHead, ring, sender
<1>13. CASE UNCHANGED vars
  BY <1>13 DEF vars, IInv, TypeOK, RingShape, OccupiedRun,
              pending, PushShape, ShutdownShape, SentFrameAtHead, ring, sender
<1>14. QED
  BY <1>1, <1>2, <1>3, <1>4, <1>5, <1>6, <1>7, <1>8, <1>9, <1>10, <1>11, <1>12, <1>13
     DEF Next, Capture, Sender, Shutdown

(* The invariant holds in every reachable state. *)
THEOREM Invariance == Spec => []IInv
<1>1. Init => IInv
  BY InitInv
<1>2. IInv /\ [Next]_vars => IInv'
  BY NextInv
<1>3. QED
  BY <1>1, <1>2, PTL DEF Spec

(* The table, the indices and the counter stay within their ranges. *)
THEOREM Typing == Spec => []TypeOK
<1>1. IInv => TypeOK
  BY DEF IInv
<1>2. QED
  BY <1>1, Invariance, PTL

(* What the locked Get of SendDataThread removes is the frame its unlocked  *)
(* Peek returned, whatever the capture thread does in between.              *)
THEOREM PeekIsGot == Spec => []SentFrameAtHead
<1>1. IInv => SentFrameAtHead
  BY DEF IInv
<1>2. QED
  BY <1>1, Invariance, PTL

(* The occupied slots of the table are always one run from head on. *)
THEOREM NoHoles == Spec => []OccupiedRun
<1>1. IInv => OccupiedRun
  BY DEF IInv, RingShape
<1>2. QED
  BY <1>1, Invariance, PTL

-----------------------------------------------------------------------------
(* The ring as a sequence.  Entry(k) is what is k places behind the head.   *)
Entry(k) == table[SlotAfter(head, k)]

(* Every place of the ring has its own slot. *)
LEMMA SlotsDiffer ==
  ASSUME IInv, NEW j \in Index, NEW k \in Index
  PROVE  /\ SlotAfter(head, j) \in Index
         /\ SlotAfter(head, j) = SlotAfter(head, k) => j = k
BY QueueAssumption DEF IInv, TypeOK, SlotAfter, Index

(* What push_back writes at tail becomes the entry behind the counted ones. *)
LEMMA Pushed ==
  ASSUME IInv, count < MaxQueueSize, NEW x,
         table' = [table EXCEPT ![tail] = x], head' = head, NEW k \in Index
  PROVE  Entry(k)' = IF k = count THEN x ELSE Entry(k)
<1>1. count \in Index /\ tail = SlotAfter(head, count)
  BY QueueAssumption DEF IInv, TypeOK, RingShape, Index
<1>2. SlotAfter(head, k)' = SlotAfter(head, k)
  BY DEF SlotAfter
<1>3. SlotAfter(head, k) \in Index /\ (SlotAfter(head, k) = tail <=> k = count)
  BY <1>1, SlotsDiffer
<1>4. QED
  BY <1>2, <1>3 DEF Entry, IInv, TypeOK

(* Removing the head moves every entry one place forward. *)
LEMMA Popped ==
  ASSUME IInv, Pop, NEW k \in Index
  PROVE  Entry(k)' = IF k + 1 < MaxQueueSize THEN Entry(k + 1) ELSE NULL
<1> USE QueueAssumption DEF Index
<1>1. head \in Index /\ table \in [Index -> Frames \cup {NULL, Fresh}]
  BY DEF IInv, TypeOK
<1>2. head' = NextIndex(head) /\ table' = [table EXCEPT ![head] = NULL]
  BY DEF Pop
<1>3. CASE k + 1 < MaxQueueSize
  <2>1. SlotAfter(head, k)' = SlotAfter(head, k + 1)
    BY <1>1, <1>2, <1>3 DEF SlotAfter, NextIndex
  <2>2. k + 1 \in Index /\ 0 \in Index /\ SlotAfter(head, 0) = head
    BY <1>1, <1>3 DEF SlotAfter
  <2>3. SlotAfter(head, k + 1) # head /\ SlotAfter(head, k + 1) \in Index
    BY <2>2, SlotsDiffer
  <2>4. QED
    BY <1>1, <1>2, <1>3, <2>1, <2>3 DEF Entry
<1>4. CASE ~(k + 1 < MaxQueueSize)
  <2>1. SlotAfter(head, k)' = head
    BY <1>1, <1>2, <1>4 DEF SlotAfter, NextIndex
  <2>2. QED
    BY <1>1, <1>2, <1>4, <2>1 DEF Entry
<1>5. QED
  BY <1>3, <1>4

(* The counted entries are frames. *)
LEMMA CountedAreFrames ==
  ASSUME IInv, NEW k \in Index, k < count
  PROVE  Entry(k) \in Frames
<1>1. SlotAfter(head, k) \in Index
  BY SlotsDiffer
<1>2. Entry(k) # NULL
  BY <1>1 DEF IInv, RingShape, OccupiedRun, Entry, pending, TypeOK, Index
<1>3. Entry(k) = Fresh => ppc = "store" /\ SlotAfter(head, k) = SlotAfter(head, count)
  BY <1>1 DEF IInv, PushShape, RingShape, Entry
<1>4. ppc = "store" => count \in Index
  BY QueueAssumption DEF IInv, RingShape, TypeOK, pending, Index
<1>5. Entry(k) # Fresh
  BY <1>3, <1>4, SlotsDiffer DEF IInv, TypeOK, Index
<1>6. QED
  BY <1>1, <1>2, <1>5 DEF IInv, TypeOK, Entry

-----------------------------------------------------------------------------
(* Frames are numbered in the order of their capture.  The entries increase *)
(* and none is newer than the last offer; what was sent to the end is older *)
(* than every entry but the head that is about to be removed.               *)
Order ==
  /\ \A k \in Index : Entry(k) \in Frames =>
       Entry(k) <= offered /\ (ppc = "store" => Entry(k) < offered)
  /\ \A j, k \in Index :
       j < k /\ Entry(j) \in Frames /\ Entry(k) \in Frames => Entry(j) < Entry(k)
  /\ ~timedOut => sent <= offered /\ (ppc = "store" => sent < offered)
  /\ ~timedOut => \A k \in Index :
       Entry(k) \in Frames /\ (k > 0 \/ cpc # "get") => sent < Entry(k)

OInv == IInv /\ Order

(* An empty ring and nothing sent are in order. *)
LEMMA InitOrder == Init => Order
<1> SUFFICES ASSUME Init PROVE Order
  OBVIOUS
<1>1. \A k \in Index : SlotAfter(head, k) \in Index
  BY InitInv, SlotsDiffer
<1>2. \A k \in Index : Entry(k) \notin Frames
  BY <1>1, QueueAssumption DEF Init, Entry, Frames
<1>3. QED
  BY <1>2, QueueAssumption DEF Init, Order

(* Removing the head keeps the order, and nothing left is as old as what    *)
(* was at the head.                                                         *)
LEMMA PopKeepsOrder ==
  ASSUME OInv, Pop, table[head] # NULL, UNCHANGED <<ppc, offered, sent, timedOut>>
  PROVE  Order'
<1> USE QueueAssumption DEF Index
<1>1. \A k \in Index : Entry(k)' = IF k + 1 < MaxQueueSize THEN Entry(k + 1) ELSE NULL
  BY Popped DEF OInv
<1>2. NULL \notin Frames
  BY DEF Frames
<1>3. \A k \in Index : Entry(k)' \in Frames => k + 1 \in Index /\ Entry(k)' = Entry(k + 1)
  BY <1>1, <1>2
<1>4. UNCHANGED Frames
  BY DEF Frames
<1>5. (\A k \in Index : Entry(k) \in Frames =>
         Entry(k) <= offered /\ (ppc = "store" => Entry(k) < offered))'
  BY <1>3, <1>4 DEF OInv, Order
<1>6. (\A j, k \in Index :
         j < k /\ Entry(j) \in Frames /\ Entry(k) \in Frames => Entry(j) < Entry(k))'
  BY <1>3, <1>4 DEF OInv, Order
<1>7. (~timedOut => \A k \in Index :
         Entry(k) \in Frames /\ (k > 0 \/ cpc # "get") => sent < Entry(k))'
  BY <1>3, <1>4 DEF OInv, Order
<1>8. QED
  BY <1>5, <1>6, <1>7 DEF Order, OInv

(* Whatever leaves the ring alone leaves the entries alone. *)
LEMMA EntriesKept ==
  ASSUME UNCHANGED ring, NEW k \in Index
  PROVE  Entry(k)' = Entry(k)
BY DEF ring, Entry, SlotAfter

(* Every step keeps the order. *)
LEMMA NextOrder == OInv /\ [Next]_vars => Order'
<1> SUFFICES ASSUME OInv, [Next]_vars PROVE Order'
  OBVIOUS
<1>0. IInv /\ TypeOK /\ UNCHANGED Frames /\ UNCHANGED Index
  BY DEF OInv, IInv, Frames, Index
<1>1. CASE PushFull
  BY <1>0, <1>1, EntriesKept DEF PushFull, OInv, Order, TypeOK, sender, Frames
<1>2. CASE PushAlloc
  <2>1. count < MaxQueueSize
    BY <1>0, <1>2, TailFree DEF PushAlloc
  <2>2. \A k \in Index : Entry(k)' = IF k = count THEN Fresh ELSE Entry(k)
    BY <1>0, <1>2, <2>1, Pushed DEF PushAlloc
  <2>3. Fresh \notin Frames
    BY QueueAssumption DEF Frames
  <2>4. \A k \in Index : Entry(k)' \in Frames => Entry(k)' = Entry(k)
    BY <2>2, <2>3
  <2>5. QED
    BY <1>0, <1>2, <2>4 DEF PushAlloc, OInv, Order, TypeOK, sender, Frames
<1>3. CASE PushStore
  <2>1. count < MaxQueueSize
    BY <1>0, <1>3, QueueAssumption DEF PushStore, IInv, RingShape, TypeOK, pending
  <2>2. \A k \in Index : Entry(k)' = IF k = count THEN offered ELSE Entry(k)
    BY <1>0, <1>3, <2>1, Pushed DEF PushStore
  <2>3. \A k \in Index : k > count => Entry(k) = NULL
    <3> SUFFICES ASSUME NEW k \in Index, k > count PROVE Entry(k) = NULL
      OBVIOUS
    <3>1. ~(k < count + pending)
      BY <1>0, <1>3, QueueAssumption DEF PushStore, pending, TypeOK, Index
    <3>2. QED
      BY <1>0, <3>1 DEF IInv, RingShape, OccupiedRun, Entry
  <2>4. \A k \in Index : Entry(k) \in Frames => k <= count
    BY <2>3, QueueAssumption, <1>0 DEF Frames, Index, TypeOK
  <2>5. QED
    BY <1>0, <1>3, <2>2, <2>4 DEF PushStore, OInv, Order, TypeOK, sender, Frames, Index
<1>4. CASE PushAdvance
  <2>1. \A k \in Index : Entry(k)' = Entry(k)
    BY <1>4 DEF PushAdvance, Entry, SlotAfter
  <2>2. QED
    BY <1>0, <1>4, <2>1 DEF PushAdvance, OInv, Order, sender
<1>5. CASE Peek
  BY <1>0, <1>5, EntriesKept DEF Peek, OInv, Order
<1>6. CASE SendComplete
  <2>1. frame \in Frames
    BY <1>0, <1>6 DEF SendComplete, IInv, ShutdownShape
  <2>2. 0 \in Index /\ Entry(0) = table[head]
    BY <1>0, QueueAssumption DEF Index, Entry, SlotAfter, TypeOK
  <2>3. \A k \in Index : Entry(k)' = Entry(k)
    BY <1>6, EntriesKept DEF SendComplete
  <2>4. CASE ~timedOut
    <3>1. Entry(0) = frame
      BY <1>0, <1>6, <2>2, <2>4 DEF SendComplete, IInv, SentFrameAtHead
    <3>2. QED
      BY <1>0, <1>6, <2>1, <2>2, <2>3, <3>1
         DEF SendComplete, OInv, Order, TypeOK, Frames, Index
  <2>5. CASE timedOut
    BY <1>0, <1>6, <2>1, <2>3, <2>5 DEF SendComplete, OInv, Order
  <2>6. QED
    BY <2>4, <2>5
<1>7. CASE SendFailed
  BY <1>0, <1>7, EntriesKept DEF SendFailed, OInv, Order
<1>8. CASE Get
  <2>1. CASE table[head] # NULL
    BY <1>8, <2>1, PopKeepsOrder DEF Get
  <2>2. CASE table[head] = NULL
    <3>1. timedOut
      BY <1>0, <1>8, <2>2, QueueAssumption
         DEF Get, IInv, SentFrameAtHead, ShutdownShape, Frames
    <3>2. QED
      BY <1>0, <1>8, <2>2, <3>1, EntriesKept DEF Get, OInv, Order
  <2>3. QED
    BY <2>1, <2>2
<1>9. CASE SenderExits
  BY <1>0, <1>9, EntriesKept DEF SenderExits, OInv, Order
<1>10. CASE Signal \/ Joined \/ JoinTimesOut \/ DrainEnds
  BY <1>0, <1>10, EntriesKept
     DEF Signal, Joined, JoinTimesOut, DrainEnds, OInv, Order, sender
<1>11. CASE DrainOne
  BY <1>11, PopKeepsOrder DEF DrainOne, sender
<1>12. CASE UNCHANGED vars
  BY <1>0, <1>12, EntriesKept DEF vars, sender, OInv, Order
<1>13. QED
  BY <1>1, <1>2, <1>3, <1>4, <1>5, <1>6, <1>7, <1>8, <1>9, <1>10, <1>11, <1>12
     DEF Next, Capture, Sender, Shutdown

(* The frame in SendDataThread's hand is newer than every frame it has sent *)
(* to the end: nothing is sent twice or out of order.                       *)
THEOREM InOrder == Spec => []SendsInOrder
<1>1. Init => OInv
  BY InitInv, InitOrder DEF OInv
<1>2. OInv /\ [Next]_vars => OInv'
  BY NextInv, NextOrder DEF OInv
<1>3. OInv => SendsInOrder
  <2> SUFFICES ASSUME OInv, cpc = "send", ~timedOut PROVE sent < frame
    BY DEF SendsInOrder
  <2>1. 0 \in Index /\ Entry(0) = table[head]
    BY QueueAssumption DEF OInv, IInv, Index, Entry, SlotAfter, TypeOK
  <2>2. Entry(0) = frame /\ frame \in Frames
    BY <2>1 DEF OInv, IInv, SentFrameAtHead, ShutdownShape
  <2>3. QED
    BY <2>1, <2>2 DEF OInv, Order
<1>4. QED
  BY <1>1, <1>2, <1>3, PTL DEF Spec

-----------------------------------------------------------------------------
(* The counted entries, oldest first, are a sequence of frames. *)
ContentsShape ==
  /\ contents \in Seq(Frames) /\ Len(contents) = count
  /\ \A k \in 1 .. count : contents[k] = Entry(k - 1)

(* They are in every state the invariant allows. *)
LEMMA ContentsSeq == IInv => ContentsShape
<1> SUFFICES ASSUME IInv PROVE ContentsShape
  OBVIOUS
<1>1. count \in Nat /\ count <= MaxQueueSize
  BY QueueAssumption DEF IInv, TypeOK
<1>2. \A k \in 1 .. count : Entry(k - 1) \in Frames
  BY <1>1, CountedAreFrames, QueueAssumption DEF Index
<1>3. contents \in [1 .. count -> Frames]
  BY <1>2 DEF contents, Entry
<1>4. QED
  BY <1>1, <1>3 DEF ContentsShape, contents, Entry

(* They are in the state after a step too. *)
LEMMA ContentsSeqNext == IInv' => ContentsShape'
  BY ContentsSeq, PTL

(* Removing the head of the ring is a Take of the contents. *)
LEMMA PopIsTake ==
  ASSUME IInv, IInv', Pop, count >= 1
  PROVE  Fifo!Take
<1>1. /\ contents \in Seq(Frames) /\ Len(contents) = count
      /\ \A k \in 1 .. count : contents[k] = Entry(k - 1)
  BY ContentsSeq DEF ContentsShape
<1>2. /\ contents' \in Seq(Frames) /\ Len(contents') = count'
      /\ \A k \in 1 .. count' : contents'[k] = Entry(k - 1)'
  BY ContentsSeqNext DEF ContentsShape, Frames
<1>3. count' = count - 1 /\ count \in Nat /\ count <= MaxQueueSize
  BY QueueAssumption DEF Pop, IInv, TypeOK
<1>4. contents # << >>
  BY <1>1, EmptySeq
<1>5. /\ Tail(contents) \in Seq(Frames) /\ Len(Tail(contents)) = count - 1
      /\ \A k \in 1 .. count - 1 : Tail(contents)[k] = contents[k + 1]
  BY <1>1, <1>3, <1>4, HeadTailProperties
<1>6. \A k \in 1 .. count - 1 : contents'[k] = Tail(contents)[k]
  <2> SUFFICES ASSUME NEW k \in 1 .. count - 1
               PROVE  contents'[k] = Tail(contents)[k]
    OBVIOUS
  <2>1. k - 1 \in Index /\ k < MaxQueueSize /\ k + 1 \in 1 .. count
    BY <1>3, QueueAssumption DEF Index
  <2>2. Entry(k - 1)' = Entry(k)
    BY <2>1, Popped
  <2>3. QED
    BY <1>1, <1>2, <1>3, <1>5, <2>1, <2>2
<1>7. contents' = Tail(contents)
  BY <1>2, <1>3, <1>5, <1>6, SeqEqual
<1>8. QED
  BY <1>4, <1>7 DEF Fifo!Take

(* Finishing a push is a Put of the frame. *)
LEMMA AdvanceIsPut ==
  ASSUME IInv, IInv', PushAdvance
  PROVE  Fifo!Put
<1>1. /\ contents \in Seq(Frames) /\ Len(contents) = count
      /\ \A k \in 1 .. count : contents[k] = Entry(k - 1)
  BY ContentsSeq DEF ContentsShape
<1>2. /\ contents' \in Seq(Frames) /\ Len(contents') = count'
      /\ \A k \in 1 .. count' : contents'[k] = Entry(k - 1)'
  BY ContentsSeqNext DEF ContentsShape, Frames
<1>3. count' = count + 1 /\ count \in Nat /\ count < MaxQueueSize
  BY QueueAssumption DEF PushAdvance, IInv, TypeOK, RingShape, pending
<1>4. offered \in Frames
  BY QueueAssumption DEF PushAdvance, IInv, TypeOK, PushShape, Frames
<1>5. Entry(count) = offered
  BY DEF PushAdvance, IInv, RingShape, PushShape, Entry
<1>6. \A k \in Index : Entry(k)' = Entry(k)
  BY DEF PushAdvance, Entry, SlotAfter
<1>7. /\ Append(contents, offered) \in Seq(Frames)
      /\ Len(Append(contents, offered)) = count + 1
      /\ \A k \in 1 .. count : Append(contents, offered)[k] = contents[k]
      /\ Append(contents, offered)[count + 1] = offered
  BY <1>1, <1>4, AppendProperties
<1>8. \A k \in 1 .. count + 1 : contents'[k] = Append(contents, offered)[k]
  <2> SUFFICES ASSUME NEW k \in 1 .. count + 1
               PROVE  contents'[k] = Append(contents, offered)[k]
    OBVIOUS
  <2>1. k - 1 \in Index
    BY <1>3, QueueAssumption DEF Index
  <2>2. contents'[k] = Entry(k - 1)
    BY <1>2, <1>3, <1>6, <2>1
  <2>3. CASE k = count + 1
    <3>1. k - 1 = count
      BY <1>3, <2>3
    <3>2. QED
      BY <1>5, <1>7, <2>2, <2>3, <3>1
  <2>4. CASE k # count + 1
    <3>1. k \in 1 .. count
      BY <1>3, <2>4
    <3>2. QED
      BY <1>1, <1>7, <2>2, <3>1
  <2>5. QED
    BY <2>3, <2>4
<1>9. contents' = Append(contents, offered)
  BY <1>2, <1>3, <1>7, <1>8, SeqEqual
<1>10. QED
  BY <1>1, <1>3, <1>4, <1>9 DEF Fifo!Put

(* A write behind the counted entries does not show in the contents. *)
LEMMA TailWriteHidden ==
  ASSUME IInv, count < MaxQueueSize, NEW x,
         table' = [table EXCEPT ![tail] = x], UNCHANGED <<head, count>>
  PROVE  contents' = contents
<1>1. count \in Nat
  BY DEF IInv, TypeOK
<1>2. \A k \in 1 .. count : Entry(k - 1)' = Entry(k - 1)
  <2> SUFFICES ASSUME NEW k \in 1 .. count PROVE Entry(k - 1)' = Entry(k - 1)
    OBVIOUS
  <2>1. k - 1 \in Index /\ k - 1 # count
    BY <1>1, QueueAssumption DEF Index
  <2>2. QED
    BY <2>1, Pushed
<1>3. QED
  BY <1>2 DEF contents, Entry

(* Every step of the ring is a step of the bounded FIFO or leaves it alone. *)
LEMMA NextRefines == IInv /\ IInv' /\ [Next]_vars => [Fifo!Next]_contents
<1> SUFFICES ASSUME IInv, IInv', [Next]_vars PROVE [Fifo!Next]_contents
  OBVIOUS
<1>0. ASSUME UNCHANGED ring PROVE UNCHANGED contents
  BY <1>0 DEF ring, contents, SlotAfter
<1>1. CASE PushAlloc
  <2>1. count < MaxQueueSize
    BY <1>1, TailFree DEF PushAlloc
  <2>2. QED
    BY <1>1, <2>1, TailWriteHidden DEF PushAlloc
<1>2. CASE PushStore
  <2>1. count < MaxQueueSize
    BY <1>2, QueueAssumption DEF PushStore, IInv, RingShape, TypeOK, pending
  <2>2. QED
    BY <1>2, <2>1, TailWriteHidden DEF PushStore
<1>3. CASE PushAdvance
  BY <1>3, AdvanceIsPut DEF Fifo!Next
<1>4. CASE Get
  <2>1. CASE table[head] # NULL
    <3>1. Pop /\ count >= 1
      BY <1>4, <2>1, HeadTaken DEF Get
    <3>2. QED
      BY <3>1, PopIsTake DEF Fifo!Next
  <2>2. CASE table[head] = NULL
    BY <1>0, <1>4, <2>2 DEF Get
  <2>3. QED
    BY <2>1, <2>2
<1>5. CASE DrainOne
  <2>1. Pop /\ count >= 1
    BY <1>5, HeadTaken DEF DrainOne
  <2>2. QED
    BY <2>1, PopIsTake DEF Fifo!Next
<1>6. CASE PushFull \/ Peek \/ SendComplete \/ SendFailed \/ SenderExits
           \/ Signal \/ Joined \/ JoinTimesOut \/ DrainEnds \/ UNCHANGED vars
  BY <1>0, <1>6 DEF PushFull, Peek, SendComplete, SendFailed, SenderExits, Signal,
                    Joined, JoinTimesOut, DrainEnds, vars
<1>7. QED
  BY <1>1, <1>2, <1>3, <1>4, <1>5, <1>6 DEF Next, Capture, Sender, Shutdown

(* The ring, peeked at without the lock, is the bounded FIFO of BoundedFifo: *)
(* no frame is lost, made up, doubled or reordered by push_back, Get and the *)
(* drain, for every size of the table.                                       *)
THEOREM Refinement == Spec => RingIsFifo
<1>1. Init => Fifo!Init
  <2> SUFFICES ASSUME Init PROVE contents = << >>
    BY DEF Fifo!Init
  <2>1. Len(contents) = 0 /\ contents \in Seq(Frames)
    BY InitInv, ContentsSeq DEF Init, ContentsShape
  <2>2. QED
    BY <2>1, EmptySeq
<1>2. IInv /\ IInv' /\ [Next]_vars => [Fifo!Next]_contents
  BY NextRefines
<1>3. QED
  BY <1>1, <1>2, Invariance, PTL DEF Spec, RingIsFifo, Fifo!Spec
=============================================================================
