--------------------------- MODULE InputPathProofs ----------------------------
(* Proofs about ByteChannel, for every size of the ring and every length of *)
(* what is written and asked for, and about InputPath, which uses it, for   *)
(* every sequence of messages.                                              *)
EXTENDS InputPath, SequenceTheorems, TLAPS

ringVars == <<buffer, length, enqueuePos, dequeuePos, written, delivered>>

RingTypeOK ==
  /\ buffer \in [Slots -> Nat]
  /\ length \in 0 .. Size /\ enqueuePos \in Slots /\ dequeuePos \in Slots
  /\ written \in Nat /\ delivered \in Seq(Nat)

ThreadTypeOK ==
  /\ open \in BOOLEAN /\ closing \in BOOLEAN
  /\ event \in [Sides -> BOOLEAN] /\ pc \in [Sides -> Places]
  /\ left \in [Sides -> Nat]

(* What the ring holds: the bytes that were written and not yet read, in    *)
(* the slots from dequeuePos on, up to the place of the next write.         *)
RingHolds ==
  /\ enqueuePos = SlotOf(length)
  /\ written = Len(delivered) + length
  /\ \A i \in 0 .. length - 1 : buffer[SlotOf(i)] = Len(delivered) + i + 1

ChInv == RingTypeOK /\ ThreadTypeOK /\ RingHolds /\ NoLostWakeUp

(* An open, empty ring with both events set satisfies the invariant. *)
LEMMA ChInitInv == ChInit => ChInv
<1> SUFFICES ASSUME ChInit PROVE ChInv
  OBVIOUS
<1> USE ChannelAssumption DEF ChInit
<1>1. RingTypeOK
  BY DEF RingTypeOK, Slots
<1>2. ThreadTypeOK
  BY DEF ThreadTypeOK, Places
<1>3. RingHolds
  <2>1. Len(delivered) = 0
    BY EmptySeq
  <2>2. QED
    BY <2>1 DEF RingHolds, SlotOf
<1>4. NoLostWakeUp
  BY DEF NoLostWakeUp, Sides
<1>5. QED
  BY <1>1, <1>2, <1>3, <1>4 DEF ChInv

(* A step that leaves the ring alone leaves what it holds alone. *)
LEMMA RingUntouched ==
  ASSUME ChInv, UNCHANGED ringVars
  PROVE  RingTypeOK' /\ RingHolds'
  BY DEF ChInv, RingTypeOK, RingHolds, SlotOf, Slots, ringVars

-----------------------------------------------------------------------------
(* How much one copy moves: no more than is there, asked for, or fits       *)
(* before the end of the memory.                                            *)
LEMMA ReadCountBounds ==
  ASSUME ChInv
  PROVE  /\ ReadCount \in 0 .. length /\ ReadCount <= left["read"]
         /\ dequeuePos + ReadCount <= Size
<1>1. /\ length \in 0 .. Size /\ dequeuePos \in 0 .. Size - 1 /\ Size \in Nat
      /\ left["read"] \in Nat
  BY ChannelAssumption DEF ChInv, RingTypeOK, ThreadTypeOK, Slots, Sides
<1>2. QED
  BY <1>1 DEF ReadCount, Least

LEMMA WriteCountBounds ==
  ASSUME ChInv
  PROVE  /\ WriteCount \in 0 .. Size - length /\ WriteCount <= left["write"]
         /\ enqueuePos + WriteCount <= Size
<1>1. /\ length \in 0 .. Size /\ enqueuePos \in 0 .. Size - 1 /\ Size \in Nat
      /\ left["write"] \in Nat
  BY ChannelAssumption DEF ChInv, RingTypeOK, ThreadTypeOK, Slots, Sides
<1>2. QED
  BY <1>1 DEF WriteCount, Least

(* The slots a read empties are the oldest ones, those it leaves keep their *)
(* order.                                                                   *)
LEMMA ReadKeepsRing ==
  ASSUME ChInv, NEW n \in 0 .. length, dequeuePos + n <= Size, ReadBytes(n)
  PROVE  /\ RingTypeOK' /\ RingHolds'
         /\ Len(delivered') = Len(delivered) + n
         /\ \A i \in 1 .. n : buffer[dequeuePos + i - 1] = Len(delivered) + i
<1> USE ChannelAssumption DEF ChInv, RingTypeOK, Slots
<1> DEFINE chunk == [i \in 1 .. n |-> buffer[dequeuePos + i - 1]]
<1>1. chunk \in Seq(Nat) /\ Len(chunk) = n
  BY SeqDef
<1>2. delivered' = delivered \o chunk
  BY DEF ReadBytes
<1>3. delivered' \in Seq(Nat) /\ Len(delivered') = Len(delivered) + n
  BY <1>1, <1>2, ConcatProperties
<1>4. Len(delivered) \in Nat
  BY LenProperties
<1>5. /\ length' = length - n /\ dequeuePos' = Wrapped(dequeuePos + n)
      /\ UNCHANGED <<buffer, enqueuePos, written>>
  BY DEF ReadBytes
<1>6. RingTypeOK'
  BY <1>3, <1>5 DEF Wrapped
<1>7. \A i \in 0 .. length' : SlotOf(i)' = SlotOf(i + n)
  BY <1>5 DEF SlotOf, Wrapped
<1>8. enqueuePos' = SlotOf(length)'
  <2>1. length' \in 0 .. length' /\ length' + n = length
    BY <1>5
  <2>2. QED
    BY <1>7, <2>1, <1>5 DEF RingHolds, SlotOf
<1>9. written' = Len(delivered') + length'
  BY <1>3, <1>4, <1>5 DEF RingHolds
<1>10. \A i \in 0 .. length' - 1 : buffer'[SlotOf(i)'] = Len(delivered') + i + 1
  <2> SUFFICES ASSUME NEW i \in 0 .. length' - 1
               PROVE  buffer'[SlotOf(i)'] = Len(delivered') + i + 1
    OBVIOUS
  <2>1. i \in 0 .. length' /\ i + n \in 0 .. length - 1
    BY <1>5
  <2>2. buffer[SlotOf(i + n)] = Len(delivered) + (i + n) + 1
    BY <2>1 DEF RingHolds
  <2>3. QED
    BY <2>1, <2>2, <1>3, <1>4, <1>5, <1>7
<1>11. \A i \in 1 .. n : buffer[dequeuePos + i - 1] = Len(delivered) + i
  <2> SUFFICES ASSUME NEW i \in 1 .. n
               PROVE  buffer[dequeuePos + i - 1] = Len(delivered) + i
    OBVIOUS
  <2>1. i - 1 \in 0 .. length - 1 /\ SlotOf(i - 1) = dequeuePos + i - 1
    BY DEF SlotOf
  <2>2. buffer[SlotOf(i - 1)] = Len(delivered) + (i - 1) + 1
    BY <2>1 DEF RingHolds
  <2>3. QED
    BY <2>1, <2>2, <1>4
<1>12. QED
  BY <1>3, <1>6, <1>8, <1>9, <1>10, <1>11 DEF RingHolds, SlotOf

(* A write fills free slots, those behind the occupied ones. *)
LEMMA WriteKeepsRing ==
  ASSUME ChInv, NEW n \in 0 .. Size - length, enqueuePos + n <= Size,
         WriteBytes(n)
  PROVE  RingTypeOK' /\ RingHolds'
<1> USE ChannelAssumption DEF ChInv, RingTypeOK, Slots
<1>1. Len(delivered) \in Nat
  BY LenProperties
<1>2. /\ length' = length + n /\ enqueuePos' = Wrapped(enqueuePos + n)
      /\ written' = written + n /\ UNCHANGED <<dequeuePos, delivered>>
      /\ buffer' = [p \in Slots |-> IF enqueuePos <= p /\ p < enqueuePos + n
                                      THEN written + 1 + p - enqueuePos
                                      ELSE buffer[p]]
  BY DEF WriteBytes
<1>3. buffer' \in [Slots -> Nat]
  <2>1. \A p \in Slots : enqueuePos <= p => written + 1 + p - enqueuePos \in Nat
    OBVIOUS
  <2>2. QED
    BY <1>2, <2>1
<1>4. RingTypeOK'
  BY <1>2, <1>3 DEF Wrapped
<1>5. enqueuePos' = SlotOf(length)'
  BY <1>2 DEF RingHolds, SlotOf, Wrapped
<1>6. written' = Len(delivered') + length'
  BY <1>1, <1>2 DEF RingHolds
<1>7. ASSUME NEW i \in 0 .. length + n - 1
      PROVE  buffer'[SlotOf(i)] = Len(delivered) + i + 1
  <2>1. SlotOf(i) \in Slots
    BY DEF SlotOf
  <2>2. CASE i < length
    <3>1. ~(enqueuePos <= SlotOf(i) /\ SlotOf(i) < enqueuePos + n)
      BY <2>2 DEF RingHolds, SlotOf
    <3>2. buffer[SlotOf(i)] = Len(delivered) + i + 1
      BY <2>2 DEF RingHolds
    <3>3. QED
      BY <1>2, <2>1, <3>1, <3>2
  <2>3. CASE i >= length
    <3>1. SlotOf(i) = enqueuePos + (i - length)
      BY <2>3 DEF RingHolds, SlotOf
    <3>2. buffer'[SlotOf(i)] = written + 1 + (i - length)
      BY <1>2, <2>1, <2>3, <3>1
    <3>3. QED
      BY <1>1, <2>3, <3>2 DEF RingHolds
  <2>4. QED
    BY <2>2, <2>3
<1>8. \A i \in 0 .. length' - 1 : buffer'[SlotOf(i)'] = Len(delivered') + i + 1
  <2> SUFFICES ASSUME NEW i \in 0 .. length' - 1
               PROVE  buffer'[SlotOf(i)'] = Len(delivered') + i + 1
    OBVIOUS
  <2>1. i \in 0 .. length + n - 1
    BY <1>2
  <2>2. buffer'[SlotOf(i)] = Len(delivered) + i + 1
    BY <1>7, <2>1
  <2>3. SlotOf(i)' = SlotOf(i) /\ Len(delivered') = Len(delivered)
    BY <1>2 DEF SlotOf
  <2>4. QED
    BY <2>2, <2>3
<1>9. QED
  BY <1>4, <1>5, <1>6, <1>8 DEF RingHolds, SlotOf
-----------------------------------------------------------------------------
(* A thread goes to its next place; the other one stays where it is. *)
LEMMA MovedTypes ==
  ASSUME ThreadTypeOK, NEW s \in Sides, NEW n \in Nat, n <= left[s],
         Moved(s, n)
  PROVE  /\ pc' \in [Sides -> Places] /\ left' \in [Sides -> Nat]
         /\ pc'[s] # "waiting" /\ \A t \in Sides \ {s} : pc'[t] = pc[t]
<1>1. left[s] - n \in Nat
  BY DEF ThreadTypeOK
<1>2. QED
  BY <1>1 DEF ThreadTypeOK, Moved, Places

(* One step of a thread inside Read or Write keeps the invariant. *)
LEMMA ReadCopiesInv == ASSUME ChInv, ReadCopies PROVE ChInv'
<1> DEFINE n == ReadCount
<1>1. n \in 0 .. length /\ n \in Nat /\ n <= left["read"] /\ dequeuePos + n <= Size
  BY ReadCountBounds, ChannelAssumption DEF ChInv, RingTypeOK
<1>2. ReadBytes(n) /\ Moved("read", n) /\ UNCHANGED <<open, closing>>
  BY DEF ReadCopies
<1> HIDE DEF n
<1>3. RingTypeOK' /\ RingHolds'
  BY <1>1, <1>2, ReadKeepsRing
<1>4. /\ pc' \in [Sides -> Places] /\ left' \in [Sides -> Nat]
      /\ pc'["read"] # "waiting" /\ pc'["write"] = pc["write"]
  BY <1>1, <1>2, MovedTypes DEF ChInv, Sides
<1>5. ThreadTypeOK'
  BY <1>2, <1>4 DEF ChInv, ThreadTypeOK, ReadBytes
<1>6. NoLostWakeUp'
  <2>1. pc'["write"] = "waiting" /\ ~event'["write"] => length' = Size
    <3> SUFFICES ASSUME pc'["write"] = "waiting", ~event'["write"]
                 PROVE  length' = Size
      OBVIOUS
    <3>1. length # Size /\ event' = event
      BY <1>2 DEF ReadBytes, ChInv, ThreadTypeOK, Sides
    <3>2. length = Size
      BY <1>4, <3>1 DEF ChInv, NoLostWakeUp, MustWait, Sides
    <3>3. QED
      BY <3>1, <3>2
  <2>2. QED
    BY <1>4, <2>1 DEF NoLostWakeUp, MustWait, Sides
<1>7. QED
  BY <1>3, <1>5, <1>6 DEF ChInv

LEMMA WriteCopiesInv == ASSUME ChInv, WriteCopies PROVE ChInv'
<1> DEFINE n == WriteCount
<1>1. /\ n \in 0 .. Size - length /\ n \in Nat /\ n <= left["write"]
      /\ enqueuePos + n <= Size
  BY WriteCountBounds, ChannelAssumption DEF ChInv, RingTypeOK
<1>2. WriteBytes(n) /\ Moved("write", n) /\ UNCHANGED <<open, closing>>
  BY DEF WriteCopies
<1> HIDE DEF n
<1>3. RingTypeOK' /\ RingHolds'
  BY <1>1, <1>2, WriteKeepsRing
<1>4. /\ pc' \in [Sides -> Places] /\ left' \in [Sides -> Nat]
      /\ pc'["write"] # "waiting" /\ pc'["read"] = pc["read"]
  BY <1>1, <1>2, MovedTypes DEF ChInv, Sides
<1>5. ThreadTypeOK'
  BY <1>2, <1>4 DEF ChInv, ThreadTypeOK, WriteBytes
<1>6. NoLostWakeUp'
  <2>1. pc'["read"] = "waiting" /\ ~event'["read"] => length' = 0
    <3> SUFFICES ASSUME pc'["read"] = "waiting", ~event'["read"]
                 PROVE  FALSE
      OBVIOUS
    <3>1. length # 0 /\ event' = event
      BY <1>2 DEF WriteBytes, ChInv, ThreadTypeOK, Sides
    <3>2. length = 0
      BY <1>4, <3>1 DEF ChInv, NoLostWakeUp, MustWait, Sides
    <3>3. QED
      BY <3>1, <3>2
  <2>2. QED
    BY <1>4, <2>1 DEF NoLostWakeUp, MustWait, Sides
<1>7. QED
  BY <1>3, <1>5, <1>6 DEF ChInv

LEMMA MovesInv == ASSUME ChInv, NEW s \in Sides, Moves(s) PROVE ChInv'
<1>1. RingTypeOK' /\ RingHolds'
  BY RingUntouched DEF Moves, Waits, Wakes, Fails, ringVars
<1>2. ThreadTypeOK'
  BY DEF ChInv, ThreadTypeOK, Moves, Waits, Wakes, Fails, Places
<1>3. NoLostWakeUp'
  BY DEF ChInv, ThreadTypeOK, NoLostWakeUp, MustWait, Moves, Waits, Wakes, Fails
<1>4. QED
  BY <1>1, <1>2, <1>3 DEF ChInv

(* So do the beginning and the end of a call, and Close. *)
LEMMA CallReturnInv ==
  ASSUME ChInv, NEW s \in Sides, Return(s) \/ \E n \in Nat : Call(s, n)
  PROVE  ChInv'
<1>1. RingTypeOK' /\ RingHolds'
  BY RingUntouched DEF Return, Call, ringVars
<1>2. ThreadTypeOK'
  BY DEF ChInv, ThreadTypeOK, Return, Call, Places
<1>3. NoLostWakeUp'
  BY DEF ChInv, ThreadTypeOK, NoLostWakeUp, MustWait, Return, Call
<1>4. QED
  BY <1>1, <1>2, <1>3 DEF ChInv

LEMMA CloseInv == ASSUME ChInv, CloseFrees \/ CloseSignals PROVE ChInv'
<1>1. RingTypeOK' /\ RingHolds'
  BY RingUntouched DEF CloseFrees, CloseSignals, ringVars
<1>2. ThreadTypeOK'
  BY DEF ChInv, ThreadTypeOK, CloseFrees, CloseSignals
<1>3. NoLostWakeUp'
  BY DEF ChInv, ThreadTypeOK, NoLostWakeUp, MustWait, CloseFrees, CloseSignals
<1>4. QED
  BY <1>1, <1>2, <1>3 DEF ChInv

LEMMA ChNextInv == ASSUME ChInv, [ChNext]_chVars PROVE ChInv'
<1>1. CASE UNCHANGED chVars
  <2>1. RingTypeOK' /\ RingHolds'
    BY <1>1, RingUntouched DEF chVars, ringVars
  <2>2. QED
    BY <1>1, <2>1 DEF ChInv, ThreadTypeOK, NoLostWakeUp, MustWait, chVars
<1>2. ASSUME NEW s \in Sides, ChannelStep(s) PROVE ChInv'
  BY <1>2, MovesInv, ReadCopiesInv, WriteCopiesInv DEF ChannelStep
<1>3. ASSUME NEW s \in Sides, Return(s) \/ \E n \in Nat : Call(s, n) PROVE ChInv'
  BY <1>3, CallReturnInv
<1>4. CASE CloseFrees \/ CloseSignals
  BY <1>4, CloseInv
<1>5. QED
  BY <1>1, <1>2, <1>3, <1>4 DEF ChNext

(* For every size of the ring: its fields stay in their ranges and every    *)
(* occupied slot holds the byte that is due there (CQueueChannel::Read and  *)
(* Write), and no thread sleeps while it has something to do.               *)
THEOREM ChannelInvariant == ChSpec => []ChInv
<1>1. ChInit => ChInv
  BY ChInitInv
<1>2. ChInv /\ [ChNext]_chVars => ChInv'
  BY ChNextInv
<1>3. QED
  BY <1>1, <1>2, PTL DEF ChSpec

(* For every size the positions and the length of CQueueChannel stay in     *)
(* their ranges.                                                            *)
THEOREM ChannelTypeOK == ChSpec => []ChTypeOK
<1>1. ChInv => ChTypeOK
  BY DEF ChInv, RingTypeOK, ThreadTypeOK, ChTypeOK
<1>2. QED
  BY <1>1, ChannelInvariant, PTL

(* The two events carry every signal that matters, although Read and Write  *)
(* wait once only and signal only when they find the ring full or empty.    *)
THEOREM NoWakeUpIsLost == ChSpec => []NoLostWakeUp
<1>1. ChInv => NoLostWakeUp
  BY DEF ChInv
<1>2. QED
  BY <1>1, ChannelInvariant, PTL

-----------------------------------------------------------------------------
(* The ring implements the pipe. *)

(* What is inside, seen through the ring: the next bytes, in order *)
InOrder ==
  /\ Contents = [i \in 1 .. length |-> Len(delivered) + i]
  /\ Contents \in Seq(Nat) /\ Len(Contents) = length

LEMMA ContentsInOrder == RingTypeOK /\ RingHolds => InOrder
<1> SUFFICES ASSUME RingTypeOK, RingHolds PROVE InOrder
  OBVIOUS
<1> USE ChannelAssumption DEF RingTypeOK
<1>1. Len(delivered) \in Nat /\ length \in Nat
  BY LenProperties
<1>2. \A i \in 1 .. length : buffer[SlotOf(i - 1)] = Len(delivered) + i
  <2> SUFFICES ASSUME NEW i \in 1 .. length
               PROVE  buffer[SlotOf(i - 1)] = Len(delivered) + i
    OBVIOUS
  <2>1. i - 1 \in 0 .. length - 1
    BY <1>1
  <2>2. buffer[SlotOf(i - 1)] = Len(delivered) + (i - 1) + 1
    BY <2>1 DEF RingHolds
  <2>3. QED
    BY <1>1, <2>2
<1>3. Contents = [i \in 1 .. length |-> Len(delivered) + i]
  BY <1>2 DEF Contents
<1>4. Contents \in Seq(Nat) /\ Len(Contents) = length
  BY <1>1, <1>3, SeqDef
<1>5. QED
  BY <1>3, <1>4 DEF InOrder

(* the same in the state after a step *)
LEMMA ContentsStayInOrder == RingTypeOK' /\ RingHolds' => InOrder'
<1>1. RingTypeOK /\ RingHolds => InOrder
  BY ContentsInOrder
<1>2. QED
  BY <1>1, PTL

LEMMA ReadIsTake ==
  ASSUME ChInv, ReadCopies
  PROVE  \/ \E k \in 1 .. Size : Pipe!Take(k)
         \/ UNCHANGED <<Contents, delivered, open>>
<1> DEFINE n == ReadCount
<1> USE ChannelAssumption DEF ChInv
<1>1. n \in 0 .. length /\ dequeuePos + n <= Size
  BY ReadCountBounds
<1>2. ReadBytes(n) /\ open /\ open' = open
  BY DEF ReadCopies
<1> HIDE DEF n
<1>3. /\ RingTypeOK' /\ RingHolds' /\ Len(delivered') = Len(delivered) + n
      /\ \A i \in 1 .. n : buffer[dequeuePos + i - 1] = Len(delivered) + i
  BY <1>1, <1>2, ReadKeepsRing
<1>4. /\ length \in 0 .. Size /\ length' = length - n /\ Len(delivered) \in Nat
  BY <1>2, LenProperties DEF RingTypeOK, ReadBytes
<1>5. Contents = [i \in 1 .. length |-> Len(delivered) + i]
  BY ContentsInOrder DEF InOrder
<1>6. Contents' = [i \in 1 .. length - n |-> Len(delivered) + n + i]
  <2>1. Contents' = [i \in 1 .. length' |-> Len(delivered') + i]
    BY <1>3, ContentsStayInOrder DEF InOrder
  <2>2. QED
    BY <1>3, <1>4, <2>1
<1>7. delivered' = delivered \o [i \in 1 .. n |-> buffer[dequeuePos + i - 1]]
  BY <1>2 DEF ReadBytes
<1>8. delivered' = delivered \o SubSeq(Contents, 1, n)
  <2>1. SubSeq(Contents, 1, n) = [i \in 1 .. n |-> Contents[i]]
    BY <1>1, <1>4
  <2>2. \A i \in 1 .. n : Contents[i] = buffer[dequeuePos + i - 1]
    BY <1>1, <1>3, <1>4, <1>5
  <2>3. SubSeq(Contents, 1, n) = [i \in 1 .. n |-> buffer[dequeuePos + i - 1]]
    BY <2>1, <2>2
  <2>4. QED
    BY <1>7, <2>3
<1>9. Contents' = SubSeq(Contents, n + 1, length)
  <2>1. SubSeq(Contents, n + 1, length)
          = [i \in 1 .. length - n |-> Contents[n + i]]
    BY <1>1, <1>4
  <2>2. \A i \in 1 .. length - n : Contents[n + i] = Len(delivered) + n + i
    BY <1>1, <1>4, <1>5
  <2>3. QED
    BY <1>6, <2>1, <2>2
<1>10. Len(Contents) = length
  BY ContentsInOrder DEF InOrder
<1>11. CASE n = 0
  <2>1. Contents' = Contents
    BY <1>4, <1>5, <1>6, <1>11
  <2>2. delivered' = delivered
    BY <1>7, <1>11, ConcatEmptySeq DEF RingTypeOK
  <2>3. QED
    BY <1>2, <2>1, <2>2
<1>12. CASE n # 0
  <2>1. n \in 1 .. Size
    BY <1>1, <1>4, <1>12
  <2>2. n <= Len(Contents)
    BY <1>1, <1>4, <1>10
  <2>3. Pipe!Take(n)
    BY <1>2, <1>8, <1>9, <1>10, <2>2 DEF Pipe!Take
  <2>4. QED
    BY <2>1, <2>3
<1>13. QED
  BY <1>11, <1>12

LEMMA WriteIsPut ==
  ASSUME ChInv, WriteCopies
  PROVE  \/ \E k \in 1 .. Size : Pipe!Put(k)
         \/ UNCHANGED <<Contents, delivered, open>>
<1> DEFINE n == WriteCount
<1> USE ChannelAssumption DEF ChInv
<1>1. n \in 0 .. Size - length /\ enqueuePos + n <= Size
  BY WriteCountBounds
<1>2. WriteBytes(n) /\ open /\ open' = open
  BY DEF WriteCopies
<1> HIDE DEF n
<1>3. RingTypeOK' /\ RingHolds'
  BY <1>1, <1>2, WriteKeepsRing
<1>4. /\ length \in 0 .. Size /\ length' = length + n /\ delivered' = delivered
      /\ Len(delivered) \in Nat
  BY <1>2, LenProperties DEF RingTypeOK, WriteBytes
<1>5. Contents = [i \in 1 .. length |-> Len(delivered) + i] /\ Len(Contents) = length
      /\ Contents \in Seq(Nat)
  BY ContentsInOrder DEF InOrder
<1>6. Contents' = [i \in 1 .. length + n |-> Len(delivered) + i]
  <2>1. Contents' = [i \in 1 .. length' |-> Len(delivered') + i]
    BY <1>3, ContentsStayInOrder DEF InOrder
  <2>2. QED
    BY <1>4, <2>1
<1>7. CASE n = 0
  BY <1>2, <1>4, <1>5, <1>6, <1>7
<1>8. CASE n # 0
  <2> DEFINE chunk == [i \in 1 .. n |-> Len(delivered) + Len(Contents) + i]
  <2>1. n \in 1 .. Size /\ Len(Contents) + n <= Size
    BY <1>1, <1>4, <1>5, <1>8
  <2>2. chunk \in Seq(Nat) /\ Len(chunk) = n
    BY <1>4, <1>5, <2>1, SeqDef
  <2>3. Contents' \in Seq(Nat) /\ Len(Contents') = length + n
    BY <1>3, <1>4, ContentsStayInOrder DEF InOrder
  <2>4. Contents' = Contents \o chunk
    <3>1. /\ Contents \o chunk \in Seq(Nat) /\ Len(Contents \o chunk) = length + n
          /\ \A i \in 1 .. length + n : (Contents \o chunk)[i] =
                IF i <= length THEN Contents[i] ELSE chunk[i - length]
      <4> HIDE DEF chunk
      <4>1. Contents \in Seq(Nat) /\ chunk \in Seq(Nat)
        BY <1>5, <2>2
      <4>2. /\ Contents \o chunk \in Seq(Nat)
            /\ Len(Contents \o chunk) = Len(Contents) + Len(chunk)
            /\ \A i \in 1 .. Len(Contents) + Len(chunk) : (Contents \o chunk)[i] =
                  IF i <= Len(Contents) THEN Contents[i]
                                        ELSE chunk[i - Len(Contents)]
        BY <4>1, ConcatProperties, Zenon
      <4>3. QED
        BY <1>5, <2>2, <4>2, Zenon
    <3>2. \A i \in 1 .. length + n : Contents'[i] = (Contents \o chunk)[i]
      BY <1>4, <1>5, <1>6, <2>1, <3>1
    <3>3. QED
      BY <2>3, <3>1, <3>2, SeqEqual
  <2>5. Pipe!Put(n)
    BY <1>2, <1>4, <2>1, <2>4 DEF Pipe!Put
  <2>6. QED
    BY <2>1, <2>5
<1>9. QED
  BY <1>7, <1>8

(* Every other step leaves the bytes alone, or shuts the pipe. *)
LEMMA OtherStepsStutter ==
  ASSUME ChInv, UNCHANGED ringVars, open' = open \/ open' = FALSE
  PROVE  UNCHANGED <<Contents, delivered, open>> \/ Pipe!Shut
<1>1. Contents' = Contents /\ delivered' = delivered
  BY DEF Contents, SlotOf, ringVars
<1>2. CASE open' = open
  BY <1>1, <1>2
<1>3. CASE open' = FALSE
  BY <1>1, <1>3 DEF Pipe!Shut
<1>4. QED
  BY <1>2, <1>3

(* For every size: the channel is the pipe BytePipe describes. *)
THEOREM ChannelImplementsPipe == ChSpec => ChannelIsPipe
<1>1. ChInit => Pipe!PipeInit
  <2> SUFFICES ASSUME ChInit PROVE Pipe!PipeInit
    OBVIOUS
  <2>1. Contents = << >>
    BY DEF ChInit, Contents
  <2>2. QED
    BY <2>1 DEF ChInit, Pipe!PipeInit
<1>2. ChInv /\ [ChNext]_chVars => [Pipe!PipeNext]_(Pipe!pipeVars)
  <2> SUFFICES ASSUME ChInv, [ChNext]_chVars
               PROVE  Pipe!PipeNext \/ UNCHANGED <<Contents, delivered, ~open>>
    BY DEF Pipe!pipeVars
  <2>1. CASE ReadCopies
    BY <2>1, ReadIsTake DEF Pipe!PipeNext
  <2>2. CASE WriteCopies
    BY <2>2, WriteIsPut DEF Pipe!PipeNext
  <2>3. CASE UNCHANGED ringVars /\ (open' = open \/ open' = FALSE)
    <3>1. UNCHANGED <<Contents, delivered, open>> \/ Pipe!Shut
      BY <2>3, OtherStepsStutter
    <3>2. QED
      BY <3>1 DEF Pipe!PipeNext
  <2>4. CASE UNCHANGED chVars
    BY <2>3, <2>4 DEF chVars, ringVars
  <2>5. ASSUME NEW s \in Sides, Moves(s) \/ Return(s) \/ \E m \in Nat : Call(s, m)
        PROVE  UNCHANGED ringVars /\ open' = open
    BY <2>5 DEF Moves, Waits, Wakes, Fails, Return, Call, ringVars
  <2>6. CASE CloseFrees \/ CloseSignals
    BY <2>3, <2>6 DEF CloseFrees, CloseSignals, ringVars
  <2>7. QED
    BY <2>1, <2>2, <2>3, <2>4, <2>5, <2>6 DEF ChNext, ChannelStep
<1>3. QED
  BY <1>1, <1>2, ChannelInvariant, PTL DEF ChSpec, ChannelIsPipe, Pipe!PipeSpec

-----------------------------------------------------------------------------
(* InputPath: its steps on the channel are steps of the channel.            *)
(* Every step of the threads is a step of the channel or leaves it alone. *)
LEMMA StepIsChannelStep == [Next]_vars => [ChNext]_chVars
<1> SUFFICES ASSUME [Next]_vars PROVE [ChNext]_chVars
  OBVIOUS
<1>1. ASSUME NEW n, NEW s \in Sides, Call(s, n) PROVE ChNext
  <2>1. n \in Nat
    BY <1>1 DEF Call
  <2>2. QED
    BY <1>1, <2>1 DEF ChNext
<1>2. ASSUME NEW s \in Sides, Return(s) \/ ChannelStep(s) PROVE ChNext
  BY <1>2 DEF ChNext
<1>3. CASE UNCHANGED vars
  BY <1>3 DEF vars
<1>4. CASE FrameComes \/ RecvThread
  BY <1>4 DEF FrameComes, RecvThread, FrameQueued, RecvEnds
<1>5. CASE ProcessThread \/ ProcessUsesFreed
  BY <1>1, <1>2, <1>5
     DEF ProcessThread, ProcessTakes, ProcessWritten, ProcessEnds,
         ProcessUsesNull, ProcessUsesFreed, Sides
<1>6. CASE ClientThread \/ ClientLosesDesktop
  <2>1. CASE ClientLoops \/ ClientReadsOn
    BY <1>1, <2>1 DEF ClientLoops, ClientReadsOn, Sides
  <2>2. CASE ClientReadsType \/ ClientReadsPart \/ ClientFails
    BY <1>2, <2>2 DEF ClientReadsType, ClientReadsPart, ClientFails, Sides
  <2>3. CASE ClientHandles \/ ClientGoesOn \/ ClientRemoved \/ ClientLosesDesktop
    BY <2>3 DEF ClientHandles, ClientGoesOn, ClientRemoved, ClientLosesDesktop
  <2>4. CASE ClientCloses \/ ClientDeleted
    BY <2>4 DEF ClientCloses, ClientDeleted, ChNext
  <2>5. QED
    BY <1>6, <2>1, <2>2, <2>3, <2>4 DEF ClientThread
<1>7. CASE StopBegins \/ UninitServer
  BY <1>7 DEF StopBegins, UninitServer, RecvJoined, ProcessJoined,
              KillAuthClients, KillSignals, WaitUntilAuthEmpty, Drained, ChNext
<1>8. CASE ChannelSteps
  BY <1>2, <1>8 DEF ChannelSteps
<1>9. QED
  BY <1>3, <1>4, <1>5, <1>6, <1>7, <1>8 DEF Next

(* So whatever holds of the channel holds of it here. *)
THEOREM PathUsesChannel == Spec => ChSpec
<1>1. Init => ChInit
  BY DEF Init
<1>2. QED
  BY <1>1, StepIsChannelStep, PTL DEF Spec, ChSpec

(* No thread of the input path sleeps in the channel over work it has. *)
THEOREM PathNoLostWakeUp == Spec => []NoLostWakeUp
  BY PathUsesChannel, NoWakeUpIsLost, PTL

(* The client reads the bytes that were received, in order, none missing. *)
THEOREM PathChannelIsPipe == Spec => ChannelIsPipe
  BY PathUsesChannel, ChannelImplementsPipe, PTL
-----------------------------------------------------------------------------
(* A frame waits for the lock only after it has arrived, and the frame      *)
(* the client is in is one of those that were sent.                         *)
FramesKnown ==
  /\ recvPc = "adding" => arrived \in 1 .. Len(Inputs)
  /\ client = "rest" => current \in 1 .. Len(Inputs)

Handed == [frame : 1 .. Len(Inputs), first : Nat]

QueueTypes ==
  /\ recvQ \in Seq(1 .. Len(Inputs)) /\ Len(recvQ) <= RecvQSize
  /\ stream \in Seq(Handed) /\ handled \in Seq(1 .. Len(Inputs))

PlaceTypes ==
  /\ arrived \in 0 .. Len(Inputs) /\ current \in Nat /\ part \in Nat
  /\ recvPc \in {"loop", "adding", "ended"} /\ procPc \in {"loop", "writing", "ended"}
  /\ client \in ClientPlaces /\ ui \in UiPlaces

FlagTypes ==
  /\ quits \in BOOLEAN /\ hasClient \in BOOLEAN /\ crashed \in BOOLEAN
  /\ lost \in BOOLEAN /\ timedOut \subseteq {"recv", "process"}

TypeInv == QueueTypes /\ PlaceTypes /\ FlagTypes /\ FramesKnown

LEMMA TypeInit == Init => TypeInv
<1> SUFFICES ASSUME Init PROVE TypeInv
  OBVIOUS
<1> USE DEF Init
<1>1. Len(Inputs) \in Nat
  BY InputsAssumption, LenProperties
<1>2. QueueTypes
  BY EmptySeq, InputsAssumption DEF QueueTypes
<1>3. PlaceTypes
  BY <1>1 DEF PlaceTypes, ClientPlaces, UiPlaces
<1>4. FlagTypes
  BY DEF FlagTypes
<1>5. FramesKnown
  BY DEF FramesKnown
<1>6. QED
  BY <1>2, <1>3, <1>4, <1>5 DEF TypeInv

(* the bytes of a frame before one of its parts *)
Before(i, p) == IF p = 1 THEN 0 ELSE Inputs[i].ends[p - 1]

(* What the assumption says of one frame *)
LEMMA InputFacts ==
  ASSUME NEW i \in 1 .. Len(Inputs)
  PROVE  /\ Parts(i) \in Nat \ {0} /\ Bytes(i) \in Nat \ {0}
         /\ Begins(i) => Inputs[i].ends[1] = 1
         /\ Inputs[i].more \in BOOLEAN
         /\ \A p \in 1 .. Parts(i) :
              /\ Inputs[i].ends[p] \in Nat \ {0}
              /\ PartBytes(i, p) \in Nat \ {0} /\ Before(i, p) \in Nat
              /\ Inputs[i].ends[p] = Before(i, p) + PartBytes(i, p)
<1> DEFINE e == Inputs[i].ends
<1>1. Inputs \in Seq(Frame) /\ i \in DOMAIN Inputs
  BY InputsAssumption, LenProperties
<1>2. Inputs[i] \in Frame
  BY <1>1, ElementOfSeq
<1>3. e \in Seq(Nat \ {0}) /\ Inputs[i].more \in BOOLEAN
  BY <1>2 DEF Frame
<1>4. /\ e # << >> /\ (Begins(i) => e[1] = 1)
      /\ \A p \in 2 .. Len(e) : e[p - 1] < e[p]
  BY <1>1, InputsAssumption
<1>5. Len(e) \in Nat /\ Len(e) # 0
  BY <1>3, <1>4, LenProperties, EmptySeq
<1>6. \A p \in 1 .. Len(e) : e[p] \in Nat \ {0}
  BY <1>3, ElementOfSeq
<1> HIDE DEF e
<1>7. ASSUME NEW p \in 2 .. Len(e)
      PROVE  e[p] - e[p - 1] \in Nat \ {0} /\ e[p] = e[p - 1] + (e[p] - e[p - 1])
  <2>1. e[p] \in Nat /\ e[p - 1] \in Nat /\ e[p - 1] < e[p]
    <3>1. p \in 1 .. Len(e) /\ p - 1 \in 1 .. Len(e)
      BY <1>5
    <3> QED BY <3>1, <1>4, <1>6
  <2> QED BY <2>1
<1>8. Len(e) \in 1 .. Len(e)
  BY <1>5
<1>9. Parts(i) = Len(e) /\ Bytes(i) = e[Len(e)]
  BY DEF e, Parts, Bytes
<1>10. ASSUME NEW p \in 1 .. Len(e)
       PROVE  /\ PartBytes(i, p) \in Nat \ {0} /\ Before(i, p) \in Nat
              /\ e[p] = Before(i, p) + PartBytes(i, p)
  <2>1. CASE p = 1
    <3>1. PartBytes(i, p) = e[1] /\ Before(i, p) = 0 /\ e[1] \in Nat \ {0}
      BY <2>1, <1>6 DEF e, PartBytes, Before
    <3> QED BY <2>1, <3>1
  <2>2. CASE p # 1
    <3>1. p \in 2 .. Len(e) /\ p - 1 \in 1 .. Len(e)
      BY <2>2, <1>5
    <3>2. PartBytes(i, p) = e[p] - e[p - 1] /\ Before(i, p) = e[p - 1]
      BY <2>2 DEF e, PartBytes, Before
    <3> QED BY <3>1, <3>2, <1>6, <1>7
  <2> QED BY <2>1, <2>2
<1>11. /\ Begins(i) => Inputs[i].ends[1] = 1
       /\ Inputs[i].more \in BOOLEAN
  BY <1>3, <1>4 DEF e
<1>12. \A p \in 1 .. Parts(i) :
         /\ Inputs[i].ends[p] \in Nat \ {0}
         /\ PartBytes(i, p) \in Nat \ {0} /\ Before(i, p) \in Nat
         /\ Inputs[i].ends[p] = Before(i, p) + PartBytes(i, p)
  BY <1>6, <1>9, <1>10 DEF e
<1> QED BY <1>5, <1>6, <1>8, <1>9, <1>11, <1>12

(* A frame that a message goes on behind is not the last. *)
LEMMA MoreIsThere ==
  ASSUME NEW i \in 1 .. Len(Inputs), Inputs[i].more
  PROVE  i + 1 \in 1 .. Len(Inputs)
<1>1. Inputs \in Seq(Frame) /\ Len(Inputs) \in Nat
  BY InputsAssumption, LenProperties
<1>2. Inputs # << >>
  BY <1>1, EmptySeq
<1>3. i # Len(Inputs)
  BY <1>2, InputsAssumption
<1> QED BY <1>1, <1>3

(* So frames start at a byte. *)
LEMMA FirstIsNumber == ASSUME TypeInv PROVE NextFirst \in Nat
<1>1. stream \in Seq(Handed) /\ Len(stream) \in Nat
  BY LenProperties DEF TypeInv, QueueTypes
<1>2. CASE stream = << >>
  BY <1>2 DEF NextFirst
<1>3. CASE stream # << >>
  <2>1. Len(stream) \in 1 .. Len(stream)
    BY <1>1, <1>3, EmptySeq
  <2>2. stream[Len(stream)].frame \in 1 .. Len(Inputs) /\ stream[Len(stream)].first \in Nat
    <3>1. stream[Len(stream)] \in Handed
      BY <1>1, <2>1, ElementOfSeq
    <3> QED BY <3>1 DEF Handed
  <2>3. Bytes(stream[Len(stream)].frame) \in Nat
    BY <2>2, InputFacts
  <2> QED BY <1>3, <2>2, <2>3 DEF NextFirst
<1> QED BY <1>2, <1>3

(* The queues and the histories: which steps lengthen or shorten them *)
LEMMA QueueTypesNext == TypeInv /\ [Next]_vars => QueueTypes'
<1> SUFFICES ASSUME TypeInv, [Next]_vars PROVE QueueTypes'
  OBVIOUS
<1> USE DEF TypeInv, QueueTypes
<1>1. CASE UNCHANGED <<recvQ, stream, handled>>
  BY <1>1
<1>0. Len(recvQ) \in Nat /\ RecvQSize \in Nat
  BY InputsAssumption, LenProperties
<1>2. CASE FrameQueued
  <2>1. /\ UNCHANGED <<stream, handled>> /\ arrived \in 1 .. Len(Inputs)
        /\ \/ Len(recvQ) < RecvQSize /\ recvQ' = Append(recvQ, arrived)
           \/ recvQ' = recvQ
    BY <1>2 DEF FrameQueued, FramesKnown
  <2>2. /\ Append(recvQ, arrived) \in Seq(1 .. Len(Inputs))
        /\ Len(Append(recvQ, arrived)) = Len(recvQ) + 1
    BY <2>1, AppendProperties
  <2>3. CASE Len(recvQ) < RecvQSize /\ recvQ' = Append(recvQ, arrived)
    BY <1>0, <2>1, <2>2, <2>3
  <2> QED BY <2>1, <2>3
<1>3. CASE ProcessTakes
  <2>1. /\ recvQ # << >> /\ recvQ' = Tail(recvQ) /\ handled' = handled
        /\ \/ stream' = Append(stream, [frame |-> Head(recvQ), first |-> NextFirst])
           \/ stream' = stream
    BY <1>3 DEF ProcessTakes
  <2>2. /\ Head(recvQ) \in 1 .. Len(Inputs) /\ recvQ' \in Seq(1 .. Len(Inputs))
        /\ Len(recvQ') <= RecvQSize
    <3>1. /\ Head(recvQ) \in 1 .. Len(Inputs)
          /\ recvQ' \in Seq(1 .. Len(Inputs)) /\ Len(recvQ') = Len(recvQ) - 1
      BY <2>1, HeadTailProperties
    <3> QED BY <3>1, <1>0
  <2>3. stream' \in Seq(Handed)
    <3> DEFINE new == [frame |-> Head(recvQ), first |-> NextFirst]
    <3>1. new \in Handed
      BY <2>2, FirstIsNumber DEF Handed
    <3> HIDE DEF new
    <3>2. Append(stream, new) \in Seq(Handed)
      BY <3>1, AppendProperties
    <3>3. QED
      BY <2>1, <3>2 DEF new
  <2>4. QED
    BY <2>1, <2>2, <2>3
<1>4. CASE ClientHandles \/ ClientGoesOn
  BY <1>4, AppendProperties DEF ClientHandles, ClientGoesOn, FramesKnown
<1>5. CASE Drained
  BY <1>0, <1>5, EmptySeq DEF Drained, Stays
<1>6. QED
  BY <1>1, <1>2, <1>3, <1>4, <1>5
     DEF Next, vars, pathVars, FrameComes, RecvThread, RecvEnds, ProcessThread,
         ProcessWritten, ProcessEnds, ProcessUsesNull, ProcessUsesFreed,
         ClientThread, ClientLosesDesktop, ClientLoops, ClientReadsType,
         ClientReadsOn, ClientReadsPart, ClientFails, ClientRemoved,
         ClientCloses, ClientDeleted, StopBegins, UninitServer, RecvJoined,
         ProcessJoined, KillAuthClients, KillSignals, WaitUntilAuthEmpty,
         Stays, ChannelSteps

(* What the client takes for a message is one. *)
LEMMA ReadsTypeOfMessage ==
  ASSUME TypeInv, ClientReadsType
  PROVE  /\ \/ client' = "leaving" /\ quits' = TRUE /\ UNCHANGED <<current, part>>
            \/ client' = "rest" /\ quits' = quits /\ part' = 2
               /\ current' \in 1 .. Len(Inputs)
         /\ UNCHANGED <<arrived, recvQ, lost, recvPc, procPc, stream, handled,
                        hasClient, ui, timedOut, crashed>>
<1>1. /\ \/ client' = "leaving" /\ quits' = TRUE /\ UNCHANGED <<current, part>>
         \/ client' = "rest" /\ quits' = quits /\ part' = 2
            /\ current' \in DOMAIN Inputs
      /\ UNCHANGED <<arrived, recvQ, lost, recvPc, procPc, stream, handled,
                     hasClient, ui, timedOut, crashed>>
  BY DEF ClientReadsType
<1>2. DOMAIN Inputs = 1 .. Len(Inputs)
  BY InputsAssumption, LenProperties
<1> QED BY <1>1, <1>2

LEMMA PlaceTypesNext == TypeInv /\ [Next]_vars => PlaceTypes'
<1> SUFFICES ASSUME TypeInv, [Next]_vars PROVE PlaceTypes'
  OBVIOUS
<1>0. Len(Inputs) \in Nat
  BY InputsAssumption, LenProperties
<1> USE <1>0 DEF TypeInv, PlaceTypes, ClientPlaces, UiPlaces
<1>1. CASE UNCHANGED pathVars
  BY <1>1 DEF pathVars
<1>2. CASE FrameComes \/ FrameQueued \/ RecvEnds
  BY <1>2 DEF FrameComes, FrameQueued, RecvEnds
<1>3. CASE ProcessTakes \/ ProcessWritten \/ ProcessEnds
  BY <1>3 DEF ProcessTakes, ProcessWritten, ProcessEnds
<1>4. CASE ProcessUsesNull \/ ProcessUsesFreed
  BY <1>4 DEF ProcessUsesNull, ProcessUsesFreed
<1>5. CASE ClientReadsType
  <2>1. /\ current' = current \/ current' \in 1 .. Len(Inputs)
        /\ part' = part \/ part' = 2
        /\ client' = "leaving" \/ client' = "rest"
        /\ UNCHANGED <<arrived, recvPc, procPc, ui>>
    BY <1>5, ReadsTypeOfMessage, Zenon
  <2>2. QED
    BY <2>1
<1>6. CASE ClientLoops \/ ClientLosesDesktop
  BY <1>6 DEF ClientLoops, ClientLosesDesktop
<1>7. CASE ClientReadsPart \/ ClientFails
  BY <1>7 DEF ClientReadsPart, ClientFails
<1>8. CASE ClientHandles \/ ClientGoesOn
  BY <1>8 DEF ClientHandles, ClientGoesOn
<1>9. CASE ClientRemoved \/ ClientCloses \/ ClientDeleted
  BY <1>9 DEF ClientRemoved, ClientCloses, ClientDeleted
<1>10. CASE StopBegins \/ RecvJoined \/ ProcessJoined
  BY <1>10 DEF StopBegins, RecvJoined, ProcessJoined, Stays
<1>11. CASE KillAuthClients \/ KillSignals \/ WaitUntilAuthEmpty \/ Drained
  BY <1>11 DEF KillAuthClients, KillSignals, WaitUntilAuthEmpty, Drained, Stays
<1>12. QED
  BY <1>1, <1>2, <1>3, <1>4, <1>5, <1>6, <1>7, <1>8, <1>9, <1>10, <1>11
     DEF Next, vars, RecvThread, ProcessThread, ClientThread, UninitServer,
         ChannelSteps, ClientReadsOn

LEMMA FlagTypesNext == TypeInv /\ [Next]_vars => FlagTypes'
<1> SUFFICES ASSUME TypeInv, [Next]_vars PROVE FlagTypes'
  OBVIOUS
<1> USE DEF TypeInv, FlagTypes
<1>1. CASE UNCHANGED pathVars
  BY <1>1 DEF pathVars
<1>2. CASE FrameComes \/ FrameQueued \/ RecvEnds
  BY <1>2 DEF FrameComes, FrameQueued, RecvEnds
<1>3. CASE ProcessTakes \/ ProcessWritten \/ ProcessEnds
  BY <1>3 DEF ProcessTakes, ProcessWritten, ProcessEnds
<1>4. CASE ProcessUsesNull \/ ProcessUsesFreed
  BY <1>4 DEF ProcessUsesNull, ProcessUsesFreed
<1>5. CASE ClientReadsType
  BY <1>5, ReadsTypeOfMessage
<1>6. CASE ClientLoops \/ ClientLosesDesktop
  BY <1>6 DEF ClientLoops, ClientLosesDesktop
<1>7. CASE ClientReadsPart \/ ClientFails
  BY <1>7 DEF ClientReadsPart, ClientFails
<1>8. CASE ClientHandles \/ ClientGoesOn
  BY <1>8 DEF ClientHandles, ClientGoesOn
<1>9. CASE ClientRemoved \/ ClientCloses \/ ClientDeleted
  BY <1>9 DEF ClientRemoved, ClientCloses, ClientDeleted
<1>10. CASE StopBegins \/ RecvJoined \/ ProcessJoined
  BY <1>10 DEF StopBegins, RecvJoined, ProcessJoined, Stays
<1>11. CASE KillAuthClients \/ KillSignals \/ WaitUntilAuthEmpty \/ Drained
  BY <1>11 DEF KillAuthClients, KillSignals, WaitUntilAuthEmpty, Drained, Stays
<1>12. QED
  BY <1>1, <1>2, <1>3, <1>4, <1>5, <1>6, <1>7, <1>8, <1>9, <1>10, <1>11
     DEF Next, vars, RecvThread, ProcessThread, ClientThread, UninitServer,
         ChannelSteps, ClientReadsOn

LEMMA FramesKnownNext == TypeInv /\ [Next]_vars => FramesKnown'
<1> SUFFICES ASSUME TypeInv, [Next]_vars PROVE FramesKnown'
  OBVIOUS
<1>0. Len(Inputs) \in Nat
  BY InputsAssumption, LenProperties
<1> USE <1>0 DEF TypeInv, FramesKnown, PlaceTypes
<1>1. CASE UNCHANGED pathVars
  BY <1>1 DEF pathVars
<1>2. CASE FrameComes \/ FrameQueued \/ RecvEnds
  BY <1>2 DEF FrameComes, FrameQueued, RecvEnds
<1>3. CASE ProcessTakes \/ ProcessWritten \/ ProcessEnds
  BY <1>3 DEF ProcessTakes, ProcessWritten, ProcessEnds
<1>4. CASE ProcessUsesNull \/ ProcessUsesFreed
  BY <1>4 DEF ProcessUsesNull, ProcessUsesFreed
<1>5. CASE ClientReadsType
  BY <1>5, ReadsTypeOfMessage
<1>6. CASE ClientLoops \/ ClientLosesDesktop
  BY <1>6 DEF ClientLoops, ClientLosesDesktop
<1>7. CASE ClientReadsPart \/ ClientFails
  BY <1>7 DEF ClientReadsPart, ClientFails
<1>8. CASE ClientHandles \/ ClientGoesOn
  <2>1. CASE ClientGoesOn
    <3>1. current \in 1 .. Len(Inputs) /\ Inputs[current].more
      BY <2>1 DEF ClientGoesOn
    <3> QED BY <2>1, <3>1, MoreIsThere DEF ClientGoesOn
  <2> QED BY <1>8, <2>1 DEF ClientHandles
<1>9. CASE ClientRemoved \/ ClientCloses \/ ClientDeleted
  BY <1>9 DEF ClientRemoved, ClientCloses, ClientDeleted
<1>10. CASE StopBegins \/ RecvJoined \/ ProcessJoined
  BY <1>10 DEF StopBegins, RecvJoined, ProcessJoined, Stays
<1>11. CASE KillAuthClients \/ KillSignals \/ WaitUntilAuthEmpty \/ Drained
  BY <1>11 DEF KillAuthClients, KillSignals, WaitUntilAuthEmpty, Drained, Stays
<1>12. QED
  BY <1>1, <1>2, <1>3, <1>4, <1>5, <1>6, <1>7, <1>8, <1>9, <1>10, <1>11
     DEF Next, vars, RecvThread, ProcessThread, ClientThread, UninitServer,
         ChannelSteps, ClientReadsOn

LEMMA TypesHold == Spec => []TypeInv
<1>1. TypeInv /\ [Next]_vars => TypeInv'
  BY QueueTypesNext, PlaceTypesNext, FlagTypesNext, FramesKnownNext DEF TypeInv
<1>2. QED
  BY <1>1, TypeInit, PTL DEF Spec

(* Every variable of the path and of the channel keeps its type. *)
THEOREM PathTypes == Spec => []TypeOK
<1>1. TypeInv /\ ChTypeOK => TypeOK
  BY DEF TypeInv, QueueTypes, Handed, PlaceTypes, FlagTypes, PathTypeOK, TypeOK
<1>2. QED
  BY <1>1, TypesHold, PathUsesChannel, ChannelTypeOK, PTL

-----------------------------------------------------------------------------
Killing == {"killing", "waitClient", "drain", "stopped"}
Left == {"leaving", "removed", "closing", "deleted"}

(* The channel is closed, and the client leaves, only after uninitServer    *)
(* has come as far as KillAuthClients, or because the client quits; by then *)
(* ProcessDataThread has ended, or was given up.                            *)
Ending ==
  /\ procPc # "writing" => pc["write"] = "idle"
  /\ ui \in Killing \cup {"kill"} => procPc = "ended" \/ "process" \in timedOut
  /\ ~open \/ pc["read"] = "failed" \/ client \in Left => quits \/ ui \in Killing

EndInv == Ending /\ ThreadsEndFirst

LEMMA EndInit == Init => EndInv
  BY DEF Init, ChInit, EndInv, Ending, ThreadsEndFirst, Killing, Left, Sides

LEMMA EndNext == ChTypeOK /\ PathTypeOK /\ EndInv /\ [Next]_vars => EndInv'
<1> SUFFICES ASSUME ChTypeOK, PathTypeOK, EndInv, [Next]_vars PROVE EndInv'
  OBVIOUS
<1>0. pc \in [Sides -> Places] /\ quits \in BOOLEAN /\ open \in BOOLEAN
  BY DEF ChTypeOK, PathTypeOK
<1> USE <1>0 DEF EndInv, Ending, ThreadsEndFirst, Killing, Left, Sides
<1>1. CASE UNCHANGED vars
  BY <1>1 DEF vars, chVars, pathVars
<1>2. CASE FrameComes \/ RecvThread
  BY <1>2 DEF FrameComes, RecvThread, FrameQueued, RecvEnds, chVars
<1>3. CASE ProcessTakes
  BY <1>3 DEF ProcessTakes, Call, chVars
<1>4. CASE ProcessWritten \/ ProcessEnds \/ ProcessUsesNull \/ ProcessUsesFreed
  BY <1>4 DEF ProcessWritten, ProcessEnds, ProcessUsesNull, ProcessUsesFreed,
              AppServerGone, Return, chVars
<1>5. CASE ClientLoops \/ ClientReadsOn
  BY <1>5 DEF ClientLoops, ClientReadsOn, Call, pathVars
<1>6. CASE ClientReadsType
  <2>1. /\ \/ client' = "leaving" /\ quits' = TRUE
           \/ client' = "rest" /\ quits' = quits
        /\ UNCHANGED <<procPc, ui, timedOut, crashed>> /\ Return("read")
        /\ client = "type"
    BY <1>6 DEF ClientReadsType
  <2>2. QED
    BY <2>1 DEF Return
<1>7. CASE ClientReadsPart \/ ClientFails
  BY <1>7 DEF ClientReadsPart, ClientFails, Return
<1>8. CASE ClientHandles \/ ClientGoesOn \/ ClientLosesDesktop
  BY <1>8 DEF ClientHandles, ClientGoesOn, ClientLosesDesktop, chVars
<1>9. CASE ClientRemoved \/ ClientCloses \/ ClientDeleted
  BY <1>9 DEF ClientRemoved, ClientCloses, ClientDeleted, CloseFrees,
              CloseSignals, chVars
<1>10. CASE StopBegins \/ RecvJoined \/ ProcessJoined
  BY <1>10 DEF StopBegins, RecvJoined, ProcessJoined, Stays, chVars
<1>11. CASE KillAuthClients \/ KillSignals \/ WaitUntilAuthEmpty \/ Drained
  BY <1>11 DEF KillAuthClients, KillSignals, WaitUntilAuthEmpty, Drained, Stays,
               CloseFrees, CloseSignals, chVars
<1>12. CASE ChannelSteps
  <2>1. PICK s \in Sides : ChannelStep(s) /\ UNCHANGED pathVars
    BY <1>12 DEF ChannelSteps
  <2>2. /\ pc[s] # "idle" /\ \A t \in Sides \ {s} : pc'[t] = pc[t]
        /\ open' = open /\ (pc'[s] = "failed" => ~open)
    BY <2>1 DEF ChannelStep, Moves, Waits, Wakes, Fails, ReadCopies, WriteCopies,
                Moved, InSection
  <2>3. QED
    BY <2>1, <2>2 DEF pathVars
<1>13. QED
  BY <1>1, <1>2, <1>3, <1>4, <1>5, <1>6, <1>7, <1>8, <1>9, <1>10, <1>11, <1>12
     DEF Next, ProcessThread, ClientThread, UninitServer

(* For every size and every input: ProcessDataThread is never inside the    *)
(* channel when it is deleted, and never uses the AppShare server after it  *)
(* is gone, unless its join timed out or the client left by itself.         *)
THEOREM PathThreadsEndFirst == Spec => []ThreadsEndFirst
<1>1. TypeOK => ChTypeOK /\ PathTypeOK
  BY DEF TypeOK
<1>2. Spec => []EndInv
  BY <1>1, EndInit, EndNext, PathTypes, PTL DEF Spec
<1>3. EndInv => ThreadsEndFirst
  BY DEF EndInv
<1>4. QED
  BY <1>2, <1>3, PTL
-----------------------------------------------------------------------------
(* The order of the events.  What was handed to the channel are the frames  *)
(* in the order in which they came; what waits for it follows, as long as   *)
(* there is a client.                                                       *)
Waiting == IF recvPc = "adding" THEN arrived - 1 ELSE arrived

FramesInOrder ==
  /\ \A k \in 1 .. Len(stream) : stream[k].frame = k
  /\ hasClient => /\ \A i \in 1 .. Len(recvQ) : recvQ[i] = Len(stream) + i
                  /\ Len(stream) + Len(recvQ) = Waiting
  /\ AppServerGone => ~hasClient

(* the byte behind the first k frames *)
EndOf(k) == IF k = 0 THEN 1 ELSE stream[k].first + Bytes(k)

Adjoining ==
  /\ \A k \in 1 .. Len(stream) : stream[k].first = EndOf(k - 1)
  /\ \A j, k \in 1 .. Len(stream) : j < k => stream[j].first < stream[k].first

(* What the frames handed over say of their places *)
LEMMA StreamFacts ==
  ASSUME TypeInv, FramesInOrder, Adjoining
  PROVE  /\ Len(stream) \in Nat /\ Len(stream) <= Len(Inputs)
         /\ \A k \in 0 .. Len(stream) : EndOf(k) \in Nat
         /\ \A k \in 1 .. Len(stream) :
              Bytes(k) \in Nat \ {0} /\ EndOf(k) = EndOf(k - 1) + Bytes(k)
         /\ NextFirst = EndOf(Len(stream))
<1>1. stream \in Seq(Handed) /\ Len(stream) \in Nat
  BY LenProperties DEF TypeInv, QueueTypes
<1>2. \A k \in 1 .. Len(stream) : stream[k] \in Handed
  BY <1>1, ElementOfSeq
<1>3. \A k \in 1 .. Len(stream) : k \in 1 .. Len(Inputs) /\ stream[k].first \in Nat
                                  /\ stream[k].frame = k
  BY <1>2 DEF Handed, FramesInOrder
<1>4. Len(Inputs) \in Nat
  BY InputsAssumption, LenProperties
<1>5. Len(stream) <= Len(Inputs)
  BY <1>1, <1>3, <1>4
<1>6. \A k \in 1 .. Len(stream) : Bytes(k) \in Nat \ {0}
  BY <1>3, InputFacts
<1>7. \A k \in 1 .. Len(stream) : EndOf(k) = stream[k].first + Bytes(k)
  BY <1>1 DEF EndOf
<1>8. EndOf(0) = 1
  BY DEF EndOf
<1>9. \A k \in 0 .. Len(stream) : EndOf(k) \in Nat
  <2> SUFFICES ASSUME NEW k \in 0 .. Len(stream) PROVE EndOf(k) \in Nat
    OBVIOUS
  <2>1. CASE k = 0
    BY <2>1, <1>8
  <2>2. CASE k # 0
    BY <2>2, <1>1, <1>3, <1>6, <1>7
  <2> QED BY <2>1, <2>2
<1>10. \A k \in 1 .. Len(stream) : EndOf(k) = EndOf(k - 1) + Bytes(k)
  BY <1>7 DEF Adjoining
<1>11. NextFirst = EndOf(Len(stream))
  <2>1. CASE stream = << >>
    BY <2>1, <1>8, EmptySeq DEF NextFirst
  <2>2. CASE stream # << >>
    <3>1. Len(stream) \in 1 .. Len(stream)
      BY <1>1, <2>2, EmptySeq
    <3> QED BY <2>2, <3>1, <1>3, <1>7 DEF NextFirst
  <2> QED BY <2>1, <2>2
<1> QED BY <1>1, <1>5, <1>6, <1>9, <1>10, <1>11

(* A frame handed over stands behind those before it. *)
LEMMA HandOver ==
  ASSUME TypeInv, FramesInOrder, Adjoining, ProcessTakes, hasClient
  PROVE  /\ recvQ # << >> /\ recvQ' = Tail(recvQ)
         /\ Head(recvQ) = Len(stream) + 1 /\ Len(stream) + 1 <= Len(Inputs)
         /\ stream' \in Seq(Handed) /\ Len(stream') = Len(stream) + 1
         /\ \A k \in 1 .. Len(stream) : stream'[k] = stream[k]
         /\ stream'[Len(stream) + 1].frame = Len(stream) + 1
         /\ stream'[Len(stream) + 1].first = EndOf(Len(stream))
         /\ \A k \in 0 .. Len(stream) : EndOf(k)' = EndOf(k)
         /\ EndOf(Len(stream))' = EndOf(Len(stream)) + Bytes(Len(stream) + 1)
<1> DEFINE n == Len(stream)
           new == [frame |-> Head(recvQ), first |-> NextFirst]
<1>1. recvQ # << >> /\ recvQ' = Tail(recvQ) /\ stream' = Append(stream, new)
  BY DEF ProcessTakes
<1>2. recvQ \in Seq(1 .. Len(Inputs)) /\ stream \in Seq(Handed) /\ n \in Nat
  BY LenProperties DEF TypeInv, QueueTypes
<1>3. Head(recvQ) = recvQ[1] /\ Len(recvQ) \in Nat /\ Len(recvQ) # 0
      /\ Head(recvQ) \in 1 .. Len(Inputs)
  BY <1>1, <1>2, HeadTailProperties, LenProperties, EmptySeq
<1>4. Head(recvQ) = n + 1
  BY <1>2, <1>3 DEF FramesInOrder
<1>5. NextFirst = EndOf(n) /\ EndOf(n) \in Nat
  BY <1>2, StreamFacts
<1>6. new \in Handed
  BY <1>3, <1>5 DEF Handed
<1> HIDE DEF new
<1>7. /\ stream' \in Seq(Handed) /\ Len(stream') = n + 1
      /\ \A k \in 1 .. n : stream'[k] = stream[k]
      /\ stream'[n + 1] = new
  BY <1>1, <1>2, <1>6, AppendProperties
<1>8. new.frame = n + 1 /\ new.first = EndOf(n)
  BY <1>4, <1>5 DEF new
<1>9. \A k \in 0 .. n : EndOf(k)' = EndOf(k)
  BY <1>2, <1>7 DEF EndOf
<1>10. EndOf(Len(stream))' = EndOf(n) + Bytes(n + 1)
  <2>1. EndOf(Len(stream))' = stream'[n + 1].first + Bytes(n + 1)
    BY <1>2, <1>7 DEF EndOf
  <2> QED BY <2>1, <1>7, <1>8
<1>11. n + 1 <= Len(Inputs)
  BY <1>3, <1>4
<1> QED BY <1>1, <1>4, <1>7, <1>8, <1>9, <1>10, <1>11

LEMMA FramesNext ==
  ASSUME TypeInv, FramesInOrder, Adjoining, [Next]_vars, ~lost'
  PROVE  FramesInOrder' /\ Adjoining'
<1>t. /\ arrived \in Nat /\ Len(stream) \in Nat /\ Len(recvQ) \in Nat
      /\ recvQ \in Seq(1 .. Len(Inputs))
  BY LenProperties DEF TypeInv, QueueTypes, PlaceTypes
<1>1. CASE UNCHANGED <<recvQ, stream>>
  <2>1. Adjoining'
    BY <1>1 DEF Adjoining, EndOf
  <2>2. Waiting' = Waiting
    <3>1. UNCHANGED <<arrived, recvPc>> \/ FrameComes \/ RecvEnds \/ FrameQueued
      BY DEF Next, vars, pathVars, RecvThread, ProcessThread,
         ProcessTakes, ProcessWritten, ProcessEnds, ProcessUsesNull, ProcessUsesFreed,
         ClientThread, ClientLosesDesktop, ClientLoops, ClientReadsType,
         ClientReadsOn, ClientReadsPart, ClientGoesOn, ClientHandles, ClientFails, ClientRemoved,
         ClientCloses, ClientDeleted, StopBegins, UninitServer, RecvJoined,
         ProcessJoined, KillAuthClients, KillSignals, WaitUntilAuthEmpty, Drained,
         Stays, ChannelSteps
    <3>2. CASE FrameComes \/ RecvEnds
      BY <1>t, <3>2 DEF FrameComes, RecvEnds, Waiting
    <3>3. CASE FrameQueued
      <4>1. Len(recvQ') = Len(recvQ) + 1
        <5>1. recvQ' = Append(recvQ, arrived) /\ arrived \in 1 .. Len(Inputs)
          BY <3>3 DEF FrameQueued, TypeInv, FramesKnown
        <5> QED BY <1>t, <5>1, AppendProperties
      <4> QED BY <4>1, <1>1, <1>t
    <3> QED BY <3>1, <3>2, <3>3 DEF Waiting
  <2>3. hasClient' => hasClient
    BY DEF Next, vars, pathVars, FrameComes, RecvThread, RecvEnds, FrameQueued,
         ProcessThread, ProcessTakes, ProcessWritten, ProcessEnds, ProcessUsesNull, ProcessUsesFreed,
         ClientThread, ClientLosesDesktop, ClientLoops, ClientReadsType,
         ClientReadsOn, ClientReadsPart, ClientGoesOn, ClientHandles, ClientFails, ClientRemoved,
         ClientCloses, ClientDeleted, StopBegins, UninitServer, RecvJoined,
         ProcessJoined, KillAuthClients, KillSignals, WaitUntilAuthEmpty, Drained,
         Stays, ChannelSteps
  <2>4. AppServerGone' => AppServerGone \/ ~hasClient
    BY DEF Next, vars, pathVars, FrameComes, RecvThread, RecvEnds, FrameQueued,
         ProcessThread, ProcessTakes, ProcessWritten, ProcessEnds, ProcessUsesNull, ProcessUsesFreed,
         ClientThread, ClientLosesDesktop, ClientLoops, ClientReadsType,
         ClientReadsOn, ClientReadsPart, ClientGoesOn, ClientHandles, ClientFails, ClientRemoved,
         ClientCloses, ClientDeleted, StopBegins, UninitServer, RecvJoined,
         ProcessJoined, KillAuthClients, KillSignals, WaitUntilAuthEmpty, Drained,
         Stays, ChannelSteps, AppServerGone
  <2> QED BY <1>1, <2>1, <2>2, <2>3, <2>4 DEF FramesInOrder
<1>2. CASE FrameQueued
  <2>1. /\ recvPc = "adding" /\ recvPc' = "loop" /\ recvQ' = Append(recvQ, arrived)
        /\ UNCHANGED <<arrived, stream, hasClient, ui>>
    BY <1>2 DEF FrameQueued
  <2>2. arrived \in 1 .. Len(Inputs)
    BY <2>1 DEF TypeInv, FramesKnown
  <2>3. /\ Len(recvQ') = Len(recvQ) + 1
        /\ \A i \in 1 .. Len(recvQ) : recvQ'[i] = recvQ[i]
        /\ recvQ'[Len(recvQ) + 1] = arrived
    BY <1>t, <2>1, <2>2, AppendProperties
  <2>4. Waiting = arrived - 1 /\ Waiting' = arrived
    BY <2>1 DEF Waiting
  <2>5. Adjoining'
    BY <2>1 DEF Adjoining, EndOf
  <2>6. hasClient => \A i \in 1 .. Len(recvQ') : recvQ'[i] = Len(stream) + i
    <3> SUFFICES ASSUME hasClient, NEW i \in 1 .. Len(recvQ')
                 PROVE  recvQ'[i] = Len(stream) + i
      OBVIOUS
    <3>0. /\ \A j \in 1 .. Len(recvQ) : recvQ[j] = Len(stream) + j
          /\ Len(stream) + Len(recvQ) = Waiting
      BY DEF FramesInOrder
    <3>1. arrived = Len(stream) + (Len(recvQ) + 1)
      BY <1>t, <2>4, <3>0
    <3>2. i \in 1 .. Len(recvQ) \/ i = Len(recvQ) + 1
      BY <1>t, <2>3
    <3> QED BY <3>0, <3>1, <3>2, <2>3
  <2>7. hasClient => Len(stream) + Len(recvQ') = arrived
    BY <1>t, <2>3, <2>4 DEF FramesInOrder
  <2> QED BY <2>1, <2>4, <2>5, <2>6, <2>7 DEF FramesInOrder, AppServerGone
<1>3. CASE ProcessTakes
  <2>1. /\ UNCHANGED <<arrived, recvPc, hasClient, ui>>
        /\ recvQ # << >> /\ recvQ' = Tail(recvQ) /\ (~hasClient => UNCHANGED stream)
    BY <1>3 DEF ProcessTakes
  <2>2. CASE ~hasClient
    <3>1. Adjoining'
      BY <2>1, <2>2 DEF Adjoining, EndOf
    <3> QED BY <2>1, <2>2, <3>1 DEF FramesInOrder
  <2>3. CASE hasClient
    <3> DEFINE n == Len(stream)
    <3>1. /\ Head(recvQ) = n + 1
          /\ Len(stream') = n + 1
          /\ \A k \in 1 .. n : stream'[k] = stream[k]
          /\ stream'[n + 1].frame = n + 1 /\ stream'[n + 1].first = EndOf(n)
          /\ \A k \in 0 .. n : EndOf(k)' = EndOf(k)
      BY <1>3, <2>3, HandOver
    <3>2. Len(recvQ') = Len(recvQ) - 1 /\ \A i \in 1 .. Len(recvQ') : recvQ'[i] = recvQ[i + 1]
      BY <1>t, <2>1, HeadTailProperties
    <3>3. /\ \A i \in 1 .. Len(recvQ) : recvQ[i] = n + i
          /\ n + Len(recvQ) = Waiting
      BY <2>3 DEF FramesInOrder
    <3>4. Waiting' = Waiting
      BY <2>1 DEF Waiting
    <3>5. \A k \in 1 .. Len(stream') : stream'[k].frame = k
      BY <1>t, <3>1 DEF FramesInOrder
    <3>6. \A i \in 1 .. Len(recvQ') : recvQ'[i] = Len(stream') + i
      BY <1>t, <3>1, <3>2, <3>3
    <3>7. Len(stream') + Len(recvQ') = Waiting'
      BY <1>t, <3>1, <3>2, <3>3, <3>4
    <3>8. FramesInOrder'
      BY <2>1, <3>5, <3>6, <3>7 DEF FramesInOrder, AppServerGone
    <3>9. \A k \in 1 .. Len(stream') : k - 1 \in 0 .. n /\ stream'[k].first = EndOf(k - 1)
      BY <1>t, <3>1 DEF Adjoining
    <3>10. \A k \in 1 .. Len(stream') : EndOf(k - 1)' = EndOf(k - 1)
      BY <3>1, <3>9
    <3>11. \A j \in 1 .. n : stream[j].first < EndOf(n) /\ stream[j].first \in Nat
      <4> SUFFICES ASSUME NEW j \in 1 .. n
                   PROVE  stream[j].first < EndOf(n) /\ stream[j].first \in Nat
        OBVIOUS
      <4>1. /\ EndOf(n) = EndOf(n - 1) + Bytes(n) /\ Bytes(n) \in Nat \ {0}
            /\ EndOf(n - 1) \in Nat /\ EndOf(j - 1) \in Nat
        BY <1>t, StreamFacts
      <4>2. stream[n].first = EndOf(n - 1) /\ stream[j].first = EndOf(j - 1)
        BY <1>t DEF Adjoining
      <4>3. j = n \/ stream[j].first < stream[n].first
        BY <1>t DEF Adjoining
      <4> QED BY <4>1, <4>2, <4>3
    <3>12. ASSUME NEW j \in 1 .. n + 1, NEW k \in 1 .. n + 1, j < k
           PROVE  stream'[j].first < stream'[k].first
      <4>1. j \in 1 .. n
        BY <1>t, <3>12
      <4>2. CASE k \in 1 .. n
        BY <3>1, <3>12, <4>1, <4>2 DEF Adjoining
      <4>3. CASE k \notin 1 .. n
        <5>1. k = n + 1
          BY <1>t, <4>3
        <5> QED BY <3>1, <3>11, <4>1, <5>1
      <4> QED BY <4>2, <4>3
    <3>13. Adjoining'
      BY <3>1, <3>9, <3>10, <3>12 DEF Adjoining
    <3> QED BY <3>8, <3>13
  <2> QED BY <2>2, <2>3
<1>4. CASE Drained
  <2>1. ui = "drain" /\ ui' = "stopped" /\ UNCHANGED <<stream, hasClient>>
    BY <1>4 DEF Drained, Stays
  <2>2. ~hasClient
    BY <2>1 DEF FramesInOrder, AppServerGone
  <2>3. Adjoining'
    BY <2>1 DEF Adjoining, EndOf
  <2> QED BY <2>1, <2>2, <2>3 DEF FramesInOrder
<1> QED
  BY <1>1, <1>2, <1>3, <1>4
     DEF Next, vars, pathVars, FrameComes, RecvThread, RecvEnds, ProcessThread,
         ProcessWritten, ProcessEnds, ProcessUsesNull, ProcessUsesFreed,
         ClientThread, ClientLosesDesktop, ClientLoops, ClientReadsType,
         ClientReadsOn, ClientReadsPart, ClientGoesOn, ClientHandles, ClientFails, ClientRemoved,
         ClientCloses, ClientDeleted, StopBegins, UninitServer, RecvJoined,
         ProcessJoined, KillAuthClients, KillSignals, WaitUntilAuthEmpty,
         Stays, ChannelSteps

-----------------------------------------------------------------------------
(* The writer: as long as the channel is open it has written what it was    *)
(* handed but what it has left; a call that returned has left nothing.      *)
WrittenSoFar ==
  /\ written < EndOf(Len(stream))
  /\ open => written + left["write"] + 1 = EndOf(Len(stream))
  /\ pc["write"] = "done" => left["write"] = 0
  /\ pc["write"] = "failed" => ~open
  /\ pc["write"] = "idle" /\ open => left["write"] = 0
  /\ procPc # "writing" => pc["write"] = "idle"

(* Nothing of the writer's has changed but that the channel may be closed. *)
WriterStays ==
  /\ written' = written /\ stream' = stream /\ procPc' = procPc
  /\ pc'["write"] = pc["write"] /\ left'["write"] = left["write"]
  /\ open' = open \/ open' = FALSE

LEMMA WriterNext ==
  ASSUME ChInv, TypeInv, FramesInOrder, Adjoining, WrittenSoFar, [Next]_vars
  PROVE  WrittenSoFar'
<1>t. /\ written \in Nat /\ left \in [Sides -> Nat] /\ pc \in [Sides -> Places]
      /\ open \in BOOLEAN /\ left["write"] \in Nat /\ "write" \in Sides /\ "read" \in Sides
  BY DEF ChInv, RingTypeOK, ThreadTypeOK, Sides
<1>s. Len(stream) \in Nat /\ EndOf(Len(stream)) \in Nat
  <2>1. Len(stream) \in Nat /\ \A k \in 0 .. Len(stream) : EndOf(k) \in Nat
    BY StreamFacts
  <2> QED BY <2>1
<1>e. stream' = stream => EndOf(Len(stream))' = EndOf(Len(stream))
  BY DEF EndOf
<1>1. CASE WriterStays
  BY <1>1, <1>e DEF WriterStays, WrittenSoFar
<1>2. CASE ProcessTakes
  <2>1. CASE ~hasClient
    BY <1>1, <1>2, <2>1 DEF ProcessTakes, WriterStays, chVars
  <2>2. CASE hasClient
    <3>1. /\ pc["write"] = "idle" /\ procPc' = "writing"
          /\ pc'["write"] = "calling" /\ left'["write"] = Bytes(Head(recvQ))
          /\ UNCHANGED <<written, open>>
      BY <1>2, <2>2, <1>t DEF ProcessTakes, Call
    <3>2. /\ Head(recvQ) = Len(stream) + 1 /\ Len(stream) + 1 <= Len(Inputs)
          /\ EndOf(Len(stream))' = EndOf(Len(stream)) + Bytes(Len(stream) + 1)
      BY <1>2, <2>2, HandOver
    <3>3. Bytes(Len(stream) + 1) \in Nat \ {0}
      <4>1. Len(stream) + 1 \in 1 .. Len(Inputs)
        BY <1>s, <3>2, InputsAssumption, LenProperties
      <4> QED BY <4>1, InputFacts
    <3>4. written < EndOf(Len(stream))'
      BY <1>t, <1>s, <3>2, <3>3 DEF WrittenSoFar
    <3>5. open => written + left'["write"] + 1 = EndOf(Len(stream))'
      <4>1. open => written + 1 = EndOf(Len(stream))
        BY <1>t, <3>1 DEF WrittenSoFar
      <4> QED BY <1>t, <1>s, <4>1, <3>1, <3>2, <3>3
    <3> QED BY <3>1, <3>4, <3>5 DEF WrittenSoFar
  <2> QED BY <2>1, <2>2
<1>3. CASE ProcessWritten
  <2>1. /\ pc["write"] \in {"done", "failed"} /\ pc'["write"] = "idle"
        /\ UNCHANGED <<written, open, left, stream>>
    BY <1>3, <1>t DEF ProcessWritten, Return
  <2> QED BY <2>1, <1>e DEF WrittenSoFar
<1>4. CASE ProcessEnds
  <2>1. procPc = "loop" /\ UNCHANGED <<written, open, left, pc, stream>>
    BY <1>4 DEF ProcessEnds, chVars
  <2> QED BY <2>1, <1>e DEF WrittenSoFar
<1>5. CASE WriteCopies /\ UNCHANGED pathVars
  <2> DEFINE n == WriteCount
  <2>1. /\ open /\ open' = open /\ written' = written + n
        /\ left'["write"] = left["write"] - n /\ n \in Nat /\ n <= left["write"]
        /\ pc'["write"] = IF left["write"] = n THEN "done" ELSE "calling"
        /\ pc["write"] # "idle"
    BY <1>5, <1>t, WriteCountBounds DEF WriteCopies, WriteBytes, Moved, InSection
  <2>2. UNCHANGED <<stream, procPc>>
    BY <1>5 DEF pathVars
  <2> HIDE DEF n
  <2>3. written + left["write"] + 1 = EndOf(Len(stream))
    BY <2>1 DEF WrittenSoFar
  <2>4. /\ written' + left'["write"] + 1 = EndOf(Len(stream))
        /\ written' < EndOf(Len(stream))
    BY <1>t, <1>s, <2>1, <2>3
  <2>5. pc'["write"] = "done" => left'["write"] = 0
    BY <1>t, <2>1
  <2>6. procPc = "writing"
    BY <2>1 DEF WrittenSoFar
  <2>7. pc'["write"] # "failed" /\ pc'["write"] # "idle"
    BY <2>1
  <2> QED BY <1>e, <2>1, <2>2, <2>4, <2>5, <2>6, <2>7 DEF WrittenSoFar
<1>6. CASE Moves("write") /\ UNCHANGED pathVars
  <2>1. /\ UNCHANGED <<written, open, left, stream, procPc>>
        /\ pc["write"] # "idle"
        /\ \/ pc'["write"] \in {"waiting", "woken"}
           \/ pc'["write"] = "failed" /\ ~open
    BY <1>6, <1>t DEF Moves, Waits, Wakes, Fails, InSection, pathVars
  <2> QED BY <2>1, <1>e DEF WrittenSoFar
<1>7. ASSUME Return("read") \/ Moves("read") \/ ReadCopies
             \/ \E n : Call("read", n)
      PROVE  pc'["write"] = pc["write"] /\ left'["write"] = left["write"]
             /\ UNCHANGED <<written, open>>
  BY <1>7, <1>t DEF Call, Return, Moves, Waits, Wakes, Fails, ReadCopies, ReadBytes, Moved
<1>8. CASE ChannelSteps
  <2>1. CASE (Moves("read") \/ ReadCopies) /\ UNCHANGED pathVars
    BY <1>1, <1>7, <2>1 DEF WriterStays, pathVars
  <2> QED BY <1>5, <1>6, <1>8, <2>1 DEF ChannelSteps, ChannelStep, Sides
<1>9. CASE ClientThread
  <2>1. CASE ClientLoops \/ ClientReadsType \/ ClientReadsOn \/ ClientReadsPart \/ ClientFails
    <3>1. UNCHANGED <<stream, procPc>>
      BY <2>1 DEF ClientLoops, ClientReadsType, ClientReadsOn, ClientReadsPart, ClientFails, pathVars
    <3>2. Return("read") \/ \E n : Call("read", n)
      BY <2>1 DEF ClientLoops, ClientReadsType, ClientReadsOn, ClientReadsPart, ClientFails
    <3> QED BY <1>1, <1>7, <3>1, <3>2 DEF WriterStays
  <2> QED BY <1>1, <1>9, <2>1
        DEF ClientThread, ClientGoesOn, ClientHandles, ClientRemoved, ClientCloses, ClientDeleted,
            CloseFrees, CloseSignals, WriterStays, chVars
<1>10. CASE FrameComes \/ RecvThread \/ ProcessUsesNull \/ ProcessUsesFreed
            \/ ClientLosesDesktop \/ UNCHANGED vars
  BY <1>1, <1>10 DEF FrameComes, RecvThread, RecvEnds, FrameQueued, ProcessUsesNull,
     ProcessUsesFreed, ClientLosesDesktop, WriterStays, chVars, pathVars, vars
<1>11. CASE StopBegins \/ UninitServer
  BY <1>1, <1>11 DEF StopBegins, UninitServer, RecvJoined, ProcessJoined, KillAuthClients,
     KillSignals, WaitUntilAuthEmpty, Drained, Stays, CloseFrees, CloseSignals,
     WriterStays, chVars
<1> QED
  BY <1>2, <1>3, <1>4, <1>8, <1>9, <1>10, <1>11 DEF Next, ProcessThread
-----------------------------------------------------------------------------
(* The reader gets the bytes in order. *)
Numbered == \A i \in 1 .. Len(delivered) : delivered[i] = i

LEMMA NumberedNext == ASSUME ChInv, Numbered, [ChNext]_chVars PROVE Numbered'
<1>1. CASE ReadCopies
  <2> DEFINE n == ReadCount
             chunk == [i \in 1 .. n |-> buffer[dequeuePos + i - 1]]
  <2>1. n \in 0 .. length /\ dequeuePos + n <= Size
    BY ReadCountBounds
  <2>2. /\ ReadBytes(n) /\ delivered' = delivered \o chunk
    BY <1>1 DEF ReadCopies, ReadBytes
  <2>3. \A i \in 1 .. n : buffer[dequeuePos + i - 1] = Len(delivered) + i
    BY <2>1, <2>2, ReadKeepsRing
  <2>4. buffer \in [Slots -> Nat] /\ delivered \in Seq(Nat) /\ n \in Nat /\ Len(delivered) \in Nat
    BY <2>1, LenProperties, ChannelAssumption DEF ChInv, RingTypeOK
  <2> HIDE DEF n
  <2>5. \A i \in 1 .. n : chunk[i] = Len(delivered) + i
    BY <2>3
  <2>6. chunk \in Seq(Nat) /\ Len(chunk) = n
    <3>1. \A i \in 1 .. n : buffer[dequeuePos + i - 1] \in Nat
      BY <2>3, <2>4
    <3> QED BY <2>4, <3>1, SeqDef
  <2> HIDE DEF chunk
  <2>7. /\ Len(delivered') = Len(delivered) + n
        /\ \A i \in 1 .. Len(delivered) : delivered'[i] = delivered[i]
        /\ \A i \in 1 .. n : delivered'[Len(delivered) + i] = chunk[i]
    <3>1. /\ Len(delivered \o chunk) = Len(delivered) + Len(chunk)
          /\ \A i \in 1 .. Len(delivered) : (delivered \o chunk)[i] = delivered[i]
          /\ \A i \in 1 .. Len(chunk) : (delivered \o chunk)[Len(delivered) + i] = chunk[i]
      <4>1. /\ Len(delivered \o chunk) = Len(delivered) + Len(chunk)
            /\ \A i \in 1 .. Len(delivered) + Len(chunk) :
                 (delivered \o chunk)[i] = IF i <= Len(delivered) THEN delivered[i]
                                                                 ELSE chunk[i - Len(delivered)]
        BY <2>4, <2>6, ConcatProperties
      <4>2. Len(delivered) \in Nat /\ Len(chunk) \in Nat
        BY <2>4, <2>6
      <4> QED BY <4>1, <4>2
    <3>2. delivered' = delivered \o chunk
      BY <2>2
    <3> QED BY <3>1, <3>2, <2>6, Zenon
  <2>8. ASSUME NEW i \in 1 .. Len(delivered') PROVE delivered'[i] = i
    <3>1. CASE i \in 1 .. Len(delivered)
      BY <2>7, <3>1 DEF Numbered
    <3>2. CASE i \notin 1 .. Len(delivered)
      <4>1. PICK k \in 1 .. n : i = Len(delivered) + k
        <5>1. i - Len(delivered) \in 1 .. n /\ i = Len(delivered) + (i - Len(delivered))
          BY <2>4, <2>7, <3>2
        <5> QED BY <5>1
      <4> QED BY <2>5, <2>7, <4>1
    <3> QED BY <3>1, <3>2
  <2> QED BY <2>8 DEF Numbered
<1>2. CASE UNCHANGED delivered
  BY <1>2 DEF Numbered
<1> QED
  BY <1>1, <1>2 DEF ChNext, chVars, ChannelStep, Moves, Waits, Wakes, Fails, Return, Call,
     WriteCopies, WriteBytes, CloseFrees, CloseSignals

(* The client: the messages carried out are the first ones, and it stands   *)
(* where what it reads now begins.  Of a closed channel nothing more is     *)
(* read, and it need not stand anywhere.                                    *)
Reads == pc["read"] = "done" \/ open
Stand == Len(delivered) + left["read"]
Behind == EndOf(Len(handled))

InMessage ==
  /\ current = Len(handled) + 1 /\ (part > 1 => current <= Len(stream))
  /\ part \in 1 .. Parts(current) + 1
  /\ pc["read"] = "idle" /\ open => Stand + 1 = Behind + Before(current, part)
  /\ pc["read"] # "idle" => part <= Parts(current)
  /\ pc["read"] # "idle" /\ Reads => Stand + 1 = Behind + Inputs[current].ends[part]

ReadSoFar ==
  /\ Len(handled) <= Len(stream)
  /\ \A i \in 1 .. Len(handled) : handled[i] = i
  /\ pc["read"] = "idle" /\ open => left["read"] = 0
  /\ pc["read"] = "done" => left["read"] = 0
  /\ pc["read"] = "failed" => ~open
  /\ client \notin {"type", "rest"} => pc["read"] = "idle"
  /\ client = "type" => pc["read"] # "idle"
  /\ client = "top" /\ open => Stand + 1 = Behind /\ Begins(Len(handled) + 1)
  /\ client = "type" /\ Reads => Stand = Behind /\ Begins(Len(handled) + 1)
  /\ client = "rest" => InMessage

OrderInv == FramesInOrder /\ Adjoining /\ WrittenSoFar /\ Numbered /\ ReadSoFar

(* Frames are added to the stream only, behind the others. *)
LEMMA StreamGrows ==
  ASSUME TypeInv, FramesInOrder, Adjoining, [Next]_vars
  PROVE  /\ Len(stream') \in Nat /\ Len(stream) <= Len(stream')
         /\ \A k \in 0 .. Len(stream) : EndOf(k)' = EndOf(k)
<1>1. CASE UNCHANGED stream
  BY <1>1, LenProperties DEF EndOf, TypeInv, QueueTypes
<1>2. CASE ProcessTakes /\ hasClient
  BY <1>2, HandOver, LenProperties DEF TypeInv, QueueTypes
<1> QED
  BY <1>1, <1>2
     DEF Next, vars, pathVars, FrameComes, RecvThread, RecvEnds, FrameQueued, ProcessThread,
         ProcessTakes, ProcessWritten, ProcessEnds, ProcessUsesNull, ProcessUsesFreed,
         ClientThread, ClientLosesDesktop, ClientLoops, ClientReadsType,
         ClientReadsOn, ClientReadsPart, ClientGoesOn, ClientHandles, ClientFails, ClientRemoved,
         ClientCloses, ClientDeleted, StopBegins, UninitServer, RecvJoined,
         ProcessJoined, KillAuthClients, KillSignals, WaitUntilAuthEmpty, Drained,
         Stays, ChannelSteps

(* Where the first byte of a message is read there is the message. *)
LEMMA TypeIsFirst ==
  ASSUME ChInv, TypeInv, OrderInv, client = "type", pc["read"] = "done"
  PROVE  /\ Len(handled) + 1 \in 1 .. Len(stream)
         /\ Begun = {Len(handled) + 1} /\ Begins(Len(handled) + 1)
<1> DEFINE h == Len(handled)
           n == Len(stream)
           d == Len(delivered)
<1>t. /\ h \in Nat /\ n \in Nat /\ d \in Nat /\ written \in Nat /\ length \in Nat
      /\ DOMAIN stream = 1 .. n
  BY LenProperties, ChannelAssumption DEF TypeInv, QueueTypes, ChInv, RingTypeOK
<1>s. /\ \A k \in 0 .. n : EndOf(k) \in Nat
      /\ \A k \in 1 .. n : Bytes(k) \in Nat \ {0} /\ EndOf(k) = EndOf(k - 1) + Bytes(k)
  BY StreamFacts DEF OrderInv
<1>1. h <= n /\ d = EndOf(h)
  BY <1>t DEF OrderInv, ReadSoFar, Reads, Stand, Behind
<1>2. d <= written /\ written < EndOf(n)
  BY <1>t DEF OrderInv, WrittenSoFar, ChInv, RingHolds
<1>3. h # n
  BY <1>1, <1>2, <1>t, <1>s
<1>4. h + 1 \in 1 .. n
  BY <1>1, <1>3, <1>t
<1>5. stream[h + 1].first = EndOf(h)
  <2>1. stream[h + 1].first = EndOf((h + 1) - 1)
    BY <1>4 DEF OrderInv, Adjoining
  <2> QED BY <2>1, <1>t
<1>6. d # 0
  <2>1. CASE h = 0
    BY <2>1, <1>1 DEF EndOf
  <2>2. CASE h # 0
    <3>1. h \in 1 .. n /\ h - 1 \in 0 .. n
      BY <1>1, <1>t, <2>2
    <3>2. EndOf(h - 1) \in Nat /\ Bytes(h) \in Nat \ {0} /\ EndOf(h) = EndOf(h - 1) + Bytes(h)
      BY <3>1, <1>s
    <3> QED BY <3>2, <1>1
  <2> QED BY <2>1, <2>2
<1>7. delivered[d] = d
  BY <1>6, <1>t DEF OrderInv, Numbered
<1>8. ASSUME NEW k \in 1 .. n, stream[k].first = stream[h + 1].first, k # h + 1 PROVE FALSE
  <2>1. stream[k].first \in Nat
    <3>1. stream[k].first = EndOf(k - 1) /\ k - 1 \in 0 .. n
      BY <1>t DEF OrderInv, Adjoining
    <3> QED BY <3>1, <1>s
  <2>2. k < h + 1 \/ h + 1 < k
    BY <1>8, <1>4, <1>t
  <2>3. stream[k].first < stream[h + 1].first \/ stream[h + 1].first < stream[k].first
    BY <2>2, <1>4 DEF OrderInv, Adjoining
  <2> QED BY <2>1, <2>3, <1>8
<1>9. Begins(h + 1)
  BY DEF OrderInv, ReadSoFar, Reads
<1>10. stream[h + 1].frame = h + 1
  BY <1>4 DEF OrderInv, FramesInOrder
<1>11. stream[h + 1].first = d /\ delivered[Len(delivered)] = d
  BY <1>1, <1>5, <1>7
<1>12. h + 1 \in Begun
  BY <1>4, <1>9, <1>10, <1>11, <1>t DEF Begun
<1>13. \A k \in Begun : k = h + 1
  BY <1>8, <1>11, <1>t DEF Begun
<1> QED BY <1>4, <1>9, <1>12, <1>13

LEMMA ReadsNext ==
  ASSUME ChInv, TypeInv, OrderInv, ClientReadsType
  PROVE  client' = "rest" /\ part' = 2 /\ current' = Len(handled) + 1
<1>1. client = "type" /\ pc["read"] = "done"
  BY DEF ClientReadsType
<1>2. Len(handled) + 1 \in 1 .. Len(stream) /\ Begun = {Len(handled) + 1}
  BY <1>1, TypeIsFirst
<1>3. /\ client' = "rest" /\ part' = 2
      /\ \E k \in Begun : stream[k].frame = current'
  BY <1>2 DEF ClientReadsType
<1>4. stream[Len(handled) + 1].frame = Len(handled) + 1
  BY <1>2 DEF OrderInv, FramesInOrder
<1> QED BY <1>2, <1>3, <1>4
(* A step that leaves the reader and its messages alone, but for the        *)
(* closing of the channel                                                   *)
ReaderStays ==
  /\ delivered' = delivered /\ handled' = handled
  /\ pc'["read"] = pc["read"] /\ left'["read"] = left["read"]
  /\ open' = open \/ open' = FALSE

ClientStays == client' = client /\ current' = current /\ part' = part

LEMMA ReaderStaysKeeps ==
  ASSUME TypeInv, OrderInv, [Next]_vars, open \in BOOLEAN, ReaderStays,
         ClientStays \/ (client' \notin {"top", "type", "rest"} /\ pc["read"] = "idle")
  PROVE  ReadSoFar'
<1>1. Len(handled) \in 0 .. Len(stream)
  BY LenProperties DEF OrderInv, ReadSoFar, TypeInv, QueueTypes
<1>2. Len(stream') \in Nat /\ Len(stream) <= Len(stream') /\ EndOf(Len(handled))' = EndOf(Len(handled))
  <2>1. /\ Len(stream') \in Nat /\ Len(stream) <= Len(stream')
        /\ \A k \in 0 .. Len(stream) : EndOf(k)' = EndOf(k)
    BY StreamGrows DEF OrderInv
  <2>2. \A k : k = Len(handled) => EndOf(Len(handled))' = EndOf(k)'
    BY DEF ReaderStays
  <2> QED BY <1>1, <2>1, <2>2
<1>3. Len(stream) \in Nat /\ Len(handled) \in Nat
  BY LenProperties DEF TypeInv, QueueTypes
<1>4. Behind' = Behind /\ Stand' = Stand
  BY <1>2 DEF Behind, Stand, ReaderStays
<1>5. Len(handled') <= Len(stream')
  BY <1>1, <1>2, <1>3 DEF ReaderStays
<1>6. /\ \A i \in 1 .. Len(handled') : handled'[i] = i
      /\ pc'["read"] = "idle" /\ open' => left'["read"] = 0
      /\ pc'["read"] = "done" => left'["read"] = 0
      /\ pc'["read"] = "failed" => ~open'
  BY DEF ReaderStays, OrderInv, ReadSoFar
<1>7. Reads' => Reads
  BY DEF Reads, ReaderStays
<1>8. CASE client' \notin {"top", "type", "rest"} /\ pc["read"] = "idle"
  BY <1>5, <1>6, <1>8 DEF ReadSoFar, ReaderStays
<1>9. CASE ClientStays
  <2>1. /\ client' \notin {"type", "rest"} => pc'["read"] = "idle"
        /\ client' = "type" => pc'["read"] # "idle"
        /\ client' = "top" /\ open' =>
             Stand' + 1 = Behind' /\ Begins(Len(handled') + 1)
        /\ client' = "type" /\ Reads' =>
             Stand' = Behind' /\ Begins(Len(handled') + 1)
    BY <1>4, <1>7, <1>9 DEF ClientStays, ReaderStays, OrderInv, ReadSoFar
  <2>2. client' = "rest" => InMessage'
    <3> SUFFICES ASSUME client' = "rest" PROVE InMessage'
      OBVIOUS
    <3>1. InMessage
      BY <1>9 DEF ClientStays, OrderInv, ReadSoFar
    <3>2. current' = Len(handled') + 1 /\ (part' > 1 => current' <= Len(stream'))
      BY <1>2, <1>3, <1>9, <3>1 DEF ClientStays, ReaderStays, InMessage
    <3>3. current' = current /\ part' = part
      BY <1>9 DEF ClientStays
    <3>4. part' \in 1 .. Parts(current') + 1
      BY <3>1, <3>3 DEF InMessage
    <3>5. /\ pc'["read"] = "idle" /\ open' => Stand' + 1 = Behind' + Before(current', part')
          /\ pc'["read"] # "idle" => part' <= Parts(current')
          /\ pc'["read"] # "idle" /\ Reads' => Stand' + 1 = Behind' + Inputs[current'].ends[part']
      BY <1>4, <1>7, <3>1, <3>3 DEF InMessage, ReaderStays
    <3> QED BY <3>2, <3>4, <3>5 DEF InMessage
  <2> QED BY <1>5, <1>6, <2>1, <2>2 DEF ReadSoFar
<1> QED BY <1>8, <1>9
(* A turn of the reader in the channel brings it nearer to what it asked    *)
(* for, by as much as it is given; or it is told that the channel is closed.*)
LEMMA ReaderTurn ==
  ASSUME ChInv, Moves("read") \/ ReadCopies
  PROVE  /\ open' = open /\ pc["read"] \notin {"idle", "done", "failed"} /\ pc'["read"] # "idle"
         /\ pc'["read"] = "failed" => ~open
         /\ pc'["read"] = "done" => open /\ left'["read"] = 0
         /\ Stand' = Stand
<1>t. /\ Len(delivered) \in Nat /\ left \in [Sides -> Nat] /\ pc \in [Sides -> Places]
      /\ left["read"] \in Nat /\ "read" \in Sides
  BY LenProperties DEF ChInv, RingTypeOK, ThreadTypeOK, Sides
<1>1. CASE Moves("read")
  <2>1. /\ UNCHANGED <<open, left, delivered>>
        /\ pc["read"] \notin {"idle", "done", "failed"}
        /\ \/ pc'["read"] \in {"waiting", "woken"}
           \/ pc'["read"] = "failed" /\ ~open
    BY <1>1, <1>t DEF Moves, Waits, Wakes, Fails, InSection
  <2> QED BY <2>1 DEF Stand
<1>2. CASE ReadCopies
  <2> DEFINE n == ReadCount
  <2>1. n \in 0 .. length /\ n <= left["read"] /\ dequeuePos + n <= Size
    BY ReadCountBounds
  <2>2. ReadBytes(n) /\ Moved("read", n) /\ InSection("read") /\ open /\ open' = open
    BY <1>2 DEF ReadCopies
  <2>3. Len(delivered') = Len(delivered) + n
    BY <2>1, <2>2, ReadKeepsRing
  <2>4. n \in Nat
    BY <2>1, ChannelAssumption DEF ChInv, RingTypeOK
  <2> HIDE DEF n
  <2>5. /\ left'["read"] = left["read"] - n
        /\ pc'["read"] = IF left["read"] = n THEN "done" ELSE "calling"
        /\ pc["read"] \in {"woken", "calling"}
    BY <1>t, <2>2 DEF Moved, InSection
  <2>6. Stand' = Stand
    BY <1>t, <2>3, <2>4, <2>5 DEF Stand
  <2>7. pc'["read"] = "done" => left'["read"] = 0
    BY <1>t, <2>4, <2>5
  <2> QED BY <2>2, <2>5, <2>6, <2>7
<1> QED BY <1>1, <1>2

(* While the client reads, what has been carried out and where it stands in *)
(* the stream of messages stay.                                             *)
LEMMA BehindStays ==
  ASSUME TypeInv, OrderInv, [Next]_vars, handled' = handled
  PROVE  /\ Behind' = Behind /\ Len(handled) <= Len(stream')
         /\ \A k : k <= Len(stream) => k <= Len(stream') \/ k \notin Nat
         /\ Len(handled) \in Nat /\ Behind \in Nat
<1>1. Len(handled) \in 0 .. Len(stream) /\ Len(stream) \in Nat /\ Len(handled) \in Nat
  BY LenProperties DEF OrderInv, ReadSoFar, TypeInv, QueueTypes
<1>2. /\ Len(stream') \in Nat /\ Len(stream) <= Len(stream')
      /\ \A k \in 0 .. Len(stream) : EndOf(k)' = EndOf(k)
  BY StreamGrows DEF OrderInv
<1>3. \A k : k = Len(handled) => EndOf(Len(handled))' = EndOf(k)'
  OBVIOUS
<1>4. Behind' = Behind
  BY <1>1, <1>2, <1>3 DEF Behind
<1>5. \A k \in 0 .. Len(stream) : EndOf(k) \in Nat
  BY StreamFacts DEF OrderInv
<1>6. \A k \in Nat : k <= Len(stream) => k <= Len(stream')
  BY <1>1, <1>2
<1> QED BY <1>1, <1>2, <1>4, <1>5, <1>6 DEF Behind

LEMMA TurnKeeps ==
  ASSUME ChInv, TypeInv, OrderInv, [Next]_vars, UNCHANGED pathVars,
         Moves("read") \/ ReadCopies
  PROVE  ReadSoFar'
<1>1. /\ open' = open /\ pc["read"] \notin {"idle", "done", "failed"} /\ pc'["read"] # "idle"
      /\ pc'["read"] = "failed" => ~open
      /\ pc'["read"] = "done" => open /\ left'["read"] = 0
      /\ Stand' = Stand
  BY ReaderTurn
<1>2. UNCHANGED <<handled, client, current, part, stream>>
  BY DEF pathVars
<1>3. Behind' = Behind
  BY <1>2, BehindStays
<1>4. Reads' => open
  BY <1>1 DEF Reads
<1>5. client \in {"type", "rest"}
  BY <1>1 DEF OrderInv, ReadSoFar
<1>6. client = "type" /\ Reads' => Stand' = Behind' /\ Begins(Len(handled') + 1)
  BY <1>1, <1>2, <1>3, <1>4 DEF OrderInv, ReadSoFar, Reads
<1>7. client = "rest" => InMessage'
  BY <1>1, <1>2, <1>3, <1>4 DEF OrderInv, ReadSoFar, InMessage, Reads
<1> QED BY <1>1, <1>2, <1>5, <1>6, <1>7 DEF OrderInv, ReadSoFar

LEMMA LoopsKeeps ==
  ASSUME ChInv, TypeInv, OrderInv, [Next]_vars, ClientLoops
  PROVE  ReadSoFar'
<1>1. /\ client = "top" /\ client' = "type" /\ pc["read"] = "idle" /\ pc'["read"] = "calling"
      /\ left'["read"] = 1 /\ UNCHANGED <<open, delivered, handled, stream>>
  BY DEF ClientLoops, Call, ChInv, ThreadTypeOK, Sides
<1>2. Behind' = Behind
  BY <1>1, BehindStays
<1>3. open => Stand' = Behind
  <2>1. open => left["read"] = 0 /\ Stand + 1 = Behind
    BY <1>1 DEF OrderInv, ReadSoFar
  <2>2. Len(delivered) \in Nat
    BY LenProperties DEF ChInv, RingTypeOK
  <2> QED BY <1>1, <2>1, <2>2 DEF Stand
<1>4. open => Begins(Len(handled') + 1)
  BY <1>1 DEF OrderInv, ReadSoFar
<1>5. client' = "type" /\ Reads' => Stand' = Behind' /\ Begins(Len(handled') + 1)
  BY <1>1, <1>2, <1>3, <1>4 DEF Reads
<1> QED BY <1>1, <1>5 DEF OrderInv, ReadSoFar

LEMMA ReadsTypeKeeps ==
  ASSUME ChInv, TypeInv, OrderInv, [Next]_vars, ClientReadsType
  PROVE  ReadSoFar'
<1>1. client' = "rest" /\ part' = 2 /\ current' = Len(handled) + 1
  BY ReadsNext
<1>2. /\ client = "type" /\ pc["read"] = "done" /\ pc'["read"] = "idle"
      /\ UNCHANGED <<open, delivered, left, handled, stream>>
  BY DEF ClientReadsType, Return, ChInv, ThreadTypeOK, Sides
<1>3. Behind' = Behind /\ Behind \in Nat /\ Len(handled) \in Nat
  BY <1>2, BehindStays
<1>4. Stand = Behind /\ left["read"] = 0 /\ Stand' = Stand
  BY <1>2 DEF OrderInv, ReadSoFar, Reads, Stand
<1>5. Len(handled) + 1 \in 1 .. Len(stream)
  BY <1>2, TypeIsFirst
<1>6. Len(handled) + 1 \in 1 .. Len(Inputs) /\ Len(stream) \in Nat
  BY <1>5, <1>3, StreamFacts, InputsAssumption, LenProperties DEF OrderInv
<1>7. Parts(current') \in Nat \ {0} /\ Inputs[current'].ends[1] = 1
  <2>1. Begins(Len(handled) + 1)
    BY <1>2, TypeIsFirst
  <2> QED BY <1>1, <1>6, <2>1, InputFacts
<1>8. InMessage'
  <2>1. current' = Len(handled') + 1 /\ current' <= Len(stream')
    BY <1>1, <1>2, <1>5, <1>6
  <2>2. part' \in 1 .. Parts(current') + 1 /\ Before(current', part') = 1
    BY <1>1, <1>7 DEF Before
  <2>3. Stand' + 1 = Behind' + Before(current', part')
    BY <1>3, <1>4, <2>2
  <2> QED BY <1>2, <2>1, <2>2, <2>3 DEF InMessage
<1> QED BY <1>1, <1>2, <1>4, <1>8 DEF OrderInv, ReadSoFar

LEMMA ReadsOnKeeps ==
  ASSUME ChInv, TypeInv, OrderInv, [Next]_vars, ClientReadsOn
  PROVE  ReadSoFar'
<1>1. /\ client = "rest" /\ part <= Parts(current) /\ pc["read"] = "idle"
      /\ pc'["read"] = "calling" /\ left'["read"] = PartBytes(current, part)
      /\ UNCHANGED <<open, delivered, handled, stream, client, current, part>>
  BY DEF ClientReadsOn, Call, ChInv, ThreadTypeOK, Sides, pathVars
<1>2. InMessage
  BY <1>1 DEF OrderInv, ReadSoFar
<1>3. Behind' = Behind /\ Behind \in Nat
  BY <1>1, BehindStays
<1>4. current \in 1 .. Len(Inputs)
  BY <1>1 DEF TypeInv, FramesKnown
<1>5. /\ Parts(current) \in Nat /\ part \in 1 .. Parts(current)
      /\ PartBytes(current, part) \in Nat
      /\ Inputs[current].ends[part] = Before(current, part) + PartBytes(current, part)
      /\ Before(current, part) \in Nat
  <2>1. Parts(current) \in Nat
    BY <1>4, InputFacts
  <2>2. part \in 1 .. Parts(current)
    BY <1>1, <1>2, <2>1 DEF InMessage
  <2> QED BY <1>4, <2>1, <2>2, InputFacts
<1>6. open => Stand' + 1 = Behind + Inputs[current].ends[part]
  <2>1. open => left["read"] = 0 /\ Stand + 1 = Behind + Before(current, part)
    BY <1>1, <1>2 DEF OrderInv, ReadSoFar, InMessage
  <2>2. Len(delivered) \in Nat
    BY LenProperties DEF ChInv, RingTypeOK
  <2>3. Stand' = Len(delivered) + PartBytes(current, part)
    BY <1>1 DEF Stand
  <2>4. open => Len(delivered) + 1 = Behind + Before(current, part)
    BY <2>1, <2>2 DEF Stand
  <2>5. ASSUME open
        PROVE  (Len(delivered) + PartBytes(current, part)) + 1
                 = Behind + (Before(current, part) + PartBytes(current, part))
    <3> DEFINE d == Len(delivered)
               x == Before(current, part)
               y == PartBytes(current, part)
    <3>1. d \in Nat /\ x \in Nat /\ y \in Nat /\ Behind \in Nat /\ d + 1 = Behind + x
      BY <1>3, <1>5, <2>2, <2>4, <2>5
    <3> HIDE DEF d, x, y
    <3>2. (d + y) + 1 = Behind + (x + y)
      BY <3>1
    <3> QED BY <3>2 DEF d, x, y
  <2> QED BY <1>5, <2>3, <2>5
<1>7. InMessage'
  BY <1>1, <1>2, <1>3, <1>6 DEF InMessage, Reads
<1> QED BY <1>1, <1>7 DEF OrderInv, ReadSoFar

LEMMA ReadsPartKeeps ==
  ASSUME ChInv, TypeInv, OrderInv, [Next]_vars, ClientReadsPart
  PROVE  ReadSoFar'
<1>1. /\ client = "rest" /\ pc["read"] = "done" /\ pc'["read"] = "idle" /\ part' = part + 1
      /\ UNCHANGED <<open, delivered, left, handled, stream, client, current>>
  BY DEF ClientReadsPart, Return, ChInv, ThreadTypeOK, Sides
<1>2. InMessage /\ left["read"] = 0
  BY <1>1 DEF OrderInv, ReadSoFar
<1>3. Behind' = Behind
  BY <1>1, BehindStays
<1>4. current \in 1 .. Len(Inputs) /\ Parts(current) \in Nat
  BY <1>1, InputFacts DEF TypeInv, FramesKnown
<1>5. Stand' + 1 = Behind' + Inputs[current].ends[part]
  BY <1>1, <1>2, <1>3 DEF InMessage, Reads, Stand
<1>6. part' \in 1 .. Parts(current) + 1 /\ Before(current', part') = Inputs[current].ends[part]
  <2>1. part \in 1 .. Parts(current)
    BY <1>1, <1>2, <1>4 DEF InMessage
  <2>2. part + 1 # 1 /\ (part + 1) - 1 = part
    BY <2>1
  <2> QED BY <1>1, <1>4, <2>1, <2>2 DEF Before
<1>7. current <= Len(stream)
  <2> DEFINE n == Len(stream)
             d == Len(delivered)
             e == Inputs[current].ends[part]
  <2>1. /\ n \in Nat /\ d \in Nat /\ Len(handled) \in Nat /\ Behind \in Nat
        /\ Len(handled) <= n /\ current = Len(handled) + 1
    BY <1>1, <1>2, BehindStays, LenProperties
       DEF OrderInv, ReadSoFar, InMessage, TypeInv, QueueTypes, ChInv, RingTypeOK
  <2>2. e \in Nat \ {0}
    <3>1. part \in 1 .. Parts(current)
      BY <1>1, <1>2, <1>4 DEF InMessage
    <3> QED BY <1>4, <3>1, InputFacts DEF TypeInv
  <2>3. d + 1 = Behind + e
    BY <1>1, <1>2, <1>5, <1>3, <2>1 DEF Stand
  <2>4. written \in Nat /\ d <= written /\ written < EndOf(n)
    BY <2>1, ChannelAssumption
       DEF OrderInv, WrittenSoFar, ChInv, RingHolds, RingTypeOK
  <2> HIDE DEF d, e
  <2>5. Len(handled) # n
    <3> SUFFICES ASSUME Len(handled) = n PROVE FALSE
      OBVIOUS
    <3>1. Behind = EndOf(n)
      BY DEF Behind
    <3> QED BY <3>1, <2>1, <2>2, <2>3, <2>4
  <2> QED BY <2>1, <2>5
<1>8. InMessage'
  BY <1>1, <1>2, <1>5, <1>6, <1>7 DEF InMessage
<1> QED BY <1>1, <1>2, <1>8 DEF OrderInv, ReadSoFar

(* A frame is done with when all of it has been read: the next one begins   *)
(* where the client stands.                                                 *)
LEMMA DoneWith ==
  ASSUME ChInv, TypeInv, OrderInv, client = "rest", pc["read"] = "idle",
         part > Parts(current), handled' = Append(handled, current),
         UNCHANGED <<chVars, stream>>
  PROVE  /\ Len(handled') <= Len(stream') /\ Len(handled') = current
         /\ \A i \in 1 .. Len(handled') : handled'[i] = i
         /\ open => Stand' + 1 = Behind'
<1>1. /\ client = "rest" /\ pc["read"] = "idle" /\ part > Parts(current)
      /\ handled' = Append(handled, current)
      /\ UNCHANGED <<pc, open, delivered, left, stream>>
  BY DEF chVars
<1>2. InMessage
  BY <1>1 DEF OrderInv, ReadSoFar
<1>t. /\ Len(handled) \in Nat /\ handled \in Seq(1 .. Len(Inputs)) /\ Len(stream) \in Nat
      /\ current \in 1 .. Len(Inputs)
  BY <1>1, LenProperties DEF TypeInv, QueueTypes, FramesKnown
<1>3. /\ current = Len(handled) + 1 /\ current <= Len(stream)
      /\ Parts(current) \in Nat \ {0} /\ part - 1 = Parts(current) /\ part # 1
  <2>1. Parts(current) \in Nat \ {0}
    BY <1>t, InputFacts
  <2> QED BY <1>1, <1>2, <1>t, <2>1 DEF InMessage
<1>4. /\ Len(handled') = Len(handled) + 1
      /\ \A i \in 1 .. Len(handled) : handled'[i] = handled[i]
      /\ handled'[Len(handled) + 1] = current
  BY <1>1, <1>t, AppendProperties
<1>5. \A i \in 1 .. Len(handled') : handled'[i] = i
  BY <1>3, <1>4, <1>t DEF OrderInv, ReadSoFar
<1>6. open => Stand + 1 = Behind + Bytes(current)
  BY <1>1, <1>2, <1>3 DEF InMessage, Before, Bytes
<1>7. Behind' = Behind + Bytes(current)
  <2>1. Behind' = EndOf(Len(handled'))
    BY <1>1 DEF Behind, EndOf
  <2>2. /\ current \in 1 .. Len(stream) /\ current - 1 = Len(handled)
        /\ EndOf(current) = EndOf(current - 1) + Bytes(current)
    BY <1>3, <1>t, StreamFacts DEF OrderInv
  <2> QED BY <1>3, <1>4, <2>1, <2>2 DEF Behind
<1>8. Stand' = Stand
  BY <1>1 DEF Stand
<1>9. Len(handled') <= Len(stream') /\ Len(handled') = current
  BY <1>1, <1>3, <1>4
<1> QED BY <1>1, <1>5, <1>6, <1>7, <1>8, <1>9

(* The whole message is carried out: the next frame begins another. *)
LEMMA HandlesKeeps ==
  ASSUME ChInv, TypeInv, OrderInv, [Next]_vars, ClientHandles
  PROVE  ReadSoFar'
<1>1. /\ client = "rest" /\ pc["read"] = "idle" /\ part > Parts(current)
      /\ handled' = Append(handled, current) /\ client' \in {"top", "leaving"}
      /\ UNCHANGED <<chVars, stream>> /\ ~Inputs[current].more
  BY DEF ClientHandles
<1>2. /\ Len(handled') <= Len(stream') /\ Len(handled') = current
      /\ \A i \in 1 .. Len(handled') : handled'[i] = i
      /\ open => Stand' + 1 = Behind'
  BY <1>1, DoneWith
<1>3. current \in 1 .. Len(Inputs)
  BY <1>1 DEF TypeInv, FramesKnown
<1>4. Begins(Len(handled') + 1)
  BY <1>1, <1>2, <1>3 DEF Begins
<1>5. UNCHANGED <<pc, open, left>>
  BY <1>1 DEF chVars
<1>6. /\ pc["read"] = "idle" /\ open => left["read"] = 0
      /\ pc["read"] = "done" => left["read"] = 0
      /\ pc["read"] = "failed" => ~open
  BY DEF OrderInv, ReadSoFar
<1>7. /\ client' = "top" /\ open' => Stand' + 1 = Behind' /\ Begins(Len(handled') + 1)
      /\ client' # "type" /\ client' # "rest" /\ pc'["read"] = "idle"
  BY <1>1, <1>2, <1>4, <1>5
<1> QED BY <1>2, <1>5, <1>6, <1>7 DEF ReadSoFar

(* The header is read: the text is the next frame. *)
LEMMA GoesOnKeeps ==
  ASSUME ChInv, TypeInv, OrderInv, [Next]_vars, ClientGoesOn
  PROVE  ReadSoFar'
<1>1. /\ client = "rest" /\ pc["read"] = "idle" /\ part > Parts(current)
      /\ handled' = Append(handled, current) /\ client' = "rest"
      /\ UNCHANGED <<chVars, stream>> /\ Inputs[current].more
      /\ current' = current + 1 /\ part' = 1
  BY DEF ClientGoesOn
<1>2. /\ Len(handled') <= Len(stream') /\ Len(handled') = current
      /\ \A i \in 1 .. Len(handled') : handled'[i] = i
      /\ open => Stand' + 1 = Behind'
  BY <1>1, DoneWith
<1>3. current \in 1 .. Len(Inputs) /\ current + 1 \in 1 .. Len(Inputs)
  BY <1>1, MoreIsThere DEF TypeInv, FramesKnown
<1>4. Parts(current') \in Nat \ {0}
  BY <1>1, <1>3, InputFacts
<1>5. UNCHANGED <<pc, open, left>>
  BY <1>1 DEF chVars
<1>6. /\ pc["read"] = "idle" /\ open => left["read"] = 0
      /\ pc["read"] = "done" => left["read"] = 0
      /\ pc["read"] = "failed" => ~open
  BY DEF OrderInv, ReadSoFar
<1>7. Before(current', part') = 0 /\ part' \in 1 .. Parts(current') + 1
  BY <1>1, <1>4 DEF Before
<1>8. Behind' \in Nat
  <2>1. \A k \in 0 .. Len(stream) : EndOf(k) \in Nat /\ Len(stream) \in Nat
    BY StreamFacts DEF OrderInv
  <2>2. current \in 0 .. Len(stream) /\ Len(stream') = Len(stream)
    BY <1>1, <1>2, <1>3, <2>1, StreamFacts DEF OrderInv
  <2>3. Behind' = EndOf(current)
    BY <1>1, <1>2 DEF Behind, EndOf
  <2> QED BY <2>1, <2>2, <2>3
<1>9. InMessage'
  <2>1. open' => Stand' + 1 = Behind' + Before(current', part')
    BY <1>2, <1>5, <1>7, <1>8
  <2>2. current' = Len(handled') + 1 /\ part' = 1 /\ pc'["read"] = "idle"
    BY <1>1, <1>2, <1>5
  <2> QED BY <2>1, <2>2, <1>7 DEF InMessage
<1> QED BY <1>1, <1>2, <1>5, <1>6, <1>9 DEF ReadSoFar

LEMMA FailsKeeps ==
  ASSUME ChInv, TypeInv, OrderInv, [Next]_vars, ClientFails
  PROVE  ReadSoFar'
<1>1. /\ pc["read"] = "failed" /\ pc'["read"] = "idle" /\ client' \in {"top", "leaving"}
      /\ UNCHANGED <<open, delivered, left, handled, stream>>
  BY DEF ClientFails, Return, ChInv, ThreadTypeOK, Sides
<1>2. ~open
  BY <1>1 DEF OrderInv, ReadSoFar
<1> QED BY <1>1, <1>2 DEF OrderInv, ReadSoFar

LEMMA ReaderNext ==
  ASSUME ChInv, TypeInv, OrderInv, [Next]_vars
  PROVE  ReadSoFar'
<1>t. open \in BOOLEAN /\ pc \in [Sides -> Places] /\ left \in [Sides -> Nat]
  BY DEF ChInv, ThreadTypeOK
<1>w. ASSUME NEW n, Call("write", n) \/ Return("write") \/ Moves("write") \/ WriteCopies
      PROVE  /\ pc'["read"] = pc["read"] /\ left'["read"] = left["read"]
             /\ UNCHANGED <<delivered, open>>
  BY <1>w, <1>t DEF Call, Return, Moves, Waits, Wakes, Fails, WriteCopies, WriteBytes, Moved, Sides
<1>1. CASE ReaderStays /\ ClientStays
  BY <1>1, <1>t, ReaderStaysKeeps
<1>2. CASE FrameComes \/ RecvThread \/ ProcessUsesNull \/ ProcessUsesFreed \/ UNCHANGED vars
  BY <1>1, <1>2 DEF FrameComes, RecvThread, RecvEnds, FrameQueued, ProcessUsesNull,
     ProcessUsesFreed, ReaderStays, ClientStays, chVars, pathVars, vars
<1>3. CASE ProcessTakes \/ ProcessWritten \/ ProcessEnds
  <2>1. (\E n : Call("write", n)) \/ Return("write") \/ UNCHANGED chVars
    BY <1>3 DEF ProcessTakes, ProcessWritten, ProcessEnds
  <2>2. UNCHANGED <<client, current, part, handled>>
    BY <1>3 DEF ProcessTakes, ProcessWritten, ProcessEnds
  <2> QED BY <1>1, <1>w, <2>1, <2>2 DEF ReaderStays, ClientStays, chVars
<1>4. CASE StopBegins \/ UninitServer
  BY <1>1, <1>4 DEF StopBegins, UninitServer, RecvJoined, ProcessJoined, KillAuthClients,
     KillSignals, WaitUntilAuthEmpty, Drained, Stays, CloseFrees, CloseSignals,
     ReaderStays, ClientStays, chVars
<1>5. CASE ChannelSteps
  <2>1. PICK s \in Sides : ChannelStep(s) /\ UNCHANGED pathVars
    BY <1>5 DEF ChannelSteps
  <2>2. CASE Moves("read") \/ ReadCopies
    BY <2>1, <2>2, TurnKeeps
  <2>3. CASE Moves("write") \/ WriteCopies
    BY <1>1, <1>w, <2>1, <2>3 DEF ReaderStays, ClientStays, pathVars
  <2> QED BY <2>1, <2>2, <2>3 DEF ChannelStep, Sides
<1>6. CASE ClientLosesDesktop \/ ClientRemoved \/ ClientCloses \/ ClientDeleted
  <2>1. client' \notin {"top", "type", "rest"} /\ client \notin {"type", "rest"}
    BY <1>6 DEF ClientLosesDesktop, ClientRemoved, ClientCloses, ClientDeleted
  <2>2. pc["read"] = "idle"
    BY <2>1 DEF OrderInv, ReadSoFar
  <2>3. ReaderStays
    BY <1>6 DEF ClientLosesDesktop, ClientRemoved, ClientCloses, ClientDeleted,
       CloseFrees, CloseSignals, ReaderStays, chVars
  <2> QED BY <1>t, <2>1, <2>2, <2>3, ReaderStaysKeeps
<1>7. CASE ClientLoops \/ ClientReadsType \/ ClientReadsOn \/ ClientReadsPart
           \/ ClientGoesOn \/ ClientHandles \/ ClientFails
  BY <1>7, LoopsKeeps, ReadsTypeKeeps, ReadsOnKeeps, ReadsPartKeeps, GoesOnKeeps,
     HandlesKeeps, FailsKeeps
<1> QED
  BY <1>2, <1>3, <1>4, <1>5, <1>6, <1>7 DEF Next, ProcessThread, ClientThread

LEMMA OrderInit == Init => OrderInv
<1> SUFFICES ASSUME Init PROVE OrderInv
  OBVIOUS
<1>1. /\ stream = << >> /\ recvQ = << >> /\ handled = << >> /\ delivered = << >>
      /\ Len(stream) = 0 /\ Len(recvQ) = 0 /\ Len(handled) = 0 /\ Len(delivered) = 0
  BY EmptySeq DEF Init, ChInit
<1>2. EndOf(0) = 1 /\ Behind = 1 /\ Stand = 0
  BY <1>1 DEF EndOf, Behind, Stand, Init, ChInit, Sides
<1>3. FramesInOrder
  BY <1>1 DEF Init, FramesInOrder, Waiting, AppServerGone
<1>4. WrittenSoFar
  BY <1>1, <1>2 DEF Init, ChInit, WrittenSoFar, Sides
<1>5. ReadSoFar
  BY <1>1, <1>2 DEF Init, ChInit, ReadSoFar, Sides, Begins
<1> QED BY <1>1, <1>3, <1>4, <1>5 DEF OrderInv, Adjoining, Numbered

(* A refused frame stays refused. *)
LEMMA LostStays == TypeInv /\ lost /\ [Next]_vars => lost'
<1> SUFFICES ASSUME TypeInv, lost, [Next]_vars PROVE lost'
  OBVIOUS
<1>1. CASE UNCHANGED lost
  BY <1>1
<1>2. CASE FrameQueued
  BY <1>2 DEF FrameQueued
<1> QED
  BY <1>1, <1>2
     DEF Next, vars, pathVars, FrameComes, RecvThread, RecvEnds, ProcessThread,
         ProcessTakes, ProcessWritten, ProcessEnds, ProcessUsesNull, ProcessUsesFreed,
         ClientThread, ClientLosesDesktop, ClientLoops, ClientReadsType,
         ClientReadsOn, ClientReadsPart, ClientGoesOn, ClientHandles, ClientFails,
         ClientRemoved, ClientCloses, ClientDeleted, StopBegins, UninitServer,
         RecvJoined, ProcessJoined, KillAuthClients, KillSignals, WaitUntilAuthEmpty,
         Drained, Stays, ChannelSteps

(* For every size of the rings and every sequence of frames: as long as     *)
(* m_RecvQ refuses none, the client carries the messages out in the order   *)
(* in which they were received, none twice and none left out, and never     *)
(* takes another byte for a type.                                           *)
THEOREM PathInputsInOrder == Spec => []InputsInOrder
<1>1. ChInv /\ TypeInv /\ (lost \/ OrderInv) /\ [Next]_vars => (lost \/ OrderInv)'
  <2> SUFFICES ASSUME ChInv, TypeInv, lost \/ OrderInv, [Next]_vars, ~lost'
               PROVE  OrderInv'
    OBVIOUS
  <2>0. OrderInv
    BY LostStays
  <2>1. FramesInOrder' /\ Adjoining'
    BY <2>0, FramesNext DEF OrderInv
  <2>2. WrittenSoFar'
    BY <2>0, WriterNext DEF OrderInv
  <2>3. Numbered'
    BY <2>0, StepIsChannelStep, NumberedNext DEF OrderInv
  <2>4. ReadSoFar'
    BY <2>0, ReaderNext
  <2> QED BY <2>1, <2>2, <2>3, <2>4 DEF OrderInv
<1>2. ChInv /\ TypeInv /\ (lost \/ OrderInv) => InputsInOrder
  <2> SUFFICES ASSUME ChInv, TypeInv, OrderInv PROVE InputsInOrder
    BY DEF InputsInOrder
  <2>1. \A i \in DOMAIN handled : handled[i] = i
    BY LenProperties DEF OrderInv, ReadSoFar, TypeInv, QueueTypes
  <2>2. ASSUME client = "type", pc["read"] = "done"
        PROVE  Begun # {}
    BY <2>2, TypeIsFirst
  <2> QED BY <2>1, <2>2 DEF InputsInOrder
<1> QED BY <1>1, <1>2, OrderInit, TypesHold, PathUsesChannel, ChannelInvariant, PTL DEF Spec
=============================================================================
