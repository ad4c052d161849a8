------------------------- MODULE FrameTransferProofs -------------------------
(* Proofs about FrameTransfer for every length of the frames and of a       *)
(* packet, every number of failures, breaks and numbers of packets.         *)
EXTENDS FrameTransfer, SequenceTheorems, FiniteSetTheorems, TLAPS

USE DEF Frames, Numbers

-----------------------------------------------------------------------------
(* Types *)

(* m_CurVncFrame holds as many units as it says, and no packet starts       *)
(* behind the end of its frame.                                             *)
Sized  == cur # NoFrame => cur.data \in [1 .. cur.len -> Frames \X Nat]
OnWire == \A j \in DOMAIN wire : wire[j].from < Total[wire[j].frame]

TInv == TypeOK /\ Sized /\ OnWire

(* A packet is not empty, ends within its frame, and bears the end mark     *)
(* exactly if it ends there.                                                *)
LEMMA PartFacts ==
  ASSUME NEW p \in Packets, p.from < Total[p.frame]
  PROVE  /\ Total[p.frame] \in Nat
         /\ PartLen(p) \in Nat \ {0}
         /\ p.from + PartLen(p) <= Total[p.frame]
         /\ EndMark(p) <=> p.from + PartLen(p) = Total[p.frame]
<1>1. p.from \in Nat /\ p.frame \in Frames
  BY DEF Packets
<1>2. Total[p.frame] \in Nat /\ MaxPayload \in Nat \ {0}
  BY <1>1, TransferAssumption
<1> QED
  BY <1>1, <1>2 DEF PartLen, EndMark

(* The packet that SendPart makes *)
LEMMA NewPart ==
  ASSUME TInv, sending, done < Total[head]
  PROVE  LET p == [frame |-> head, from |-> done, seq |-> curSeq]
         IN  p \in Packets /\ p.from < Total[p.frame]
  BY DEF TInv, TypeOK, SenderTypes, Packets

LEMMA InitTInv == Init => TInv
<1> SUFFICES ASSUME Init PROVE TInv
  OBVIOUS
<1>1. wire = <<>> /\ wire \in Seq(Packets) /\ delivered \in Seq(Seq(Frames \X Nat))
  BY DEF Init
<1>7. waiting \in 0 .. RecvQSize /\ overrun \in BOOLEAN
  <2>1. RecvQSize \in Nat
    BY TransferAssumption
  <2>2. waiting = 0 /\ ~overrun /\ overrun \in BOOLEAN
    BY Zenon DEF Init
  <2> QED
    BY <2>1, <2>2
<1>2. head \in 1 .. MaxFrames + 1 /\ failed \in 0 .. MaxFailures
  BY TransferAssumption DEF Init
<1>3. /\ refusals \in 0 .. MaxRefusals /\ aborts \in 0 .. MaxAborts
      /\ breaks \in 0 .. MaxBreaks /\ leaves \in 0 .. MaxLeaves
  BY TransferAssumption DEF Init
<1>4. /\ sending \in BOOLEAN /\ ~sending /\ done \in Nat
      /\ inRoom \in BOOLEAN /\ cur = NoFrame
  BY DEF Init
<1>5. curSeq \in Numbers /\ conn \in Connections
  BY DEF Init, Connections
<1>6. TypeOK
  BY <1>1, <1>2, <1>3, <1>4, <1>5, <1>7
     DEF TypeOK, SenderTypes, LinkTypes, ViewerTypes, BoundTypes
<1> QED
  BY <1>1, <1>4, <1>6 DEF TInv, Sized, OnWire

(* What the viewer holds for a frame, whose data are as long as it says *)
Buffers == {frame \in Partial : frame.data \in [1 .. frame.len -> Frames \X Nat]}

LEMMA StartedType ==
  ASSUME NEW p \in Packets
  PROVE  Started(p) \in Buffers
<1>1. <<>> \in Seq(Frames \X Nat) /\ <<>> \in [1 .. 0 -> Frames \X Nat]
  OBVIOUS
<1>2. p.seq \in Numbers /\ Total[p.frame] \in Nat
  BY TransferAssumption DEF Packets
<1> QED
  BY <1>1, <1>2 DEF Started, Partial, Buffers

LEMMA AppendedType ==
  ASSUME NEW p \in Packets, p.from < Total[p.frame], NEW frame \in Buffers
  PROVE  Appended(frame, p) \in Buffers
<1> DEFINE len == frame.len + PartLen(p)
           new == [i \in 1 .. len |-> IF i <= frame.len THEN frame.data[i]
                                      ELSE <<p.frame, p.from + i - frame.len>>]
<1>1. frame.len \in Nat /\ frame.seq \in Numbers /\ frame.total \in Nat
  BY DEF Buffers, Partial
<1>2. len \in Nat
  BY <1>1, PartFacts
<1>3. ASSUME NEW i \in 1 .. len
      PROVE  (IF i <= frame.len THEN frame.data[i]
              ELSE <<p.frame, p.from + i - frame.len>>) \in Frames \X Nat
  <2>1. CASE i <= frame.len
    <3>1. i \in 1 .. frame.len
      BY <2>1, <1>1, <1>2
    <3> QED
      BY <3>1, <2>1 DEF Buffers
  <2>2. CASE ~(i <= frame.len)
    <3>1. p.from \in Nat /\ p.frame \in Frames
      BY DEF Packets
    <3>2. p.from + i - frame.len \in Nat
      BY <3>1, <2>2, <1>1, <1>2
    <3> QED
      BY <3>1, <3>2, <2>2
  <2> QED
    BY <2>1, <2>2
<1>4. new \in [1 .. len -> Frames \X Nat]
  BY <1>3
<1> HIDE DEF len, new
<1>5. new \in Seq(Frames \X Nat)
  BY <1>2, <1>4, SeqDef
<1> USE DEF len, new
<1>6. Appended(frame, p) = [seq |-> frame.seq, total |-> frame.total, len |-> len, data |-> new]
  BY DEF Appended
<1> HIDE DEF len, new
<1> QED
  BY <1>1, <1>2, <1>4, <1>5, <1>6 DEF Partial, Buffers

LEMMA CollectedType ==
  ASSUME TInv, NEW p \in Packets, p.from < Total[p.frame], cur # NoFrame \/ Starts(p)
  PROVE  Collected(p) \in Buffers
<1> DEFINE frame == IF Starts(p) THEN Started(p) ELSE cur
<1>1. frame \in Buffers
  BY StartedType DEF TInv, TypeOK, ViewerTypes, Sized, Buffers
<1>2. Collected(p) \in {frame, Appended(frame, p)}
  BY DEF Collected
<1> QED
  BY <1>1, <1>2, AppendedType

(* Packets on the wire stay packets, and within their frames. *)
LEMMA WireShrinks ==
  ASSUME TInv, wire # <<>>, wire' = Tail(wire)
  PROVE  wire' \in Seq(Packets) /\ OnWire'
<1>1. wire \in Seq(Packets)
  BY DEF TInv, TypeOK, LinkTypes
<1>2. /\ wire' \in Seq(Packets) /\ Len(wire') = Len(wire) - 1
      /\ \A j \in 1 .. Len(wire') : wire'[j] = wire[j + 1]
  BY <1>1, HeadTailProperties
<1> QED
  BY <1>1, <1>2 DEF TInv, OnWire

LEMMA WireGrows ==
  ASSUME TInv, NEW p \in Packets, p.from < Total[p.frame], wire' = Append(wire, p)
  PROVE  wire' \in Seq(Packets) /\ OnWire'
<1>1. wire \in Seq(Packets)
  BY DEF TInv, TypeOK, LinkTypes
<1>2. /\ wire' \in Seq(Packets) /\ Len(wire') = Len(wire) + 1
      /\ \A j \in 1 .. Len(wire) : wire'[j] = wire[j]
      /\ wire'[Len(wire) + 1] = p
  BY <1>1, AppendProperties
<1> QED
  BY <1>1, <1>2 DEF TInv, OnWire

LEMMA WireCut ==
  ASSUME TInv, NEW k \in 0 .. Len(wire), wire' = SubSeq(wire, 1, k)
  PROVE  /\ wire' \in Seq(Packets) /\ OnWire'
         /\ Len(wire') = k
         /\ \A j \in 1 .. k : wire'[j] = wire[j]
<1>1. wire \in Seq(Packets)
  BY DEF TInv, TypeOK, LinkTypes
<1>2. /\ wire' \in Seq(Packets) /\ Len(wire') = k
      /\ \A j \in 1 .. k : wire'[j] = wire[j]
  BY <1>1
<1> QED
  BY <1>1, <1>2 DEF TInv, OnWire

(* m_RecvQ takes a frame or, being full, loses it and has overrun. *)
LEMMA Queued ==
  ASSUME TInv, NEW data \in Seq(Frames \X Nat), Queue(data)
  PROVE  /\ waiting' \in 0 .. RecvQSize /\ overrun' \in BOOLEAN
         /\ \/ delivered' = Append(delivered, data) /\ overrun' = overrun
            \/ delivered' = delivered /\ overrun' = TRUE
<1>1. RecvQSize \in Nat
  BY TransferAssumption
<1>2. waiting \in 0 .. RecvQSize /\ overrun \in BOOLEAN
  BY DEF TInv, TypeOK, ViewerTypes
<1>3. CASE /\ waiting < RecvQSize /\ waiting' = waiting + 1
           /\ delivered' = Append(delivered, data) /\ UNCHANGED overrun
  BY <1>1, <1>2, <1>3
<1>4. CASE overrun' = TRUE /\ UNCHANGED <<delivered, waiting>>
  BY <1>2, <1>4
<1> QED
  BY <1>3, <1>4 DEF Queue

LEMMA HandleType ==
  ASSUME TInv, NEW p \in Packets, p.from < Total[p.frame], Handle(p)
  PROVE  /\ cur' = NoFrame \/ cur' \in Partial
         /\ Sized'
         /\ delivered' \in Seq(Seq(Frames \X Nat))
         /\ waiting' \in 0 .. RecvQSize /\ overrun' \in BOOLEAN
<1>1. CASE cur = NoFrame /\ ~Starts(p)
  BY <1>1 DEF Handle, TInv, TypeOK, ViewerTypes, Sized, viewer
<1>2. CASE ~(cur = NoFrame /\ ~Starts(p))
  <2>1. Collected(p) \in Buffers
    BY <1>2, CollectedType
  <2>2. Collected(p) \in Partial /\ Collected(p).data \in Seq(Frames \X Nat)
    BY <2>1 DEF Buffers, Partial
  <2>3. delivered \in Seq(Seq(Frames \X Nat))
    BY DEF TInv, TypeOK, ViewerTypes
  <2>4. CASE EndMark(p) /\ Collected(p).len = Total[p.frame]
    <3>1. cur' = NoFrame /\ Queue(Collected(p).data)
      BY <1>2, <2>4 DEF Handle
    <3>2. /\ waiting' \in 0 .. RecvQSize /\ overrun' \in BOOLEAN
          /\ delivered' = Append(delivered, Collected(p).data) \/ delivered' = delivered
      BY <2>2, <3>1, Queued
    <3>3. delivered' \in Seq(Seq(Frames \X Nat))
      <4> DEFINE d == Collected(p).data
      <4>1. d \in Seq(Frames \X Nat) /\ (delivered' = Append(delivered, d) \/ delivered' = delivered)
        BY <2>2, <3>2
      <4> HIDE DEF d
      <4>2. Append(delivered, d) \in Seq(Seq(Frames \X Nat))
        BY <2>3, <4>1, AppendProperties
      <4> QED
        BY <2>3, <4>1, <4>2
    <3> QED
      BY <3>1, <3>2, <3>3 DEF Sized
  <2>5. CASE ~(EndMark(p) /\ Collected(p).len = Total[p.frame])
    <3>1. cur' = Collected(p) /\ UNCHANGED <<delivered, waiting, overrun>>
      BY <1>2, <2>5 DEF Handle
    <3> QED
      BY <3>1, <2>1, <2>2, <2>3 DEF Sized, Buffers, TInv, TypeOK, ViewerTypes
  <2> QED
    BY <2>4, <2>5
<1> QED
  BY <1>1, <1>2

(* The first packet on the wire *)
LEMMA HeadPart ==
  ASSUME TInv, wire # <<>>
  PROVE  Head(wire) \in Packets /\ Head(wire).from < Total[Head(wire).frame]
BY DEF TInv, TypeOK, LinkTypes, OnWire

(* What a step leaves alone keeps its types. *)
LEMMA Untouched ==
  ASSUME TInv
  PROVE  /\ UNCHANGED sharer => SenderTypes'
         /\ UNCHANGED <<conn, inRoom>> /\ wire' \in Seq(Packets) => LinkTypes'
         /\ UNCHANGED wire => wire' \in Seq(Packets) /\ OnWire'
         /\ UNCHANGED viewer => ViewerTypes' /\ Sized'
         /\ UNCHANGED bounds => BoundTypes'
<1> USE DEF TInv, TypeOK
<1>1. UNCHANGED sharer => SenderTypes'
  BY DEF sharer, attempt, SenderTypes
<1>2. UNCHANGED <<conn, inRoom>> /\ wire' \in Seq(Packets) => LinkTypes'
  BY DEF LinkTypes
<1>3. UNCHANGED wire => wire' \in Seq(Packets) /\ OnWire'
  BY DEF LinkTypes, OnWire
<1>4. UNCHANGED viewer => ViewerTypes' /\ Sized'
  BY DEF viewer, ViewerTypes, Sized
<1>5. UNCHANGED bounds => BoundTypes'
  BY DEF bounds, BoundTypes
<1> QED
  BY <1>1, <1>2, <1>3, <1>4, <1>5

LEMMA SenderTInv ==
  ASSUME TInv, Sender
  PROVE  SenderTypes' /\ BoundTypes'
<1> USE TransferAssumption
<1>0. SenderTypes /\ BoundTypes
  BY DEF TInv, TypeOK
<1>1. CASE BeginFrame
  <2>1. NextNumber \in Numbers
    BY <1>0 DEF NextNumber, SenderTypes
  <2> QED
    BY <1>0, <1>1, <2>1, Untouched DEF BeginFrame, SenderTypes
<1>2. CASE SendPart
  <2> DEFINE p == [frame |-> head, from |-> done, seq |-> curSeq]
  <2>1. p \in Packets /\ p.from < Total[p.frame]
    BY <1>2, NewPart DEF SendPart, Trying
  <2>2. done + PartLen(p) \in Nat /\ done + PartLen(p) <= Total[head]
    BY <2>1, PartFacts DEF Packets
  <2>3. done' = done + PartLen(p)
    BY <1>2 DEF SendPart
  <2> HIDE DEF p
  <2> QED
    BY <1>0, <1>2, <2>2, <2>3, Untouched DEF SendPart, SenderTypes
<1>3. CASE RefusePart
  BY <1>0, <1>3 DEF RefusePart, Trying, SenderTypes, BoundTypes
<1>4. CASE EndFrame
  <2>1. head \in 1 .. MaxFrames /\ head' = head + 1
    BY <1>0, <1>4 DEF EndFrame, SenderTypes
  <2>2. head' \in 1 .. MaxFrames + 1
    BY <2>1
  <2>3. sending' = FALSE /\ done' = 0 /\ UNCHANGED <<failed, curSeq, bounds>>
    BY <1>4 DEF EndFrame
  <2>4. SenderTypes'
    BY <1>0, <2>2, <2>3 DEF SenderTypes
  <2> QED
    BY <2>3, <2>4, Untouched
<1>5. CASE GiveUp
  <2>1. SenderTypes'
    BY <1>0, <1>5 DEF GiveUp, HasGivenUp, SenderTypes
  <2>2. CASE conn = "broken" /\ failed < MaxFailures
    <3>1. aborts < MaxAborts /\ aborts' = aborts + 1
      BY <1>0, <1>5, <2>2 DEF GiveUp, HasGivenUp, SenderTypes
    <3> QED
      BY <1>0, <1>5, <2>1, <3>1 DEF GiveUp, BoundTypes
  <2>3. CASE ~(conn = "broken" /\ failed < MaxFailures)
    BY <1>0, <1>5, <2>1, <2>3 DEF GiveUp, BoundTypes
  <2> QED
    BY <2>2, <2>3
<1> QED
  BY <1>1, <1>2, <1>3, <1>4, <1>5 DEF Sender

LEMMA SenderWire ==
  ASSUME TInv, Sender
  PROVE  wire' \in Seq(Packets) /\ OnWire'
<1> DEFINE p == [frame |-> head, from |-> done, seq |-> curSeq]
<1>1. CASE UNCHANGED wire
  BY <1>1, Untouched
<1>2. CASE SendPart /\ wire' = Append(wire, p)
  <2>1. p \in Packets /\ p.from < Total[p.frame]
    BY <1>2, NewPart DEF SendPart, Trying
  <2> HIDE DEF p
  <2> QED
    BY <1>2, <2>1, WireGrows
<1>3. UNCHANGED wire \/ (SendPart /\ wire' = Append(wire, p))
  BY DEF Sender, BeginFrame, SendPart, RefusePart, EndFrame, GiveUp
<1> QED
  BY <1>1, <1>2, <1>3

LEMMA NextTInv == TInv /\ [Next]_vars => TInv'
<1> SUFFICES ASSUME TInv, [Next]_vars PROVE TInv'
  OBVIOUS
<1>0. LinkTypes /\ BoundTypes
  BY DEF TInv, TypeOK
<1>1. CASE Sender
  <2>1. UNCHANGED <<conn, inRoom, viewer>>
    BY <1>1 DEF Sender, BeginFrame, SendPart, RefusePart, EndFrame, GiveUp
  <2> QED
    BY <1>1, <2>1, SenderTInv, SenderWire, Untouched DEF TInv, TypeOK
<1>2. CASE SharerBreaks
  <2>1. PICK k \in 0 .. Len(wire) : wire' = SubSeq(wire, 1, k)
    BY <1>2 DEF SharerBreaks
  <2>2. wire' \in Seq(Packets) /\ OnWire'
    BY <2>1, WireCut
  <2>3. LinkTypes' /\ BoundTypes'
    BY <1>0, <1>2, <2>2, TransferAssumption
       DEF SharerBreaks, LinkTypes, BoundTypes, Connections
  <2> QED
    BY <1>2, <2>2, <2>3, Untouched DEF SharerBreaks, TInv, TypeOK
<1>3. CASE SharerDetects \/ SharerReconnects \/ SendJoin
  <2>1. UNCHANGED <<sharer, wire, inRoom, viewer, bounds>> /\ conn' \in Connections
    BY <1>3 DEF SharerDetects, SharerReconnects, SendJoin, Connections
  <2>2. LinkTypes'
    BY <1>0, <2>1 DEF LinkTypes
  <2> QED
    BY <2>1, <2>2, Untouched DEF TInv, TypeOK
<1>4. CASE ViewerReceives
  <2>1. wire' \in Seq(Packets) /\ OnWire'
    BY <1>4, WireShrinks DEF ViewerReceives
  <2>2. ViewerTypes' /\ Sized'
    BY <1>4, HeadPart, HandleType DEF ViewerReceives, ViewerTypes
  <2> QED
    BY <1>4, <2>1, <2>2, Untouched DEF ViewerReceives, TInv, TypeOK
<1>5. CASE WireDrops
  <2>1. wire' \in Seq(Packets) /\ OnWire'
    BY <1>5, WireShrinks DEF WireDrops
  <2> QED
    BY <1>5, <2>1, Untouched DEF WireDrops, TInv, TypeOK
<1>6. CASE ViewerJoins \/ ViewerLeaves
  <2>1. UNCHANGED <<sharer, conn, wire, viewer>> /\ inRoom' \in BOOLEAN
    BY <1>6 DEF ViewerJoins, ViewerLeaves
  <2>2. BoundTypes'
    BY <1>0, <1>6, Untouched, TransferAssumption DEF ViewerJoins, ViewerLeaves, BoundTypes
  <2>3. LinkTypes'
    BY <1>0, <2>1 DEF LinkTypes
  <2> QED
    BY <2>1, <2>2, <2>3, Untouched DEF TInv, TypeOK
<1>7. CASE ViewerTakes
  <2>1. UNCHANGED <<sharer, conn, wire, inRoom, cur, delivered, overrun, bounds>>
    BY <1>7 DEF ViewerTakes
  <2>2. ViewerTypes' /\ Sized'
    BY <1>7, <2>1, TransferAssumption
       DEF ViewerTakes, TInv, TypeOK, ViewerTypes, Sized
  <2> QED
    BY <2>1, <2>2, Untouched DEF TInv, TypeOK
<1>8. CASE UNCHANGED vars
  BY <1>8, Untouched DEF vars, TInv, TypeOK
<1> QED
  BY <1>1, <1>2, <1>3, <1>4, <1>5, <1>6, <1>7, <1>8 DEF Next, Link, Viewers

(* sendDataToRUDP never counts past the end of a frame (the last packet is  *)
(* a short one), and all counters and buffers keep their types.             *)
THEOREM Typing == Spec => []TypeOK
<1>1. TInv => TypeOK
  BY DEF TInv
<1> QED
  BY <1>1, InitTInv, NextTInv, PTL DEF Spec

-----------------------------------------------------------------------------
(* Mixed frames.  The viewer does not compare numbers when it appends, so   *)
(* all depends on what the wire can hold: every packet that does not begin  *)
(* a frame comes right behind the packet before it, and no begin mark bears *)
(* a number that is still about.  Only a viewer that has lost the room may  *)
(* hold what does not fit the first packet: it is stray (1) until it starts *)
(* another frame or delivers this one, and that is the one it may mix.      *)

(* The first k units of frame n, and what the viewer holds after packet p   *)
Start(n, k) == [i \in 1 .. k |-> <<n, i>>]

HeldAfter(p) ==
  [seq |-> p.seq, total |-> Total[p.frame], len |-> p.from + PartLen(p),
   data |-> Start(p.frame, p.from + PartLen(p))]

(* Packet p goes on where the j-th packet on the wire stops, or, if j = 0,  *)
(* where the viewer's frame does; a viewer without a frame takes no part.   *)
Follows(stray, j, p) ==
  IF j = 0
    THEN \/ stray = 1 \/ cur = NoFrame
         \/ /\ cur.seq = p.seq /\ cur.total = Total[p.frame]
            /\ cur.len = p.from /\ cur.data = Start(p.frame, p.from)
    ELSE /\ wire[j].frame = p.frame /\ wire[j].seq = p.seq
         /\ wire[j].from + PartLen(wire[j]) = p.from

Unused(j, s) ==
  /\ cur # NoFrame => cur.seq # s
  /\ \A i \in 1 .. j : wire[i].seq # s

Fits(stray, j, p) == IF BeginMark(p) THEN Unused(j, p.seq) ELSE Follows(stray, j, p)

nextPart == [frame |-> head, from |-> done, seq |-> curSeq]

WireFits(stray)   == \A j \in 1 .. Len(wire) : Fits(stray, j - 1, wire[j])
SenderFits(stray) ==
  conn = "up" /\ sending /\ done < Total[head] => Fits(stray, Len(wire), nextPart)
AwayIdle(stray)   == inRoom \/ cur = NoFrame \/ stray = 1

Chain(stray) == WireFits(stray) /\ SenderFits(stray) /\ AwayIdle(stray)

MixInv == \E stray \in {0, 1} : Chain(stray) /\ Cardinality(Mixed) + stray <= leaves

LEMMA InitMix == Init => MixInv
<1> SUFFICES ASSUME Init PROVE MixInv
  OBVIOUS
<1>1. Chain(0)
  BY DEF Init, Chain, WireFits, SenderFits, AwayIdle
<1>2. Mixed = {} /\ leaves = 0
  BY DEF Init, Mixed
<1> QED
  BY <1>1, <1>2, FS_EmptySet DEF MixInv

-----------------------------------------------------------------------------
(* The mixed frames *)

LEMMA MixedFacts ==
  ASSUME TInv
  PROVE  /\ DOMAIN delivered = 1 .. Len(delivered) /\ Len(delivered) \in Nat
         /\ IsFiniteSet(Mixed) /\ Cardinality(Mixed) \in Nat
<1>1. DOMAIN delivered = 1 .. Len(delivered) /\ Len(delivered) \in Nat
  BY DEF TInv, TypeOK, ViewerTypes
<1>2. IsFiniteSet(1 .. Len(delivered)) /\ Mixed \subseteq 1 .. Len(delivered)
  BY <1>1, FS_Interval DEF Mixed
<1>3. IsFiniteSet(Mixed)
  BY <1>2, FS_Subset
<1> QED
  BY <1>1, <1>3, FS_CardinalityType

LEMMA MixedGrows ==
  ASSUME TInv, NEW d \in Seq(Frames \X Nat), delivered' = Append(delivered, d)
  PROVE  /\ IsWhole(d) => Cardinality(Mixed') = Cardinality(Mixed)
         /\ ~IsWhole(d) => Cardinality(Mixed') = Cardinality(Mixed) + 1
<1>1. delivered \in Seq(Seq(Frames \X Nat))
  BY DEF TInv, TypeOK, ViewerTypes
<1>2. /\ DOMAIN delivered = 1 .. Len(delivered) /\ Len(delivered) \in Nat
      /\ DOMAIN delivered' = 1 .. Len(delivered) + 1
      /\ \A i \in 1 .. Len(delivered) : delivered'[i] = delivered[i]
      /\ delivered'[Len(delivered) + 1] = d
  BY <1>1, AppendProperties
<1>m. Mixed' = {i \in DOMAIN delivered' : ~IsWhole(delivered'[i])}
  BY DEF Mixed, IsWhole, Whole
<1>3. IsWhole(d) => Mixed' = Mixed
  BY <1>2, <1>m DEF Mixed
<1>4. ~IsWhole(d) => Mixed' = Mixed \cup {Len(delivered) + 1}
  BY <1>2, <1>m DEF Mixed
<1>5. Len(delivered) + 1 \notin Mixed
  BY <1>2 DEF Mixed
<1> QED
  BY <1>3, <1>4, <1>5, MixedFacts, FS_AddElement

LEMMA MixedStays == UNCHANGED delivered => Mixed' = Mixed
  BY DEF Mixed, IsWhole, Whole

-----------------------------------------------------------------------------
(* The chain *)

(* A packet that fits extends the first units of its frame.                 *)
LEMMA Extended ==
  ASSUME TInv, NEW p \in Packets, p.from < Total[p.frame], NEW stray \in {0, 1},
         Fits(stray, 0, p), BeginMark(p) \/ (stray = 0 /\ cur # NoFrame)
  PROVE  Collected(p) = HeldAfter(p)
<1>0. /\ p.from \in Nat /\ PartLen(p) \in Nat \ {0}
      /\ Total[p.frame] \in Nat /\ p.from + PartLen(p) <= Total[p.frame]
  BY PartFacts DEF Packets
<1> DEFINE frame == IF Starts(p) THEN Started(p) ELSE cur
<1>1. /\ frame.seq = p.seq /\ frame.total = Total[p.frame]
      /\ frame.len = p.from /\ frame.data = Start(p.frame, p.from)
  <2>1. CASE BeginMark(p)
    <3>1. Starts(p)
      BY <2>1 DEF Fits, Unused, Starts
    <3>2. p.from = 0 /\ Start(p.frame, 0) = <<>>
      BY <2>1 DEF BeginMark, Start
    <3> QED
      BY <3>1, <3>2 DEF Started
  <2>2. CASE ~BeginMark(p)
    <3>1. ~Starts(p)
      BY <2>2 DEF Starts
    <3>2. Follows(stray, 0, p) /\ stray # 1
      BY <2>2 DEF Fits
    <3> QED
      BY <2>2, <3>1, <3>2 DEF Follows
  <2> QED
    BY <2>1, <2>2
<1>2. Collected(p) = Appended(frame, p)
  <2>1. ~(frame.len + PartLen(p) > frame.total)
    BY <1>0, <1>1
  <2> QED
    BY <2>1 DEF Collected
<1> HIDE DEF frame
<1>3. Appended(frame, p) =
        [seq |-> p.seq, total |-> Total[p.frame], len |-> p.from + PartLen(p),
         data |-> [i \in 1 .. p.from + PartLen(p) |->
                     IF i <= p.from THEN Start(p.frame, p.from)[i]
                     ELSE <<p.frame, p.from + i - p.from>>]]
  BY <1>1 DEF Appended
<1>4. ASSUME NEW i \in 1 .. p.from + PartLen(p)
      PROVE  (IF i <= p.from THEN Start(p.frame, p.from)[i]
              ELSE <<p.frame, p.from + i - p.from>>) = <<p.frame, i>>
  <2>1. CASE i <= p.from
    <3>1. i \in 1 .. p.from
      BY <1>0, <2>1
    <3> QED
      BY <2>1, <3>1 DEF Start
  <2>2. CASE ~(i <= p.from)
    <3>1. p.from + i - p.from = i
      BY <1>0
    <3> QED
      BY <2>2, <3>1
  <2> QED
    BY <2>1, <2>2
<1>5. [i \in 1 .. p.from + PartLen(p) |->
         IF i <= p.from THEN Start(p.frame, p.from)[i]
         ELSE <<p.frame, p.from + i - p.from>>] = Start(p.frame, p.from + PartLen(p))
  BY <1>4 DEF Start
<1> QED
  BY <1>2, <1>3, <1>5 DEF HeldAfter

(* A packet that extends a stray frame leaves its number.                   *)
LEMMA StrayExtended ==
  ASSUME TInv, NEW p \in Packets, ~BeginMark(p)
  PROVE  Collected(p).seq = cur.seq
  BY DEF Collected, Starts, Appended

(* The viewer's state fits what comes after packet p: it holds nothing, or  *)
(* what it holds after p, or it stays stray.                                *)
Held(stray, p) ==
  \/ cur' = NoFrame
  \/ cur' = HeldAfter(p)
  \/ stray = 1 /\ cur # NoFrame /\ cur'.seq = cur.seq

(* So the viewer drops a fitting packet, delivers a whole frame (or loses   *)
(* it at a full m_RecvQ), or holds what fits the next packet; a stray one   *)
(* may deliver one that is mixed.                                           *)
LEMMA Received ==
  ASSUME TInv, NEW p \in Packets, p.from < Total[p.frame], NEW stray \in {0, 1},
         Fits(stray, 0, p), Handle(p)
  PROVE  \/ delivered' = delivered /\ Held(stray, p)
         \/ /\ cur' = NoFrame
            /\ \E d \in Seq(Frames \X Nat) :
                 delivered' = Append(delivered, d) /\ (stray = 1 \/ IsWhole(d))
<1>1. CASE cur = NoFrame /\ ~BeginMark(p)
  BY <1>1 DEF Handle, Starts, viewer, Held
<1>2. CASE cur # NoFrame \/ BeginMark(p)
  <2>1. ~(cur = NoFrame /\ ~Starts(p))
    BY <1>2 DEF Starts
  <2>2. Collected(p).data \in Seq(Frames \X Nat)
    BY <2>1, CollectedType DEF Buffers, Partial
  <2>3. BeginMark(p) \/ stray = 0 => Collected(p) = HeldAfter(p)
    BY <1>2, Extended
  <2>4. CASE EndMark(p) /\ Collected(p).len = Total[p.frame]
    <3>1. cur' = NoFrame /\ Queue(Collected(p).data)
      BY <2>1, <2>4 DEF Handle
    <3>3. delivered' = Append(delivered, Collected(p).data) \/ delivered' = delivered
      BY <2>2, <3>1, Queued
    <3>2. stray = 1 \/ IsWhole(Collected(p).data)
      <4>1. CASE stray = 0
        <5>1. HeldAfter(p).data = Whole(p.frame)
          BY <4>1, <2>3, <2>4 DEF HeldAfter, Start, Whole
        <5> QED
          BY <4>1, <5>1, <2>3 DEF IsWhole, Packets
      <4> QED
        BY <4>1
    <3> QED
      BY <3>1, <3>2, <3>3, <2>2 DEF Held
  <2>5. CASE ~(EndMark(p) /\ Collected(p).len = Total[p.frame])
    <3>1. cur' = Collected(p) /\ delivered' = delivered
      BY <2>1, <2>5 DEF Handle
    <3>2. CASE BeginMark(p) \/ stray = 0
      BY <3>1, <3>2, <2>3 DEF Held
    <3>3. CASE ~BeginMark(p) /\ stray = 1
      BY <3>1, <3>3, <1>2, StrayExtended DEF Held
    <3> QED
      BY <3>1, <3>2, <3>3
  <2> QED
    BY <2>4, <2>5
<1> QED
  BY <1>1, <1>2

(* When the first packet is gone, what fitted behind the k-th packet fits   *)
(* behind it still.                                                         *)
LEMMA StillFits ==
  ASSUME TInv, wire # <<>>, wire' = Tail(wire),
         NEW old \in {0, 1}, NEW new \in {0, 1}, Held(new, wire[1]),
         NEW k \in 1 .. Len(wire), NEW q \in Packets, Fits(old, k, q)
  PROVE  Fits(new, k - 1, q)'
<1>1. wire \in Seq(Packets)
  BY DEF TInv, TypeOK, LinkTypes
<1>2. /\ Len(wire') = Len(wire) - 1 /\ Len(wire) \in Nat \ {0}
      /\ \A j \in 1 .. Len(wire') : wire'[j] = wire[j + 1]
  BY <1>1, HeadTailProperties
<1>3. k - 1 \in 0 .. Len(wire')
  BY <1>2
<1>4. CASE BeginMark(q)
  <2>1. /\ \A i \in 1 .. k : wire[i].seq # q.seq
        /\ cur # NoFrame => cur.seq # q.seq
    BY <1>4 DEF Fits, Unused
  <2>2. \A i \in 1 .. k - 1 : wire'[i].seq # q.seq
    BY <1>2, <2>1
  <2>3. cur' # NoFrame => cur'.seq # q.seq
    BY <2>1 DEF HeldAfter, Held
  <2> QED
    BY <1>4, <2>2, <2>3 DEF Fits, Unused, BeginMark
<1>5. CASE ~BeginMark(q)
  <2>1. /\ wire[k].frame = q.frame /\ wire[k].seq = q.seq
        /\ wire[k].from + PartLen(wire[k]) = q.from
    BY <1>5 DEF Fits, Follows
  <2>2. CASE k = 1
    BY <1>5, <2>1, <2>2 DEF Fits, Follows, HeldAfter, Held, BeginMark
  <2>3. CASE k # 1
    <3>1. wire'[k - 1] = wire[k] /\ k - 1 # 0
      BY <1>2, <2>3
    <3> QED
      BY <1>5, <2>1, <3>1 DEF Fits, Follows, BeginMark, PartLen
  <2> QED
    BY <2>2, <2>3
<1> QED
  BY <1>4, <1>5

(* After Tail, the chain is as before, one place on. *)
LEMMA ChainShifts ==
  ASSUME TInv, wire # <<>>, wire' = Tail(wire), UNCHANGED <<sharer, conn>>,
         NEW old \in {0, 1}, NEW new \in {0, 1}, Chain(old), Held(new, wire[1])
  PROVE  WireFits(new)' /\ SenderFits(new)'
<1>1. wire \in Seq(Packets)
  BY DEF TInv, TypeOK, LinkTypes
<1>2. /\ Len(wire') = Len(wire) - 1 /\ Len(wire) \in Nat \ {0}
      /\ \A j \in 1 .. Len(wire') : wire'[j] = wire[j + 1]
  BY <1>1, HeadTailProperties
<1>3. \A k \in 1 .. Len(wire), q \in Packets : Fits(old, k, q) => Fits(new, k - 1, q)'
  BY StillFits
<1>4. ASSUME NEW j \in 1 .. Len(wire')
      PROVE  Fits(new, j - 1, wire[j])'
  <2>1. j \in 1 .. Len(wire) /\ j + 1 \in 1 .. Len(wire) /\ j + 1 - 1 = j
    BY <1>2
  <2>2. wire[j + 1] \in Packets /\ Fits(old, j, wire[j + 1])
    BY <1>1, <2>1 DEF Chain, WireFits
  <2>3. wire'[j] = wire[j + 1]
    BY <1>2
  <2>4. \A q \in Packets : Fits(old, j, q) => Fits(new, j - 1, q)'
    BY <1>3, <2>1
  <2> QED
    BY <2>2, <2>3, <2>4 DEF Fits, Follows, Unused, BeginMark, PartLen
<1>5. SenderFits(new)'
  <2> SUFFICES ASSUME conn' = "up", sending', done' < Total[head']
               PROVE  Fits(new, Len(wire), nextPart)'
    BY DEF SenderFits
  <2>1. nextPart' = nextPart /\ conn = "up" /\ sending /\ done < Total[head]
    BY DEF nextPart, sharer, attempt
  <2>2. nextPart \in Packets /\ Fits(old, Len(wire), nextPart)
    BY <2>1, NewPart DEF nextPart, Chain, SenderFits
  <2>3. PICK n \in 1 .. Len(wire) : n = Len(wire)
    <3>1. Len(wire) \in 1 .. Len(wire)
      BY <1>2
    <3> QED
      BY <3>1, Zenon
  <2>4. n - 1 = Len(wire')
    BY <1>2, <2>3
  <2>5. \A q \in Packets : Fits(old, n, q) => Fits(new, n - 1, q)'
    BY <1>3
  <2>6. Fits(old, n, nextPart)
    BY <2>2, <2>3
  <2> HIDE DEF nextPart
  <2>7. Fits(new, n - 1, nextPart)'
    BY <2>1, <2>2, <2>5, <2>6 DEF Fits, Follows, Unused, BeginMark, PartLen
  <2> QED
    BY <2>4, <2>7 DEF Fits, Follows, Unused
<1> QED
  BY <1>4, <1>5 DEF WireFits

(* A step that changes nothing of the chain keeps it, and what fits a       *)
(* viewer that is not stray fits one that is.                               *)
LEMMA ChainStays ==
  ASSUME NEW stray \in {0, 1}, Chain(stray), UNCHANGED <<wire, cur>>
  PROVE  /\ WireFits(stray)'
         /\ UNCHANGED <<conn, head, sending, done, curSeq>> => SenderFits(stray)'
         /\ UNCHANGED inRoom => AwayIdle(stray)'
<1>1. WireFits(stray)'
  BY DEF Chain, WireFits, Fits, Follows, Unused, BeginMark, PartLen
<1>2. UNCHANGED <<conn, head, sending, done, curSeq>> => SenderFits(stray)'
  BY DEF Chain, SenderFits, nextPart, Fits, Follows, Unused, BeginMark, PartLen
<1> QED
  BY <1>1, <1>2 DEF Chain, AwayIdle

LEMMA ChainLoosens ==
  ASSUME NEW stray \in {0, 1}, Chain(stray)
  PROVE  Chain(1)
  BY DEF Chain, WireFits, SenderFits, AwayIdle, Fits, Follows

LEMMA SendPartChain ==
  ASSUME TInv, NEW stray \in {0, 1}, Chain(stray), SendPart
  PROVE  Chain(stray)'
<1>0. UNCHANGED <<conn, cur, inRoom>> /\ AwayIdle(stray)'
  BY DEF SendPart, viewer, Chain, AwayIdle
<1>1. CASE conn = "up"
  <2>1. /\ wire' = Append(wire, nextPart)
        /\ nextPart \in Packets /\ nextPart.from < Total[nextPart.frame]
        /\ Fits(stray, Len(wire), nextPart)
    BY <1>1, NewPart DEF SendPart, Trying, nextPart, Chain, SenderFits
  <2>2. wire \in Seq(Packets)
    BY DEF TInv, TypeOK, LinkTypes
  <2>3. /\ Len(wire') = Len(wire) + 1 /\ Len(wire) \in Nat
        /\ \A j \in 1 .. Len(wire) : wire'[j] = wire[j]
        /\ wire'[Len(wire) + 1] = nextPart
    BY <2>1, <2>2, AppendProperties
  <2>4. ASSUME NEW j \in 1 .. Len(wire')
        PROVE  Fits(stray, j - 1, wire[j])'
    <3>1. CASE j = Len(wire) + 1
      <4>1. wire'[j] = nextPart /\ j - 1 = Len(wire)
        BY <2>3, <3>1
      <4> QED
        BY <1>0, <2>1, <2>3, <4>1 DEF Fits, Follows, Unused, BeginMark, PartLen
    <3>2. CASE j # Len(wire) + 1
      <4>1. j \in 1 .. Len(wire) /\ wire'[j] = wire[j] /\ j - 1 \in 0 .. Len(wire)
        BY <2>3, <3>2
      <4>2. Fits(stray, j - 1, wire[j])
        BY <4>1 DEF Chain, WireFits
      <4> QED
        BY <1>0, <2>3, <4>1, <4>2 DEF Fits, Follows, Unused, BeginMark, PartLen
    <3> QED
      BY <3>1, <3>2
  <2>5. Fits(stray, Len(wire), nextPart)'
    <3>1. /\ head' = head /\ curSeq' = curSeq
          /\ done' = done + PartLen(nextPart)
      BY DEF SendPart, nextPart
    <3>2. done' # 0 /\ Len(wire') # 0
      BY <2>1, <2>3, <3>1, PartFacts DEF nextPart, Packets
    <3> QED
      BY <2>3, <3>1, <3>2 DEF Fits, Follows, BeginMark, nextPart, PartLen
  <2> QED
    BY <1>0, <2>4, <2>5 DEF Chain, WireFits, SenderFits
<1>2. CASE conn # "up"
  <2>1. UNCHANGED wire
    BY <1>2 DEF SendPart
  <2> QED
    BY <1>0, <1>2, <2>1, ChainStays DEF Chain, SenderFits
<1> QED
  BY <1>1, <1>2

-----------------------------------------------------------------------------
(* The steps.  Those of the sharer and its connection leave alone what was  *)
(* delivered.                                                               *)

LEMMA SharerChain ==
  ASSUME TInv, NEW stray \in {0, 1}, Chain(stray), Sender \/ Link
  PROVE  Chain(stray)' /\ UNCHANGED <<delivered, leaves>>
<1>1. CASE BeginFrame
  <2>1. UNCHANGED <<conn, head, wire, cur, inRoom, delivered, leaves>>
    BY <1>1 DEF BeginFrame, viewer, bounds
  <2>2. Fits(stray, Len(wire), nextPart)'
    <3>1. Fresh(NextNumber) /\ curSeq' = NextNumber /\ done' = 0
      BY <1>1 DEF BeginFrame
    <3>2. DOMAIN wire = 1 .. Len(wire)
      BY DEF TInv, TypeOK, LinkTypes
    <3> QED
      BY <2>1, <3>1, <3>2 DEF Fresh, Fits, Unused, BeginMark, nextPart
  <2> QED
    BY <2>1, <2>2, ChainStays DEF Chain, SenderFits
<1>2. CASE SendPart
  BY <1>2, SendPartChain DEF SendPart, viewer, bounds
<1>3. CASE RefusePart
  BY <1>3, ChainStays DEF RefusePart, viewer, Chain
<1>4. CASE EndFrame \/ GiveUp
  <2>1. UNCHANGED <<wire, cur, inRoom, delivered, leaves>> /\ ~sending'
    BY <1>4 DEF EndFrame, GiveUp, viewer, bounds
  <2> QED
    BY <2>1, ChainStays DEF Chain, SenderFits
<1>5. CASE SharerBreaks
  <2>1. PICK k \in 0 .. Len(wire) : wire' = SubSeq(wire, 1, k)
    BY <1>5 DEF SharerBreaks
  <2>2. /\ Len(wire') = k
        /\ \A j \in 1 .. k : wire'[j] = wire[j]
    BY <2>1, WireCut
  <2>3. UNCHANGED <<cur, inRoom, delivered, leaves>> /\ conn' # "up"
    BY <1>5 DEF SharerBreaks, viewer
  <2>4. Len(wire) \in Nat
    BY DEF TInv, TypeOK, LinkTypes
  <2>5. ASSUME NEW j \in 1 .. Len(wire')
        PROVE  Fits(stray, j - 1, wire[j])'
    <3>1. j \in 1 .. Len(wire) /\ wire'[j] = wire[j]
      BY <2>2, <2>4
    <3>2. Fits(stray, j - 1, wire[j])
      BY <3>1 DEF Chain, WireFits
    <3> QED
      BY <2>2, <2>3, <3>1, <3>2 DEF Fits, Follows, Unused, BeginMark, PartLen
  <2> QED
    BY <2>3, <2>5 DEF Chain, WireFits, SenderFits, AwayIdle
<1>6. CASE SharerDetects \/ SharerReconnects \/ SendJoin
  <2>1. UNCHANGED <<wire, cur, inRoom, delivered, sending, leaves>>
    BY <1>6 DEF SharerDetects, SharerReconnects, SendJoin, sharer, attempt, viewer, bounds
  <2>2. conn' # "up" \/ ~sending
    BY <1>6 DEF SharerDetects, SharerReconnects, SendJoin
  <2> QED
    BY <2>1, <2>2, ChainStays DEF Chain, SenderFits
<1> QED
  BY <1>1, <1>2, <1>3, <1>4, <1>5, <1>6 DEF Sender, Link

LEMMA ReceivesMix ==
  ASSUME TInv, NEW stray \in {0, 1}, Chain(stray), Cardinality(Mixed) + stray <= leaves,
         ViewerReceives
  PROVE  MixInv'
<1> DEFINE p == wire[1]
<1>1. /\ wire # <<>> /\ Head(wire) = p /\ wire' = Tail(wire)
      /\ Handle(p) /\ inRoom' /\ UNCHANGED <<sharer, conn, leaves>>
  BY DEF ViewerReceives, bounds
<1>2. p \in Packets /\ p.from < Total[p.frame]
  BY <1>1, HeadPart
<1>3. Fits(stray, 0, p)
  <2>1. 1 \in 1 .. Len(wire) /\ 1 - 1 = 0
    BY <1>1 DEF TInv, TypeOK, LinkTypes
  <2> QED
    BY <2>1 DEF Chain, WireFits
<1>4. \A new \in {0, 1} : Held(new, p) => Chain(new)'
  BY <1>1, ChainShifts DEF p, Chain, AwayIdle
<1> HIDE DEF p
<1>5. Cardinality(Mixed) \in Nat /\ leaves \in Nat
  BY MixedFacts DEF TInv, TypeOK, BoundTypes
<1>6. CASE delivered' = delivered /\ Held(stray, p)
  BY <1>1, <1>4, <1>6, MixedStays DEF MixInv
<1>7. CASE /\ cur' = NoFrame
           /\ \E d \in Seq(Frames \X Nat) :
                delivered' = Append(delivered, d) /\ (stray = 1 \/ IsWhole(d))
  <2>1. PICK d \in Seq(Frames \X Nat) :
          delivered' = Append(delivered, d) /\ (stray = 1 \/ IsWhole(d))
    BY <1>7
  <2>2. Chain(0)'
    BY <1>4, <1>7 DEF Held
  <2>3. Cardinality(Mixed') + 0 <= leaves'
    BY <1>1, <1>5, <2>1, MixedGrows
  <2> QED
    BY <2>2, <2>3 DEF MixInv
<1> QED
  BY <1>1, <1>2, <1>3, <1>6, <1>7, Received

LEMMA NextMix == TInv /\ MixInv /\ [Next]_vars => MixInv'
<1> SUFFICES ASSUME TInv, MixInv, [Next]_vars PROVE MixInv'
  OBVIOUS
<1>0. PICK stray \in {0, 1} : Chain(stray) /\ Cardinality(Mixed) + stray <= leaves
  BY DEF MixInv
<1>n. Cardinality(Mixed) \in Nat /\ leaves \in Nat
  BY MixedFacts DEF TInv, TypeOK, BoundTypes
<1>1. CASE Sender \/ Link
  BY <1>0, <1>1, SharerChain, MixedStays DEF MixInv
<1>2. CASE ViewerReceives
  BY <1>0, <1>2, ReceivesMix
<1>3. CASE WireDrops
  <2>1. /\ wire # <<>> /\ wire' = Tail(wire) /\ ~inRoom
        /\ UNCHANGED <<sharer, conn, cur, inRoom, delivered, leaves>>
    BY <1>3 DEF WireDrops, viewer, bounds
  <2>2. Held(stray, wire[1])
    BY <1>0, <2>1 DEF Chain, AwayIdle, Held
  <2>3. Chain(stray)'
    BY <1>0, <2>1, <2>2, ChainShifts DEF Chain, AwayIdle
  <2> QED
    BY <1>0, <2>1, <2>3, MixedStays DEF MixInv
<1>4. CASE ViewerJoins
  <2>1. Chain(stray)' /\ UNCHANGED <<delivered, leaves>>
    BY <1>0, <1>4, ChainStays
       DEF ViewerJoins, sharer, attempt, viewer, bounds, Chain, AwayIdle
  <2> QED
    BY <1>0, <2>1, MixedStays DEF MixInv
<1>5. CASE ViewerLeaves
  <2>1. UNCHANGED <<conn, head, sending, done, curSeq, wire, cur, delivered>>
    BY <1>5 DEF ViewerLeaves, sharer, attempt, viewer
  <2>2. Chain(1)
    BY <1>0, ChainLoosens
  <2>3. Chain(1)'
    BY <2>1, <2>2, ChainStays DEF Chain, AwayIdle
  <2>4. leaves' = leaves + 1
    BY <1>5 DEF ViewerLeaves
  <2>5. Cardinality(Mixed') + 1 <= leaves'
    BY <1>0, <1>n, <2>1, <2>4, MixedStays
  <2> QED
    BY <2>3, <2>5 DEF MixInv
<1>6. CASE ViewerTakes \/ UNCHANGED vars
  <2>0. UNCHANGED <<conn, head, sending, done, curSeq, wire, inRoom, cur, delivered, leaves>>
    BY <1>6 DEF ViewerTakes, vars, sharer, attempt, viewer, bounds
  <2>1. Chain(stray)'
    BY <1>0, <2>0, ChainStays DEF Chain
  <2> QED
    BY <1>0, <2>0, <2>1, MixedStays DEF MixInv
<1> QED
  BY <1>1, <1>2, <1>3, <1>4, <1>5, <1>6 DEF Next, Viewers

(* Every frame handed to the decoder is one frame, whole, but for at most   *)
(* one for each time the viewer lost the room: whatever is refused, sent    *)
(* again, lost in a break or cut in two by a reconnection, for every size   *)
(* of frames and packets and any number of breaks.                          *)
THEOREM FramesAreWhole == Spec => []OneMixedPerLeave
<1>1. TInv /\ MixInv => OneMixedPerLeave
  <2> SUFFICES ASSUME TInv, MixInv PROVE OneMixedPerLeave
    OBVIOUS
  <2>1. Cardinality(Mixed) \in Nat /\ leaves \in Nat
    BY MixedFacts DEF TInv, TypeOK, BoundTypes
  <2> QED
    BY <2>1 DEF MixInv, OneMixedPerLeave
<1> QED
  BY <1>1, InitTInv, InitMix, NextTInv, NextMix, PTL DEF Spec

(* As long as it keeps its place, all are.                                  *)
THEOREM WholeWhileInRoom == Spec => [](leaves = 0 => WholeFrames)
<1>1. TInv /\ OneMixedPerLeave => (leaves = 0 => WholeFrames)
  <2> SUFFICES ASSUME TInv, OneMixedPerLeave, leaves = 0 PROVE WholeFrames
    OBVIOUS
  <2>1. IsFiniteSet(Mixed) /\ Cardinality(Mixed) = 0
    BY MixedFacts DEF OneMixedPerLeave
  <2>2. Mixed = {}
    BY <2>1, FS_EmptySet
  <2> QED
    BY <2>2 DEF Mixed, WholeFrames
<1> QED
  BY <1>1, InitTInv, NextTInv, FramesAreWhole, PTL DEF Spec

-----------------------------------------------------------------------------
(* Only forward.  A frame is handed on at a packet with an end mark, and    *)
(* nothing of a frame is sent after its end mark: every later packet is of  *)
(* a later frame, wherever the viewer was meanwhile.                        *)

(* The oldest frame of which a packet may still be sent *)
Sendable == IF sending /\ done = Total[head] THEN head + 1 ELSE head

Before(p, n) == IF EndMark(p) THEN p.frame < n ELSE p.frame <= n

(* The frames of which the viewer holds a unit, or has handed one on *)
HeldFrames  == IF cur = NoFrame THEN {} ELSE {cur.data[k][1] : k \in 1 .. cur.len}
ShownFrames == {n \in Frames : \E i \in DOMAIN delivered :
                                 \E k \in DOMAIN delivered[i] : delivered[i][k][1] = n}

WireForward ==
  /\ \A j \in 1 .. Len(wire) : Before(wire[j], Sendable)
  /\ \A i, j \in 1 .. Len(wire) : i < j => Before(wire[i], wire[j].frame)

HeldForward ==
  \A n \in HeldFrames : n <= Sendable /\ \A j \in 1 .. Len(wire) : n <= wire[j].frame

ShownForward ==
  \A n \in ShownFrames : /\ n < Sendable
                         /\ \A j \in 1 .. Len(wire) : n < wire[j].frame
                         /\ \A m \in HeldFrames : n < m

FwdInv == WireForward /\ HeldForward /\ ShownForward /\ OnlyForward

LEMMA InitFwd == Init => FwdInv
BY DEF Init, FwdInv, WireForward, HeldForward, ShownForward, OnlyForward, HeldFrames, ShownFrames

LEMMA ForwardTypes ==
  ASSUME TInv
  PROVE  /\ Sendable \in Nat /\ Len(wire) \in Nat
         /\ \A j \in 1 .. Len(wire) : wire[j] \in Packets /\ wire[j].frame \in Nat
         /\ HeldFrames \subseteq Nat /\ ShownFrames \subseteq Nat
<1>1. Sendable \in Nat
  BY DEF TInv, TypeOK, SenderTypes, Sendable
<1>2. Len(wire) \in Nat /\ \A j \in 1 .. Len(wire) : wire[j] \in Packets
  BY DEF TInv, TypeOK, LinkTypes
<1>3. HeldFrames \subseteq Nat
  BY DEF TInv, Sized, TypeOK, ViewerTypes, Partial, HeldFrames
<1> QED
  BY <1>1, <1>2, <1>3 DEF Packets, ShownFrames

(* Packets leave the wire at either end, and the sender goes on. *)
LEMMA WireThins ==
  ASSUME TInv, FwdInv, UNCHANGED <<cur, delivered>>, Sendable' \in Nat, Sendable <= Sendable',
         Len(wire') \in Nat, NEW s \in {0, 1}, Len(wire') + s <= Len(wire),
         \A j \in 1 .. Len(wire') : wire'[j] = wire[j + s]
  PROVE  FwdInv'
<1>1. HeldFrames' = HeldFrames /\ ShownFrames' = ShownFrames /\ (OnlyForward <=> OnlyForward')
  BY DEF HeldFrames, ShownFrames, OnlyForward
<1>2. \A j \in 1 .. Len(wire') : j + s \in 1 .. Len(wire) /\ wire'[j] = wire[j + s]
  BY ForwardTypes
<1>3. \A j \in 1 .. Len(wire') : Before(wire[j], Sendable)'
  <2> TAKE j \in 1 .. Len(wire')
  <2>1. Before(wire[j + s], Sendable) /\ wire[j + s].frame \in Nat
    BY <1>2, ForwardTypes DEF FwdInv, WireForward
  <2>2. EndMark(wire[j])' <=> EndMark(wire[j + s])
    BY <1>2 DEF EndMark
  <2> QED
    BY <1>2, <2>1, <2>2, ForwardTypes DEF Before
<1>4. \A i, j \in 1 .. Len(wire') : i < j => Before(wire[i], wire[j].frame)'
  <2> SUFFICES ASSUME NEW i \in 1 .. Len(wire'), NEW j \in 1 .. Len(wire'), i < j
               PROVE  Before(wire[i], wire[j].frame)'
    OBVIOUS
  <2>1. Before(wire[i + s], wire[j + s].frame)
    BY <1>2 DEF FwdInv, WireForward
  <2> QED
    BY <1>2, <2>1 DEF Before, EndMark
<1>5. WireForward'
  BY <1>3, <1>4 DEF WireForward
<1>6. ASSUME NEW n \in HeldFrames'
      PROVE  n <= Sendable' /\ \A j \in 1 .. Len(wire') : n <= wire'[j].frame
  <2>1. n <= Sendable /\ n \in Nat /\ \A j \in 1 .. Len(wire) : n <= wire[j].frame
    BY <1>1, ForwardTypes DEF FwdInv, HeldForward
  <2>2. n <= Sendable'
    BY <2>1, ForwardTypes
  <2> QED
    BY <1>2, <2>1, <2>2
<1>7. ASSUME NEW n \in ShownFrames'
      PROVE  /\ n < Sendable' /\ \A j \in 1 .. Len(wire') : n < wire'[j].frame
             /\ \A m \in HeldFrames' : n < m
  <2>1. /\ n < Sendable /\ n \in Nat /\ \A j \in 1 .. Len(wire) : n < wire[j].frame
        /\ \A m \in HeldFrames : n < m
    BY <1>1, ForwardTypes DEF FwdInv, ShownForward
  <2>2. n < Sendable'
    BY <2>1, ForwardTypes
  <2> QED
    BY <1>1, <1>2, <2>1, <2>2
<1>8. HeldForward' /\ ShownForward'
  BY <1>6, <1>7 DEF HeldForward, ShownForward
<1> QED
  BY <1>1, <1>5, <1>8 DEF FwdInv


(* The steps of the sharer: a packet joins the wire behind those of older   *)
(* frames, and none of its frame joins behind an end mark.                  *)
LEMMA SendPartFwd == TInv /\ FwdInv /\ SendPart => FwdInv'
<1> SUFFICES ASSUME TInv, FwdInv, SendPart PROVE FwdInv'
  OBVIOUS
<1> DEFINE p == [frame |-> head, from |-> done, seq |-> curSeq]
<1>1. /\ sending /\ done < Total[head] /\ sending' = sending /\ head' = head
      /\ done' = done + PartLen(p) /\ UNCHANGED <<cur, delivered>>
      /\ wire' = wire \/ wire' = Append(wire, p)
  BY DEF SendPart, Trying, viewer
<1>2. p \in Packets /\ p.from < Total[p.frame]
  BY <1>1, NewPart
<1>3. /\ Sendable = head /\ head \in Nat /\ Sendable' \in Nat
      /\ Sendable' = IF EndMark(p) THEN head + 1 ELSE head
  BY <1>1, <1>2, PartFacts DEF TInv, TypeOK, SenderTypes, Sendable
<1>f. p.frame = head
  OBVIOUS
<1> HIDE DEF p
<1>4. CASE wire' = wire
  <2>1. \A j \in 1 .. Len(wire') : wire'[j] = wire[j + 0]
    BY <1>4, ForwardTypes
  <2> QED
    BY <1>1, <1>3, <1>4, <2>1, WireThins, ForwardTypes
<1>5. CASE wire' = Append(wire, p)
  <2>1. /\ Len(wire') = Len(wire) + 1 /\ Len(wire) \in Nat
        /\ wire'[Len(wire) + 1] = p
        /\ \A j \in 1 .. Len(wire) : wire'[j] = wire[j]
    BY <1>2, <1>5, AppendProperties DEF TInv, TypeOK, LinkTypes
  <2>2. HeldFrames' = HeldFrames /\ ShownFrames' = ShownFrames /\ (OnlyForward <=> OnlyForward')
    BY <1>1 DEF HeldFrames, ShownFrames, OnlyForward
  <2>3. \A j \in 1 .. Len(wire) : Before(wire[j], head) /\ wire[j].frame \in Nat
    BY <1>3, ForwardTypes DEF FwdInv, WireForward
  <2>4. ASSUME NEW j \in 1 .. Len(wire') PROVE Before(wire[j], Sendable)'
    <3>1. CASE j = Len(wire) + 1
      BY <1>3, <1>f, <2>1, <3>1 DEF Before, EndMark
    <3>2. CASE j \in 1 .. Len(wire)
      <4>1. Before(wire[j], head) /\ wire[j].frame \in Nat /\ wire'[j] = wire[j]
        BY <2>1, <2>3, <3>2
      <4>2. EndMark(wire[j])' <=> EndMark(wire[j])
        BY <4>1 DEF EndMark
      <4> QED
        BY <1>3, <4>1, <4>2 DEF Before
    <3> QED
      BY <2>1, <3>1, <3>2
  <2>5. ASSUME NEW i \in 1 .. Len(wire'), NEW j \in 1 .. Len(wire'), i < j
        PROVE  Before(wire[i], wire[j].frame)'
    <3>1. i \in 1 .. Len(wire) /\ wire'[i] = wire[i]
      BY <2>1, <2>5
    <3>2. Before(wire[i], wire'[j].frame)
      BY <1>f, <2>1, <2>3, <2>5, <3>1 DEF FwdInv, WireForward
    <3> QED
      BY <3>1, <3>2 DEF Before, EndMark
  <2>6. ASSUME NEW n \in HeldFrames
        PROVE  n <= Sendable' /\ \A j \in 1 .. Len(wire') : n <= wire'[j].frame
    <3>1. n \in Nat /\ n <= head /\ \A j \in 1 .. Len(wire) : n <= wire[j].frame
      BY <1>3, ForwardTypes DEF FwdInv, HeldForward
    <3> QED
      BY <1>3, <1>f, <2>1, <3>1
  <2>7. ASSUME NEW n \in ShownFrames
        PROVE  n < Sendable' /\ \A j \in 1 .. Len(wire') : n < wire'[j].frame
    <3>1. n \in Nat /\ n < head /\ \A j \in 1 .. Len(wire) : n < wire[j].frame
      BY <1>3, ForwardTypes DEF FwdInv, ShownForward
    <3> QED
      BY <1>3, <1>f, <2>1, <3>1
  <2>8. WireForward'
    BY <2>4, <2>5 DEF WireForward
  <2>9. HeldForward' /\ ShownForward'
    BY <2>2, <2>6, <2>7 DEF FwdInv, HeldForward, ShownForward
  <2> QED
    BY <2>2, <2>8, <2>9 DEF FwdInv
<1> QED
  BY <1>1, <1>4, <1>5

(* The other steps that do not hand a packet to the viewer *)
LEMMA OthersFwd ==
  ASSUME TInv, TInv', FwdInv,
         \/ BeginFrame \/ RefusePart \/ EndFrame \/ GiveUp \/ Link
         \/ ViewerTakes \/ WireDrops \/ ViewerJoins \/ ViewerLeaves \/ UNCHANGED vars
  PROVE  FwdInv'
<1>1. Sendable' \in Nat /\ Len(wire') \in Nat
  <2>1. head' \in Nat
    BY DEF TInv, TypeOK, SenderTypes
  <2>2. Len(wire') \in Nat
    BY DEF TInv, TypeOK, LinkTypes
  <2>3. Sendable' = head' \/ Sendable' = head' + 1
    BY DEF Sendable
  <2> QED
    BY <2>1, <2>2, <2>3
<1>2. UNCHANGED <<cur, delivered>>
  BY DEF BeginFrame, RefusePart, EndFrame, GiveUp, Link, SharerBreaks, SharerDetects,
         SharerReconnects, SendJoin, ViewerTakes, WireDrops, ViewerJoins, ViewerLeaves,
         vars, viewer
<1>3. Sendable <= Sendable'
  <2>1. CASE BeginFrame
    BY <1>1, <2>1, TransferAssumption DEF BeginFrame, Sendable, TInv, TypeOK, SenderTypes
  <2>2. CASE RefusePart
    BY <1>1, <2>2 DEF RefusePart, Sendable
  <2>4. CASE EndFrame
    BY <1>1, <2>4 DEF EndFrame, Sendable
  <2>5. CASE GiveUp
    <3>1. head \in Frames /\ done \in Nat /\ Total[head] \in Nat
      BY <2>5, TransferAssumption DEF GiveUp, HasGivenUp, TInv, TypeOK, SenderTypes
    <3> QED
      BY <1>1, <2>5, <3>1 DEF GiveUp, HasGivenUp, Sendable
  <2>3. CASE UNCHANGED sharer
    BY <1>1, <2>3 DEF sharer, attempt, Sendable
  <2> QED
    BY <2>1, <2>2, <2>3, <2>4, <2>5
       DEF Link, SharerBreaks, SharerDetects, SharerReconnects, SendJoin, ViewerTakes,
           WireDrops, ViewerJoins, ViewerLeaves, vars
<1>4. CASE SharerBreaks
  <2>1. PICK k \in 0 .. Len(wire) : wire' = SubSeq(wire, 1, k)
    BY <1>4 DEF SharerBreaks
  <2>2. Len(wire') = k /\ \A j \in 1 .. k : wire'[j] = wire[j + 0]
    BY <2>1, WireCut
  <2> QED
    BY <1>1, <1>2, <1>3, <2>2, WireThins
<1>5. CASE WireDrops
  <2>1. Len(wire') + 1 = Len(wire) /\ \A j \in 1 .. Len(wire') : wire'[j] = wire[j + 1]
    BY <1>5, ForwardTypes, HeadTailProperties DEF WireDrops, TInv, TypeOK, LinkTypes
  <2> QED
    BY <1>1, <1>2, <1>3, <2>1, ForwardTypes, WireThins
<1>6. CASE UNCHANGED wire
  <2>1. Len(wire') + 0 <= Len(wire) /\ \A j \in 1 .. Len(wire') : wire'[j] = wire[j + 0]
    BY <1>6, ForwardTypes
  <2> QED
    BY <1>1, <1>2, <1>3, <2>1, WireThins
<1> QED
  BY <1>4, <1>5, <1>6
     DEF BeginFrame, RefusePart, EndFrame, GiveUp, Link, SharerDetects, SharerReconnects,
         SendJoin, ViewerTakes, ViewerJoins, ViewerLeaves, vars

(* What the viewer collects or hands on is of the frames it held, or of the *)
(* packet's; it hands on at an end mark only.                               *)
LEMMA CollectedFrames ==
  ASSUME TInv, NEW p \in Packets, p.from < Total[p.frame], cur # NoFrame \/ Starts(p)
  PROVE  LET c == Collected(p)
         IN  /\ c.len \in Nat /\ DOMAIN c.data = 1 .. c.len
             /\ \A k \in 1 .. c.len : c.data[k][1] \in HeldFrames \cup {p.frame}
<1> DEFINE b == IF Starts(p) THEN Started(p) ELSE cur
           Known(c) == \A k \in 1 .. c.len : c.data[k][1] \in HeldFrames \cup {p.frame}
<1>1. b \in Buffers /\ Collected(p) \in Buffers
  BY StartedType, CollectedType DEF TInv, TypeOK, ViewerTypes, Sized, Buffers
<1>2. Known(b)
  <2>1. CASE Starts(p)
    BY <2>1 DEF Started
  <2>2. CASE ~Starts(p)
    BY <2>2 DEF HeldFrames
  <2> QED
    BY <2>1, <2>2
<1>3. Known(Appended(b, p))
  <2>1. b.len \in Nat /\ PartLen(p) \in Nat
    BY <1>1, PartFacts DEF Buffers, Partial
  <2> HIDE DEF b
  <2> QED
    BY <1>2, <2>1 DEF Appended
<1>4. Collected(p) \in {b, Appended(b, p)}
  BY DEF Collected
<1>5. Known(Collected(p))
  BY <1>2, <1>3, <1>4
<1> QED
  BY <1>1, <1>5 DEF Buffers, Partial

LEMMA HandledFrames ==
  ASSUME TInv, NEW p \in Packets, p.from < Total[p.frame], Handle(p)
  PROVE  \/ delivered' = delivered /\ HeldFrames' \subseteq HeldFrames \cup {p.frame}
         \/ /\ EndMark(p) /\ HeldFrames' = {}
            /\ \E d \in Seq(Frames \X Nat) :
                 /\ delivered' = Append(delivered, d)
                 /\ \A k \in DOMAIN d : d[k][1] \in HeldFrames \cup {p.frame}
<1>1. CASE cur = NoFrame /\ ~Starts(p)
  BY <1>1 DEF Handle, viewer, HeldFrames
<1>2. CASE ~(cur = NoFrame /\ ~Starts(p))
  <2> DEFINE c == Collected(p)
  <2>1. /\ c.len \in Nat /\ DOMAIN c.data = 1 .. c.len
        /\ \A k \in 1 .. c.len : c.data[k][1] \in HeldFrames \cup {p.frame}
    BY <1>2, CollectedFrames
  <2>2. c.data \in Seq(Frames \X Nat)
    BY <1>2, CollectedType DEF Buffers, Partial
  <2>3. CASE EndMark(p) /\ c.len = Total[p.frame]
    <3>1. cur' = NoFrame /\ Queue(c.data)
      BY <1>2, <2>3 DEF Handle
    <3>2. HeldFrames' = {}
      BY <3>1 DEF HeldFrames
    <3> HIDE DEF c
    <3>3. delivered' = Append(delivered, c.data) \/ delivered' = delivered
      BY <2>2, <3>1, Queued
    <3> QED
      BY <2>1, <2>2, <2>3, <3>2, <3>3
  <2>4. CASE ~(EndMark(p) /\ c.len = Total[p.frame])
    <3>1. cur' = c /\ delivered' = delivered
      BY <1>2, <2>4 DEF Handle
    <3> HIDE DEF c
    <3>2. HeldFrames' \subseteq HeldFrames \cup {p.frame}
      BY <2>1, <3>1 DEF HeldFrames
    <3> QED
      BY <3>1, <3>2
  <2> QED
    BY <2>3, <2>4
<1> QED
  BY <1>1, <1>2

(* All that was held or shown is older than the packet, or of its frame and *)
(* then only held; all that stays on the wire is younger.                   *)
LEMMA ReceivesFwd == TInv /\ FwdInv /\ ViewerReceives => FwdInv'
<1> SUFFICES ASSUME TInv, FwdInv, ViewerReceives PROVE FwdInv'
  OBVIOUS
<1> DEFINE p == wire[1]
           Known == HeldFrames \cup {p.frame}
<1>1. /\ wire # <<>> /\ Head(wire) = p /\ wire' = Tail(wire)
      /\ Handle(p) /\ UNCHANGED sharer
  BY DEF ViewerReceives
<1>2. /\ p \in Packets /\ p.from < Total[p.frame] /\ 1 \in 1 .. Len(wire)
      /\ Len(wire') \in Nat /\ Len(wire') = Len(wire) - 1
      /\ \A j \in 1 .. Len(wire') : j + 1 \in 1 .. Len(wire) /\ wire'[j] = wire[j + 1]
  BY <1>1, HeadPart, HeadTailProperties DEF TInv, TypeOK, LinkTypes
<1>3. Sendable' = Sendable
  BY <1>1 DEF sharer, attempt, Sendable
<1>4. WireForward'
  <2>1. \A j \in 1 .. Len(wire') : Before(wire[j], Sendable)'
    BY <1>2, <1>3 DEF FwdInv, WireForward, Before, EndMark
  <2>2. \A i, j \in 1 .. Len(wire') : i < j => Before(wire[i], wire[j].frame)'
    <3> SUFFICES ASSUME NEW i \in 1 .. Len(wire'), NEW j \in 1 .. Len(wire'), i < j
                 PROVE  Before(wire[i], wire[j].frame)'
      OBVIOUS
    <3>1. Before(wire[i + 1], wire[j + 1].frame)
      BY <1>2 DEF FwdInv, WireForward
    <3> QED
      BY <1>2, <3>1 DEF Before, EndMark
  <2> QED
    BY <2>1, <2>2 DEF WireForward
<1>5. /\ Before(p, Sendable)
      /\ \A j \in 1 .. Len(wire') : Before(p, wire'[j].frame) /\ wire'[j].frame \in Nat
  BY <1>2, ForwardTypes DEF FwdInv, WireForward
<1>6. p.frame \in Nat /\ Sendable \in Nat /\ HeldFrames \subseteq Nat /\ ShownFrames \subseteq Nat
  BY <1>2, ForwardTypes DEF Packets
<1>7. ASSUME NEW n \in Known
      PROVE  /\ n \in Nat /\ Before(p, Sendable) /\ n <= p.frame
             /\ n <= Sendable /\ \A j \in 1 .. Len(wire') : n <= wire'[j].frame
  <2>1. n <= p.frame
    BY <1>2, <1>6 DEF FwdInv, HeldForward
  <2> QED
    BY <1>5, <1>6, <2>1 DEF Before
<1>8. ASSUME NEW n \in ShownFrames
      PROVE  /\ n \in Nat /\ n < Sendable
             /\ \A j \in 1 .. Len(wire') : n < wire'[j].frame
             /\ \A m \in Known : n < m
  BY <1>2, <1>6 DEF FwdInv, ShownForward
<1> HIDE DEF p
<1>9. CASE delivered' = delivered /\ HeldFrames' \subseteq Known
  <2>1. ShownFrames' = ShownFrames /\ OnlyForward'
    BY <1>9 DEF FwdInv, ShownFrames, OnlyForward
  <2>2. HeldForward'
    BY <1>3, <1>7, <1>9 DEF HeldForward
  <2>3. ShownForward'
    BY <1>3, <1>8, <1>9, <2>1 DEF ShownForward
  <2> QED
    BY <1>4, <2>1, <2>2, <2>3 DEF FwdInv
<1>10. CASE /\ EndMark(p) /\ HeldFrames' = {}
            /\ \E d \in Seq(Frames \X Nat) :
                 /\ delivered' = Append(delivered, d)
                 /\ \A k \in DOMAIN d : d[k][1] \in Known
  <2>1. PICK d \in Seq(Frames \X Nat) :
          /\ delivered' = Append(delivered, d)
          /\ \A k \in DOMAIN d : d[k][1] \in Known
    BY <1>10
  <2>2. /\ DOMAIN delivered = 1 .. Len(delivered) /\ Len(delivered) \in Nat
        /\ DOMAIN delivered' = 1 .. Len(delivered) + 1
        /\ \A i \in 1 .. Len(delivered) : delivered'[i] = delivered[i]
        /\ delivered'[Len(delivered) + 1] = d
    BY <2>1, AppendProperties DEF TInv, TypeOK, ViewerTypes
  <2>3. \A i \in DOMAIN delivered : \A k \in DOMAIN delivered[i] : delivered[i][k][1] \in ShownFrames
    <3>1. \A i \in DOMAIN delivered : delivered[i] \in Seq(Frames \X Nat)
      BY DEF TInv, TypeOK, ViewerTypes
    <3>2. \A i \in DOMAIN delivered : \A k \in DOMAIN delivered[i] : delivered[i][k] \in Frames \X Nat
      BY <3>1
    <3> QED
      BY <3>2 DEF ShownFrames
  <2>4. OnlyForward'
    <3> SUFFICES ASSUME NEW i \in DOMAIN delivered', NEW j \in DOMAIN delivered', i < j,
                        NEW k \in DOMAIN delivered'[i], NEW l \in DOMAIN delivered'[j]
                 PROVE  delivered'[i][k][1] < delivered'[j][l][1]
      BY DEF OnlyForward
    <3>1. i \in DOMAIN delivered /\ delivered'[i] = delivered[i]
      BY <2>2
    <3>2. CASE j \in DOMAIN delivered
      BY <2>2, <3>1, <3>2 DEF FwdInv, OnlyForward
    <3>3. CASE j = Len(delivered) + 1
      BY <1>8, <2>1, <2>2, <2>3, <3>1, <3>3
    <3> QED
      BY <2>2, <3>2, <3>3
  <2>5. ASSUME NEW n \in ShownFrames'
        PROVE  n < Sendable' /\ \A j \in 1 .. Len(wire') : n < wire'[j].frame
    <3>1. n \in ShownFrames \/ n \in Known
      BY <2>1, <2>2 DEF ShownFrames
    <3>2. CASE n \in ShownFrames
      BY <1>3, <1>8, <3>2
    <3>3. CASE n \in Known
      <4>1. n \in Nat /\ n <= p.frame
        BY <1>7, <3>3
      <4> QED
        BY <1>3, <1>5, <1>6, <1>10, <4>1 DEF Before
    <3> QED
      BY <3>1, <3>2, <3>3
  <2>6. ShownForward' /\ HeldForward'
    BY <1>10, <2>5 DEF ShownForward, HeldForward
  <2> QED
    BY <1>4, <2>4, <2>6 DEF FwdInv
<1> QED
  BY <1>1, <1>2, <1>9, <1>10, HandledFrames

LEMMA NextFwd == TInv /\ TInv' /\ FwdInv /\ [Next]_vars => FwdInv'
BY SendPartFwd, OthersFwd, ReceivesFwd DEF Next, Sender, Viewers

(* Nothing the viewer hands on holds a unit that is older than one it       *)
(* handed on before, for every number of breaks and losses of the room: a   *)
(* frame that is mixed does not go back in time, nor does one behind it.    *)
THEOREM ShowsOnlyForward == Spec => []OnlyForward
<1>1. FwdInv => OnlyForward
  BY DEF FwdInv
<1> QED
  BY <1>1, InitTInv, InitFwd, NextTInv, NextFwd, PTL DEF Spec

-----------------------------------------------------------------------------
(* No gap.  As long as nothing broke and m_RecvQ did not overrun, the       *)
(* packets on the wire, and the one that is sent next, go from a frame to   *)
(* the next one exactly behind an end mark; and a viewer that has handed a  *)
(* frame on holds what fits the wire, which goes on with the next frame.    *)
Intact == breaks = 0 /\ leaves = 0 /\ ~overrun

(* The frame of what follows packet p *)
After(p) == IF EndMark(p) THEN p.frame + 1 ELSE p.frame

Successive ==
  /\ \A j \in 1 .. Len(wire) : j + 1 <= Len(wire) => wire[j + 1].frame = After(wire[j])
  /\ wire # <<>> => Sendable = After(wire[Len(wire)])

(* What comes next is of frame n, or begins a frame. *)
NextIs(n)  == IF wire = <<>> THEN Sendable = n ELSE wire[1].frame = n
NextBegins == IF wire = <<>> THEN sending /\ done < Total[head] => done = 0
                             ELSE BeginMark(wire[1])

Shown(n) == delivered[Len(delivered)] = Whole(n) /\ NextIs(n + 1)

InStep ==
  delivered # <<>> => /\ inRoom /\ \E n \in Frames : Shown(n)
                      /\ cur = NoFrame => NextBegins

GapInv == Intact => conn = "up" /\ Successive /\ InStep

LEMMA InitGap == Init => GapInv
BY DEF Init, GapInv, Successive, InStep

LEMMA IntactStays ==
  ASSUME TInv, [Next]_vars, Intact'
  PROVE  Intact /\ ~SharerBreaks /\ ~ViewerLeaves
<1>1. breaks \in Nat /\ leaves \in Nat
  BY TransferAssumption DEF TInv, TypeOK, BoundTypes
<1>2. ~SharerBreaks /\ ~ViewerLeaves
  BY <1>1 DEF SharerBreaks, ViewerLeaves, Intact
<1>3. UNCHANGED <<breaks, leaves>>
  BY <1>2
     DEF Next, Sender, Link, Viewers, BeginFrame, SendPart, RefusePart, EndFrame, GiveUp,
         SharerDetects, SharerReconnects, SendJoin, ViewerReceives, ViewerTakes, WireDrops,
         ViewerJoins, vars, bounds
<1>4. ViewerReceives \/ UNCHANGED overrun
  BY DEF Next, Sender, Link, Viewers, BeginFrame, SendPart, RefusePart, EndFrame, GiveUp,
         SharerBreaks, SharerDetects, SharerReconnects, SendJoin, ViewerTakes, WireDrops,
         ViewerJoins, ViewerLeaves, vars, viewer
<1>5. ViewerReceives => overrun' = overrun \/ overrun' = TRUE
  BY DEF ViewerReceives, Handle, Queue, viewer
<1>6. ~overrun
  BY <1>4, <1>5 DEF Intact
<1> QED
  BY <1>2, <1>3, <1>6 DEF Intact

(* A viewer that never lost the room is not stray. *)
LEMMA ChainIntact ==
  ASSUME TInv, MixInv, Intact
  PROVE  Chain(0)
<1>1. PICK stray \in {0, 1} : Chain(stray) /\ Cardinality(Mixed) + stray <= leaves
  BY DEF MixInv
<1>2. stray = 0
  BY <1>1, MixedFacts DEF Intact
<1> QED
  BY <1>1, <1>2

(* Behind an end mark a frame begins. *)
LEMMA EndThenBegin ==
  ASSUME TInv, Chain(0)
  PROVE  /\ \A k \in 1 .. Len(wire) :
              k + 1 <= Len(wire) /\ EndMark(wire[k]) => BeginMark(wire[k + 1])
         /\ wire # <<>> /\ EndMark(wire[Len(wire)]) /\ conn = "up" /\ sending /\ done < Total[head]
              => done = 0
<1>1. Len(wire) \in Nat /\ \A j \in 1 .. Len(wire) : wire[j] \in Packets
  BY DEF TInv, TypeOK, LinkTypes
<1>2. \A j \in 1 .. Len(wire) : wire[j].from < Total[wire[j].frame]
  BY <1>1 DEF TInv, OnWire, TypeOK, LinkTypes
<1>3. ASSUME NEW k \in 1 .. Len(wire), EndMark(wire[k]),
             NEW q \in Packets, q.from < Total[q.frame], Fits(0, k, q)
      PROVE  BeginMark(q)
  <2>1. wire[k].from + PartLen(wire[k]) = Total[wire[k].frame]
    BY <1>1, <1>2, <1>3, PartFacts
  <2> SUFFICES ASSUME ~BeginMark(q) PROVE FALSE
    OBVIOUS
  <2>2. wire[k].frame = q.frame /\ wire[k].from + PartLen(wire[k]) = q.from
    BY <1>3 DEF Fits, Follows
  <2>3. q.from \in Nat /\ Total[q.frame] \in Nat
    BY <1>3, TransferAssumption DEF Packets
  <2> QED
    BY <1>3, <2>1, <2>2, <2>3
<1>4. ASSUME NEW k \in 1 .. Len(wire), k + 1 <= Len(wire), EndMark(wire[k])
      PROVE  BeginMark(wire[k + 1])
  <2>1. k + 1 \in 1 .. Len(wire) /\ k + 1 - 1 = k
    BY <1>1, <1>4
  <2>2. Fits(0, k, wire[k + 1])
    BY <2>1 DEF Chain, WireFits
  <2> QED
    BY <1>1, <1>2, <1>3, <1>4, <2>1, <2>2
<1>5. ASSUME wire # <<>>, EndMark(wire[Len(wire)]), conn = "up", sending, done < Total[head]
      PROVE  done = 0
  <2>1. Len(wire) \in 1 .. Len(wire)
    BY <1>5 DEF TInv, TypeOK, LinkTypes
  <2>2. Fits(0, Len(wire), nextPart)
    BY <1>5 DEF Chain, SenderFits
  <2>3. nextPart \in Packets /\ nextPart.from < Total[nextPart.frame] /\ nextPart.from = done
    BY <1>5, NewPart DEF nextPart
  <2> HIDE DEF nextPart
  <2>4. BeginMark(nextPart)
    BY <1>3, <1>5, <2>1, <2>2, <2>3
  <2> QED
    BY <2>3, <2>4 DEF BeginMark
<1> QED
  BY <1>4, <1>5

(* The sharer's steps.  What they do to the place of what is sent next: *)
LEMMA SenderGap ==
  ASSUME TInv, GapInv, Intact, Sender
  PROVE  conn' = "up" /\ Successive' /\ InStep'
<1>1. conn = "up" /\ Successive /\ InStep /\ UNCHANGED <<conn, inRoom, cur, delivered>>
  BY DEF GapInv, Sender, BeginFrame, SendPart, RefusePart, EndFrame, GiveUp, viewer
<1>t. /\ Len(wire) \in Nat /\ head \in Nat /\ done \in Nat
      /\ head \in Frames => Total[head] \in Nat \ {0}
      /\ wire \in Seq(Packets)
  BY TransferAssumption DEF TInv, TypeOK, LinkTypes, SenderTypes
<1>2. CASE BeginFrame \/ RefusePart \/ EndFrame \/ GiveUp
  <2>1. wire' = wire
    BY <1>2 DEF BeginFrame, RefusePart, EndFrame, GiveUp
  <2>2. Sendable' = Sendable
    <3>1. CASE BeginFrame
      <4>1. head \in Frames
        BY <1>t, <3>1 DEF BeginFrame, TInv, TypeOK, SenderTypes
      <4> QED
        BY <1>t, <3>1, <4>1 DEF BeginFrame, Sendable
    <3>2. CASE RefusePart
      BY <3>2 DEF RefusePart, Sendable
    <3>3. CASE EndFrame
      BY <3>3 DEF EndFrame, Sendable
    <3>4. CASE GiveUp
      <4>1. head \in Frames
        BY <1>t, <3>4 DEF GiveUp, HasGivenUp, TInv, TypeOK, SenderTypes
      <4> QED
        BY <1>t, <3>4, <4>1 DEF GiveUp, HasGivenUp, Sendable
    <3> QED
      BY <1>2, <3>1, <3>2, <3>3, <3>4
  <2>3. NextBegins => NextBegins'
    BY <1>2, <2>1 DEF BeginFrame, RefusePart, EndFrame, GiveUp, NextBegins, BeginMark
  <2>4. Successive'
    BY <1>1, <2>1, <2>2 DEF Successive, After, EndMark
  <2>5. InStep'
    BY <1>1, <2>1, <2>2, <2>3 DEF InStep, Shown, NextIs, Whole
  <2> QED
    BY <1>1, <2>4, <2>5
<1>3. CASE SendPart
  <2> DEFINE p == [frame |-> head, from |-> done, seq |-> curSeq]
  <2>1. /\ sending /\ done < Total[head] /\ sending' /\ head' = head
        /\ done' = done + PartLen(p) /\ wire' = Append(wire, p)
    BY <1>1, <1>3 DEF SendPart, Trying
  <2>2. p \in Packets /\ p.from < Total[p.frame] /\ p.frame = head /\ p.from = done
    BY <2>1, NewPart
  <2>3. Sendable = head /\ Sendable' = After(p)
    BY <1>t, <2>1, <2>2, PartFacts DEF TInv, TypeOK, SenderTypes, Sendable, After
  <2> HIDE DEF p
  <2>4. /\ Len(wire') = Len(wire) + 1 /\ wire' # <<>>
        /\ \A j \in 1 .. Len(wire) : wire'[j] = wire[j]
        /\ wire'[Len(wire) + 1] = p
    BY <1>t, <2>1, <2>2, AppendProperties
  <2>5. Successive'
    <3>1. ASSUME NEW j \in 1 .. Len(wire'), j + 1 <= Len(wire')
          PROVE  wire'[j + 1].frame = After(wire[j])'
      <4>1. j \in 1 .. Len(wire) /\ wire'[j] = wire[j]
        BY <1>t, <2>4, <3>1
      <4>2. After(wire[j])' = After(wire[j])
        BY <4>1 DEF After, EndMark
      <4>3. CASE j = Len(wire)
        BY <1>1, <1>t, <2>2, <2>3, <2>4, <4>1, <4>2, <4>3 DEF Successive
      <4>4. CASE j # Len(wire)
        <5>1. j + 1 <= Len(wire) /\ j + 1 \in 1 .. Len(wire)
          BY <1>t, <4>1, <4>4
        <5> QED
          BY <1>1, <2>4, <4>1, <4>2, <5>1 DEF Successive
      <4> QED
        BY <4>3, <4>4
    <3>2. Sendable' = After(wire[Len(wire)])'
      BY <2>3, <2>4 DEF After, EndMark
    <3> QED
      BY <3>1, <3>2 DEF Successive
  <2>6. CASE wire = <<>>
    <3>1. wire'[1] = p
      BY <2>4, <2>6
    <3>2. \A n : NextIs(n) => NextIs(n)'
      BY <2>2, <2>3, <2>4, <2>6, <3>1 DEF NextIs
    <3>3. NextBegins => NextBegins'
      BY <2>1, <2>2, <2>4, <2>6, <3>1 DEF NextBegins, BeginMark
    <3> QED
      BY <1>1, <2>5, <3>2, <3>3 DEF InStep, Shown, Whole
  <2>7. CASE wire # <<>>
    <3>1. wire'[1] = wire[1]
      BY <1>t, <2>4, <2>7
    <3>2. \A n : NextIs(n) => NextIs(n)'
      BY <2>4, <2>7, <3>1 DEF NextIs
    <3>3. NextBegins => NextBegins'
      BY <2>4, <2>7, <3>1 DEF NextBegins, BeginMark
    <3> QED
      BY <1>1, <2>5, <3>2, <3>3 DEF InStep, Shown, Whole
  <2> QED
    BY <2>6, <2>7
<1> QED
  BY <1>2, <1>3 DEF Sender

(* What is left of the wire when its first packet p is gone: the rest is of *)
(* the frame behind p, and begins it if p bears an end mark.                *)
LEMMA GapShifts ==
  ASSUME TInv, Chain(0), conn = "up", Successive, wire # <<>>, wire' = Tail(wire),
         UNCHANGED <<sharer, conn>>
  PROVE  /\ Successive' /\ \A n : n = After(wire[1]) => NextIs(n)'
         /\ EndMark(wire[1]) => NextBegins'
<1>1. /\ Len(wire') = Len(wire) - 1 /\ Len(wire) \in Nat \ {0}
      /\ \A j \in 1 .. Len(wire') : wire'[j] = wire[j + 1]
      /\ wire' = <<>> <=> Len(wire') = 0
  <2>1. wire \in Seq(Packets)
    BY DEF TInv, TypeOK, LinkTypes
  <2>2. /\ wire' \in Seq(Packets) /\ Len(wire') = Len(wire) - 1 /\ Len(wire) \in Nat \ {0}
        /\ \A j \in 1 .. Len(wire') : wire'[j] = wire[j + 1]
    BY <2>1, EmptySeq, HeadTailProperties
  <2> QED
    BY <2>2, EmptySeq
<1>2. UNCHANGED <<head, sending, done>> /\ Sendable' = Sendable
  BY DEF sharer, attempt, Sendable
<1>3. CASE wire' = <<>>
  <2>1. Len(wire) = 1
    BY <1>1, <1>3
  <2>2. Sendable = After(wire[1])
    BY <2>1 DEF Successive
  <2>3. \A n : n = After(wire[1]) => NextIs(n)'
    BY <1>2, <1>3, <2>2 DEF NextIs
  <2>4. EndMark(wire[1]) => NextBegins'
    BY <1>2, <1>3, <2>1, EndThenBegin DEF NextBegins
  <2> QED
    BY <1>1, <1>3, <2>3, <2>4 DEF Successive
<1>4. CASE wire' # <<>>
  <2>1. /\ 2 <= Len(wire) /\ 1 \in 1 .. Len(wire) /\ 1 + 1 = 2 /\ wire'[1] = wire[2]
        /\ wire'[Len(wire')] = wire[Len(wire)]
    BY <1>1, <1>4
  <2>2. wire'[1].frame = After(wire[1])
    BY <2>1 DEF Successive
  <2>3. \A n : n = After(wire[1]) => NextIs(n)'
    BY <1>4, <2>2 DEF NextIs
  <2>4. EndMark(wire[1]) => NextBegins'
    BY <1>4, <2>1, EndThenBegin DEF NextBegins, BeginMark
  <2>5. ASSUME NEW j \in 1 .. Len(wire'), j + 1 <= Len(wire')
        PROVE  wire'[j + 1].frame = After(wire[j])'
    <3>1. /\ j + 1 \in 1 .. Len(wire) /\ j + 1 + 1 <= Len(wire) /\ j + 1 \in 1 .. Len(wire')
          /\ wire'[j] = wire[j + 1] /\ wire'[j + 1] = wire[j + 1 + 1]
      BY <1>1, <2>5
    <3>2. wire[j + 1 + 1].frame = After(wire[j + 1])
      BY <3>1 DEF Successive
    <3> QED
      BY <3>1, <3>2 DEF After, EndMark
  <2>6. Sendable' = After(wire[Len(wire)])'
    BY <1>2, <2>1, <1>4 DEF Successive, After, EndMark
  <2> QED
    BY <2>3, <2>4, <2>5, <2>6 DEF Successive
<1> QED
  BY <1>3, <1>4

(* A packet comes: the viewer drops it, if it has handed nothing on, or     *)
(* collects it, or hands on its frame, the one behind the last.             *)
LEMMA ReceivesNext ==
  ASSUME TInv, Chain(0), GapInv, Intact, Intact', ViewerReceives, NEW p, p = wire[1]
  PROVE  \/ delivered' = delivered /\ (delivered = <<>> \/ (~EndMark(p) /\ cur' # NoFrame))
         \/ /\ EndMark(p) /\ p.frame \in Frames
            /\ delivered' = Append(delivered, Whole(p.frame))
            /\ delivered # <<>> => \E n \in Frames : Shown(n) /\ p.frame = n + 1
<1>1. wire # <<>> /\ Head(wire) = p /\ Handle(p)
  BY DEF ViewerReceives
<1>2. p \in Packets /\ p.from < Total[p.frame]
  BY <1>1, HeadPart
<1>3. Fits(0, 0, p)
  <2>1. 1 \in 1 .. Len(wire) /\ 1 - 1 = 0
    BY <1>1 DEF TInv, TypeOK, LinkTypes
  <2> QED
    BY <2>1 DEF Chain, WireFits
<1>4. CASE cur = NoFrame /\ ~BeginMark(p)
  <2>1. delivered' = delivered
    BY <1>1, <1>4 DEF Handle, Starts, viewer
  <2>2. delivered = <<>>
    BY <1>1, <1>4 DEF GapInv, InStep, NextBegins
  <2> QED
    BY <2>1, <2>2
<1>5. CASE cur # NoFrame \/ BeginMark(p)
  <2>1. ~(cur = NoFrame /\ ~Starts(p))
    BY <1>5 DEF Starts
  <2>2. Collected(p) = HeldAfter(p)
    BY <1>2, <1>3, <1>5, Extended
  <2>3. /\ HeldAfter(p).len = p.from + PartLen(p)
        /\ EndMark(p) <=> HeldAfter(p).len = Total[p.frame]
        /\ EndMark(p) => HeldAfter(p).data = Whole(p.frame)
    BY <1>2, PartFacts DEF HeldAfter, Start, Whole
  <2>4. CASE EndMark(p)
    <3>4. Queue(Collected(p).data) /\ Collected(p).data = Whole(p.frame)
      BY <1>1, <2>1, <2>2, <2>3, <2>4 DEF Handle
    <3>1. delivered' = Append(delivered, Whole(p.frame))
      BY <3>4 DEF Queue, Intact
    <3>2. ASSUME delivered # <<>> PROVE \E n \in Frames : Shown(n) /\ p.frame = n + 1
      BY <1>1, <3>2 DEF GapInv, InStep, Shown, NextIs
    <3>3. p.frame \in Frames
      BY <1>2 DEF Packets
    <3> QED
      BY <2>4, <3>1, <3>2, <3>3
  <2>5. CASE ~EndMark(p)
    <3>1. delivered' = delivered /\ cur' = Collected(p)
      BY <1>1, <2>1, <2>5 DEF Handle
    <3>2. Collected(p) \in Partial
      BY <1>2, <2>1, CollectedType DEF Buffers
    <3> QED
      BY <2>5, <3>1, <3>2, NoFrameAssumption
  <2> QED
    BY <2>4, <2>5
<1> QED
  BY <1>4, <1>5

LEMMA WholeType ==
  ASSUME NEW n \in Frames
  PROVE  Whole(n) \in Seq(Frames \X Nat)
<1>1. Total[n] \in Nat
  BY TransferAssumption
<1>2. Whole(n) \in [1 .. Total[n] -> Frames \X Nat]
  BY <1>1 DEF Whole
<1> QED
  BY <1>1, <1>2, SeqDef

LEMMA NextGap == TInv /\ MixInv /\ GapInv /\ [Next]_vars => GapInv'
<1> SUFFICES ASSUME TInv, MixInv, GapInv, [Next]_vars, Intact'
             PROVE  conn' = "up" /\ Successive' /\ InStep'
  BY DEF GapInv
<1>1. Intact /\ ~SharerBreaks /\ ~ViewerLeaves /\ Chain(0)
  BY IntactStays, ChainIntact
<1>2. conn = "up" /\ Successive /\ InStep
  BY <1>1 DEF GapInv
<1>3. CASE Sender
  BY <1>1, <1>3, SenderGap
<1>4. CASE Link
  BY <1>1, <1>2, <1>4 DEF Link, SharerDetects, SharerReconnects, SendJoin
<1>5. CASE ViewerReceives
  <2>p. PICK p : p = wire[1]
    OBVIOUS
  <2>1. /\ wire # <<>> /\ wire' = Tail(wire) /\ inRoom' /\ UNCHANGED <<sharer, conn>>
    BY <1>5 DEF ViewerReceives
  <2>2. /\ Successive' /\ \A n : n = After(p) => NextIs(n)'
        /\ EndMark(p) => NextBegins'
    BY <1>1, <1>2, <2>1, <2>p, GapShifts
  <2>3. \/ delivered' = delivered /\ (delivered = <<>> \/ (~EndMark(p) /\ cur' # NoFrame))
        \/ /\ EndMark(p) /\ p.frame \in Frames
           /\ delivered' = Append(delivered, Whole(p.frame))
    BY <1>1, <1>5, <2>p, ReceivesNext
  <2>4. CASE delivered' = delivered /\ delivered = <<>>
    BY <1>2, <2>1, <2>2, <2>4 DEF InStep
  <2>5. CASE delivered' = delivered /\ delivered # <<>> /\ ~EndMark(p) /\ cur' # NoFrame
    <3>1. PICK n \in Frames : Shown(n)
      BY <1>2, <2>5 DEF InStep
    <3>2. p.frame = n + 1 /\ After(p) = p.frame
      BY <2>1, <2>5, <2>p, <3>1 DEF Shown, NextIs, After
    <3>3. NextIs(n + 1)'
      BY <2>2, <3>2
    <3>4. Shown(n)'
      BY <2>5, <3>1, <3>3 DEF Shown, Whole
    <3> QED
      BY <1>2, <2>1, <2>2, <2>5, <3>4 DEF InStep
  <2>6. CASE /\ EndMark(p) /\ p.frame \in Frames
             /\ delivered' = Append(delivered, Whole(p.frame))
    <3>1. Whole(p.frame) \in Seq(Frames \X Nat)
      BY <2>6, WholeType
    <3>2. delivered'[Len(delivered')] = Whole(p.frame)
      BY <2>6, <3>1, AppendProperties DEF TInv, TypeOK, ViewerTypes
    <3>3. NextIs(p.frame + 1)'
      BY <2>2, <2>6 DEF After
    <3>4. \E n \in Frames : Shown(n)'
      BY <2>6, <3>2, <3>3 DEF Shown, Whole
    <3> QED
      BY <1>2, <2>1, <2>2, <2>6, <3>4 DEF InStep
  <2> QED
    BY <2>3, <2>4, <2>5, <2>6
<1>6. CASE WireDrops
  <2>1. /\ wire # <<>> /\ wire' = Tail(wire) /\ ~inRoom
        /\ UNCHANGED <<sharer, conn, inRoom, delivered>>
    BY <1>6 DEF WireDrops, viewer
  <2> QED
    BY <1>1, <1>2, <2>1, GapShifts DEF InStep
<1>7. CASE ViewerJoins
  <2>1. UNCHANGED <<conn, wire, delivered, head, sending, done>> /\ ~inRoom
    BY <1>7 DEF ViewerJoins, sharer, attempt, viewer
  <2> QED
    BY <1>2, <2>1 DEF Successive, InStep, After, EndMark, Sendable
<1>8. CASE ViewerTakes \/ UNCHANGED vars
  <2>1. UNCHANGED <<conn, wire, delivered, cur, inRoom, head, sending, done>>
    BY <1>8 DEF ViewerTakes, vars, sharer, attempt, viewer
  <2> QED
    BY <1>2, <2>1
       DEF Successive, InStep, Shown, NextIs, NextBegins, After, EndMark, BeginMark, Sendable, Whole
<1> QED
  BY <1>1, <1>3, <1>4, <1>5, <1>6, <1>7, <1>8 DEF Next, Viewers

-----------------------------------------------------------------------------
(* FrameTransfer implements LossyFrames.                                    *)
LEMMA WholeFacts ==
  ASSUME NEW n \in Frames
  PROVE  /\ Whole(n) \in Seq(Frames \X Nat) /\ IsWhole(Whole(n))
         /\ DOMAIN Whole(n) = 1 .. Total[n] /\ 1 \in DOMAIN Whole(n) /\ Whole(n)[1][1] = n
         /\ FrameOf(Whole(n)) = n
<1>1. Whole(n) \in Seq(Frames \X Nat) /\ IsWhole(Whole(n))
  BY WholeType DEF IsWhole
<1>2. \A m \in Frames : /\ DOMAIN Whole(m) = 1 .. Total[m] /\ 1 \in DOMAIN Whole(m)
                        /\ Whole(m)[1][1] = m
  <2> TAKE m \in Frames
  <2>1. Total[m] \in Nat \ {0}
    BY TransferAssumption
  <2> QED
    BY <2>1 DEF Whole
<1>3. FrameOf(Whole(n)) \in Frames /\ Whole(n) = Whole(FrameOf(Whole(n)))
  BY <1>1 DEF FrameOf, IsWhole
<1>4. FrameOf(Whole(n)) = n
  BY <1>2, <1>3
<1> QED
  BY <1>1, <1>2, <1>4

Got == [i \in DOMAIN delivered |-> FrameOf(delivered[i])]

LEMMA GotSeq ==
  ASSUME TInv
  PROVE  Got \in Seq(Nat) /\ Len(Got) = Len(delivered)
<1>1. DOMAIN delivered = 1 .. Len(delivered) /\ Len(delivered) \in Nat
  BY DEF TInv, TypeOK, ViewerTypes
<1>2. \A e : FrameOf(e) \in Nat
  BY DEF FrameOf, IsWhole
<1>3. Got \in [1 .. Len(delivered) -> Nat]
  BY <1>1, <1>2 DEF Got
<1>4. Got \in Seq(Nat)
  BY <1>1, <1>3, SeqDef
<1> HIDE DEF Got
<1> QED
  BY <1>1, <1>3, <1>4, LenProperties

(* What the mapping makes of one more delivery *)
LEMMA GotGrows ==
  ASSUME TInv, NEW d \in Seq(Frames \X Nat), delivered' = Append(delivered, d)
  PROVE  Got' = Append(Got, FrameOf(d))
<1>1. delivered \in Seq(Seq(Frames \X Nat))
  BY DEF TInv, TypeOK, ViewerTypes
<1>2. /\ DOMAIN delivered = 1 .. Len(delivered) /\ Len(delivered) \in Nat
      /\ DOMAIN delivered' = 1 .. Len(delivered) + 1
      /\ \A i \in 1 .. Len(delivered) : delivered'[i] = delivered[i]
      /\ delivered'[Len(delivered) + 1] = d
  BY <1>1, AppendProperties
<1>f. \A e : FrameOf(e) \in Nat
  BY DEF FrameOf, IsWhole
<1>g. Got' = [i \in DOMAIN delivered' |-> FrameOf(delivered'[i])]
  BY DEF Got, FrameOf, IsWhole, Whole
<1>3. Got \in Seq(Nat) /\ Len(Got) = Len(delivered)
  BY GotSeq
<1>4. /\ Append(Got, FrameOf(d)) \in Seq(Nat)
      /\ DOMAIN Append(Got, FrameOf(d)) = 1 .. Len(delivered) + 1
      /\ \A i \in 1 .. Len(delivered) : Append(Got, FrameOf(d))[i] = Got[i]
      /\ Append(Got, FrameOf(d))[Len(delivered) + 1] = FrameOf(d)
  BY <1>2, <1>3, <1>f, AppendProperties
<1>5. ASSUME NEW i \in 1 .. Len(delivered) + 1
      PROVE  Got'[i] = Append(Got, FrameOf(d))[i]
  <2>1. \A e : delivered'[i] = e => Got'[i] = FrameOf(e)
    BY <1>2, <1>g
  <2>2. CASE i \in 1 .. Len(delivered)
    BY <1>2, <1>4, <2>1, <2>2 DEF Got
  <2>3. CASE i = Len(delivered) + 1
    <3>1. delivered'[i] = d /\ Append(Got, FrameOf(d))[i] = FrameOf(d)
      BY <1>2, <1>4, <2>3
    <3> QED
      BY <2>1, <3>1
  <2>4. Len(delivered) \in Nat
    BY <1>2
  <2>5. i \in 1 .. Len(delivered) \/ i = Len(delivered) + 1
    BY <2>4
  <2> QED
    BY <2>2, <2>3, <2>5, Zenon
<1>6. /\ DOMAIN Got' = 1 .. Len(delivered) + 1
      /\ Got' = [i \in 1 .. Len(delivered) + 1 |-> Got'[i]]
  BY <1>2, <1>g
<1>7. Append(Got, FrameOf(d)) = [i \in 1 .. Len(delivered) + 1 |-> Append(Got, FrameOf(d))[i]]
  BY <1>4, LenProperties
<1> HIDE DEF Got
<1> QED
  BY <1>5, <1>6, <1>7

(* A step that hands nothing on may break a connection, or is a stutter. *)
LEMMA QuietStep ==
  ASSUME TInv, [Next]_vars, UNCHANGED delivered
  PROVE  [Promise!Next]_<<Got, Intact>>
<1>1. Got' = Got
  BY DEF Got, FrameOf, IsWhole, Whole
<1>2. Intact' => Intact
  BY IntactStays
<1>3. Intact \in BOOLEAN /\ Intact' \in BOOLEAN
  BY DEF Intact
<1>4. CASE Intact' = Intact
  BY <1>1, <1>4
<1>5. CASE Intact' = FALSE
  BY <1>1, <1>5 DEF Promise!Next, Promise!Break, Got, Intact
<1> QED
  BY <1>2, <1>3, <1>4, <1>5

(* A packet that completes a frame delivers the next, a newer or a spoiled  *)
(* one.                                                                     *)
LEMMA HandOnStep ==
  ASSUME TInv, TInv', MixInv, MixInv', FwdInv', GapInv, ViewerReceives,
         NEW d \in Seq(Frames \X Nat), delivered' = Append(delivered, d)
  PROVE  [Promise!Next]_<<Got, Intact>>
<1>1. Got' = Append(Got, FrameOf(d)) /\ Intact' = Intact
  <2>1. delivered' # delivered
    BY AppendProperties, LenProperties DEF TInv, TypeOK, ViewerTypes
  <2>2. UNCHANGED overrun
    BY <2>1 DEF ViewerReceives, Handle, Queue, viewer
  <2> QED
    BY <2>2, GotGrows DEF ViewerReceives, bounds, Intact
<1>2. /\ DOMAIN delivered = 1 .. Len(delivered) /\ Len(delivered) \in Nat
      /\ DOMAIN delivered' = 1 .. Len(delivered) + 1
      /\ \A i \in 1 .. Len(delivered) : delivered'[i] = delivered[i]
      /\ delivered'[Len(delivered) + 1] = d /\ delivered' # delivered
      /\ delivered # <<>> => Len(delivered) \in 1 .. Len(delivered)
  BY AppendProperties, LenProperties, EmptySeq DEF TInv, TypeOK, ViewerTypes
<1>d. /\ DOMAIN Got = 1 .. Len(delivered) /\ Len(Got) = Len(delivered)
      /\ \A i \in 1 .. Len(delivered) : Got[i] = FrameOf(delivered[i])
  BY <1>2, GotSeq DEF Got
<1>3. CASE IsWhole(d)
  <2>1. PICK n \in Frames : d = Whole(n)
    BY <1>3 DEF IsWhole
  <2>2. FrameOf(d) = n /\ 1 \in DOMAIN d /\ d[1][1] = n
    BY <2>1, WholeFacts
  <2>3. ASSUME NEW i \in DOMAIN Got PROVE Got[i] < n
    <3>1. i \in DOMAIN delivered' /\ Len(delivered) + 1 \in DOMAIN delivered'
          /\ i < Len(delivered) + 1 /\ delivered'[i] = delivered[i]
          /\ Got[i] = FrameOf(delivered[i])
      <4>1. i \in 1 .. Len(delivered)
        BY <1>d, <2>3
      <4>2. Got[i] = FrameOf(delivered[i])
        BY <1>d, <4>1, Zenon
      <4>3. Len(delivered) \in Nat
        BY <1>2
      <4>4. /\ i \in 1 .. Len(delivered) + 1 /\ Len(delivered) + 1 \in 1 .. Len(delivered) + 1
            /\ i < Len(delivered) + 1
        BY <4>1, <4>3
      <4>5. delivered'[i] = delivered[i]
        BY <1>2, <4>1, Zenon
      <4> QED
        BY <1>2, <4>2, <4>4, <4>5, Zenon
    <3>2. CASE IsWhole(delivered[i])
      <4>1. PICK m \in Frames : delivered[i] = Whole(m)
        BY <3>2 DEF IsWhole
      <4>2. Got[i] = m /\ 1 \in DOMAIN delivered'[i] /\ delivered'[i][1][1] = m
        BY <3>1, <4>1, WholeFacts
      <4>3. delivered'[i][1][1] < delivered'[Len(delivered) + 1][1][1]
        BY <1>2, <2>2, <3>1, <4>2 DEF FwdInv, OnlyForward
      <4> QED
        BY <1>2, <2>2, <4>2, <4>3
    <3>3. CASE ~IsWhole(delivered[i])
      BY <3>1, <3>3 DEF FrameOf
    <3> QED
      BY <3>2, <3>3
  <2>4. ASSUME Intact PROVE Got = <<>> \/ n = Got[Len(Got)] + 1
    <3>1. Chain(0)
      BY <2>4, ChainIntact
    <3>2. PICK f \in Frames :
            /\ delivered' = Append(delivered, Whole(f))
            /\ delivered # <<>> => \E m \in Frames : Shown(m) /\ f = m + 1
      BY <1>1, <1>2, <2>4, <3>1, ReceivesNext
    <3>3. delivered'[Len(delivered) + 1] = Whole(f)
      BY <3>2, WholeType, AppendProperties DEF TInv, TypeOK, ViewerTypes
    <3>4. f = n
      BY <1>2, <2>2, <3>3, WholeFacts
    <3>5. CASE delivered = <<>>
      BY <3>5 DEF Got
    <3>6. CASE delivered # <<>>
      <4>1. PICK m \in Frames : Shown(m) /\ n = m + 1
        BY <3>2, <3>4, <3>6
      <4>2. Got[Len(Got)] = m
        BY <1>2, <1>d, <3>6, <4>1, WholeFacts DEF Shown
      <4> QED
        BY <4>1, <4>2
    <3> QED
      BY <3>5, <3>6
  <2>5. Promise!Deliver(n)
    BY <1>1, <2>2, <2>3, <2>4
       DEF Promise!Deliver, Promise!Newer, Promise!NextOne, Got, Intact
  <2> QED
    BY <2>1, <2>5 DEF Promise!Next
<1>4. CASE ~IsWhole(d)
  <2>1. PICK stray \in {0, 1} : (Cardinality(Mixed) + stray <= leaves)'
    BY DEF MixInv
  <2>2. Cardinality(Mixed') = Cardinality(Mixed) + 1 /\ Cardinality(Mixed) \in Nat
    BY <1>4, MixedFacts, MixedGrows
  <2>3. ~Intact
    BY <1>1, <2>1, <2>2 DEF Intact
  <2>4. Promise!Spoil
    BY <1>1, <1>4, <2>3 DEF Promise!Spoil, Promise!Spoiled, FrameOf, Got, Intact
  <2> QED
    BY <2>4 DEF Promise!Next
<1> QED
  BY <1>3, <1>4

(* FrameTransfer implements LossyFrames: the viewer gets each frame at most *)
(* once and in order; until a connection breaks or m_RecvQ, being full,     *)
(* refuses a frame, it gets every one from its first on, and nothing but    *)
(* frames: for any frames, packets, refusals, breaks and size of m_RecvQ.   *)
THEOREM Delivery == Spec => DeliversFrames
<1> DEFINE Inv == TInv /\ MixInv /\ FwdInv /\ GapInv
<1>1. Init => Inv /\ Promise!Init
  <2>1. Init => Promise!Init
    <3> SUFFICES ASSUME Init PROVE Promise!Init
      OBVIOUS
    <3>1. Got = <<>>
      BY DEF Init, Got
    <3>2. Intact
      BY DEF Init, Intact
    <3> QED
      BY <3>1, <3>2 DEF Promise!Init, Got, Intact
  <2> QED
    BY <2>1, InitTInv, InitMix, InitFwd, InitGap
<1>2. Inv /\ [Next]_vars => Inv'
  BY NextTInv, NextMix, NextFwd, NextGap
<1>3. Inv /\ Inv' /\ [Next]_vars => [Promise!Next]_<<Got, Intact>>
  <2> SUFFICES ASSUME Inv, Inv', [Next]_vars PROVE [Promise!Next]_<<Got, Intact>>
    OBVIOUS
  <2>1. CASE delivered' = delivered
    BY <2>1, QuietStep
  <2>2. CASE delivered' # delivered
    <3>1. ViewerReceives
      BY <2>2 DEF Next, Sender, Link, Viewers, BeginFrame, SendPart, RefusePart, EndFrame, GiveUp,
         SharerBreaks, SharerDetects, SharerReconnects, SendJoin, ViewerTakes, WireDrops,
         ViewerJoins, ViewerLeaves, vars, viewer
    <3>2. wire # <<>> /\ Handle(Head(wire))
      BY <3>1 DEF ViewerReceives
    <3>3. \E d \in Seq(Frames \X Nat) : delivered' = Append(delivered, d)
      BY <2>2, <3>2, HeadPart, HandledFrames
    <3> QED
      BY <3>1, <3>3, HandOnStep
  <2> QED
    BY <2>1, <2>2
<1>4. DeliversFrames <=> Promise!Init /\ [][Promise!Next]_<<Got, Intact>>
  BY DEF DeliversFrames, Promise!Spec, Got, Intact
<1> QED
  BY <1>1, <1>2, <1>3, <1>4, PTL DEF Spec
=============================================================================
