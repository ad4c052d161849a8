----------------------------- MODULE ByteChannel ------------------------------
(* CQueueChannel (AppShare/Server): the ring of bytes through which the     *)
(* thread that receives the viewer's input events hands them to the thread  *)
(* that carries them out, with the loops of VSocket around Read and Write.  *)
(* There is one reader and one writer.  What m_Mutex protects is one step;  *)
(* waiting for an event and taking the mutex again are steps of their own.  *)
EXTENDS Naturals, Sequences

CONSTANT Size          \* m_ulQueueSize

ASSUME ChannelAssumption == Size \in Nat \ {0}

Sides == {"read", "write"}
Other(s) == IF s = "read" THEN "write" ELSE "read"
Slots == 0 .. Size - 1

VARIABLES
  buffer,       \* m_pQueueBuffer: the bytes, numbered as they were written
  open,         \* m_pQueueBuffer # NULL
  length,       \* m_ulQueueLength
  enqueuePos, dequeuePos,
  event,        \* event["read"] is m_UnEmpty, event["write"] is m_UnFull
  pc,           \* where the thread of each side is
  left,         \* what it has still to move
  closing,      \* Close has freed the buffer and not yet set the events
  written,      \* number of bytes written so far
  delivered     \* the bytes read so far

chVars == <<buffer, open, length, enqueuePos, dequeuePos, event, pc, left,
            closing, written, delivered>>

(* "idle": in no call; "calling": about to take the mutex; "waiting": in    *)
(* Wait of its event; "woken": about to take the mutex again; "done" and    *)
(* "failed": the loop of VSocket has returned                               *)
Places == {"idle", "calling", "waiting", "woken", "done", "failed"}

(* the constructor, and VSocket's call of Open, which sets both events *)
ChInit ==
  /\ buffer = [p \in Slots |-> 0] /\ open = TRUE
  /\ length = 0 /\ enqueuePos = 0 /\ dequeuePos = 0
  /\ event = [s \in Sides |-> TRUE]
  /\ pc = [s \in Sides |-> "idle"] /\ left = [s \in Sides |-> 0]
  /\ closing = FALSE /\ written = 0 /\ delivered = << >>

Least(a, b) == IF a < b THEN a ELSE b
WrappedLate(p) == IF p > Size THEN 0 ELSE p   \* mutant: wraps one slot too late
Wrapped(p) == IF p >= Size THEN 0 ELSE p

-----------------------------------------------------------------------------
(* ReadExact or RecvVncViewerData is called for n bytes *)
Call(s, n) ==
  /\ pc[s] = "idle" /\ n \in Nat \ {0}
  /\ pc' = [pc EXCEPT ![s] = "calling"]
  /\ left' = [left EXCEPT ![s] = n]
  /\ UNCHANGED <<buffer, open, length, enqueuePos, dequeuePos, event, closing,
                 written, delivered>>

(* and returned: with the bytes, or because the channel is closed *)
Return(s) ==
  /\ pc[s] \in {"done", "failed"}
  /\ pc' = [pc EXCEPT ![s] = "idle"]
  /\ UNCHANGED <<buffer, open, length, enqueuePos, dequeuePos, event, left,
                 closing, written, delivered>>

(* Nothing to read, or no room to write.  The length is looked at before    *)
(* the buffer, which may be gone.                                           *)
MustWait(s) == length = IF s = "read" THEN 0 ELSE Size

Waits(s) ==
  /\ pc[s] = "calling" /\ MustWait(s)
  /\ pc' = [pc EXCEPT ![s] = "waiting"]
  /\ UNCHANGED <<buffer, open, length, enqueuePos, dequeuePos, event, left,
                 closing, written, delivered>>

(* the event resets itself as it lets the thread go *)
Wakes(s) ==
  /\ pc[s] = "waiting" /\ event[s]
  /\ event' = [event EXCEPT ![s] = FALSE]
  /\ pc' = [pc EXCEPT ![s] = "woken"]
  /\ UNCHANGED <<buffer, open, length, enqueuePos, dequeuePos, left, closing,
                 written, delivered>>

(* In the section a woken thread does not look at the length again *)
InSection(s) == pc[s] = "woken" \/ (pc[s] = "calling" /\ ~MustWait(s))

Fails(s) ==
  /\ InSection(s) /\ ~open
  /\ pc' = [pc EXCEPT ![s] = "failed"]
  /\ UNCHANGED <<buffer, open, length, enqueuePos, dequeuePos, event, left,
                 closing, written, delivered>>

MovedOnce(s, n) ==   \* mutant: the count that was moved is not looked at
  /\ left' = [left EXCEPT ![s] = @ - n]
  /\ pc' = [pc EXCEPT ![s] = "done"]

(* n bytes were moved: the loop goes on until nothing is left *)
Moved(s, n) ==
  /\ left' = [left EXCEPT ![s] = @ - n]
  /\ pc' = [pc EXCEPT ![s] = IF left[s] = n THEN "done" ELSE "calling"]

ReadCount == Least(Least(Size - dequeuePos, length), left["read"])
WriteCount == Least(Least(left["write"], Size - length), Size - enqueuePos)

ReadSignalsLate(n) ==   \* mutant: full is looked for after the length is reduced
  /\ delivered' = delivered \o [i \in 1 .. n |-> buffer[dequeuePos + i - 1]]
  /\ dequeuePos' = Wrapped(dequeuePos + n)
  /\ event' = IF length - n = Size THEN [event EXCEPT !["write"] = TRUE] ELSE event
  /\ length' = length - n
  /\ UNCHANGED <<buffer, enqueuePos, written>>

(* n bytes are copied to the end of the linear part at most, none of them   *)
(* if the thread was woken by a signal that was left over; the other side   *)
(* is signalled if it may be waiting                                        *)
ReadBytes(n) ==
  /\ delivered' = delivered \o [i \in 1 .. n |-> buffer[dequeuePos + i - 1]]
  /\ dequeuePos' = Wrapped(dequeuePos + n)
  /\ event' = IF length = Size THEN [event EXCEPT !["write"] = TRUE] ELSE event
  /\ length' = length - n
  /\ UNCHANGED <<buffer, enqueuePos, written>>

CopiesFreed ==   \* mutant: the buffer is not looked at after the wait
  /\ InSection("read")
  /\ ReadBytes(ReadCount) /\ Moved("read", ReadCount)
  /\ UNCHANGED <<open, closing>>

ReadCopies ==
  /\ InSection("read") /\ open
  /\ ReadBytes(ReadCount) /\ Moved("read", ReadCount)
  /\ UNCHANGED <<open, closing>>

WriteSilently(n) ==   \* mutant: the reader is not signalled
  /\ buffer' = [p \in Slots |-> IF enqueuePos <= p /\ p < enqueuePos + n
                                  THEN written + 1 + p - enqueuePos
                                  ELSE buffer[p]]
  /\ enqueuePos' = Wrapped(enqueuePos + n)
  /\ length' = length + n
  /\ written' = written + n
  /\ UNCHANGED <<event, dequeuePos, delivered>>

WriteBytes(n) ==
  /\ buffer' = [p \in Slots |-> IF enqueuePos <= p /\ p < enqueuePos + n
                                  THEN written + 1 + p - enqueuePos
                                  ELSE buffer[p]]
  /\ enqueuePos' = Wrapped(enqueuePos + n)
  /\ event' = IF length = 0 THEN [event EXCEPT !["read"] = TRUE] ELSE event
  /\ length' = length + n
  /\ written' = written + n
  /\ UNCHANGED <<dequeuePos, delivered>>

WriteCopies ==
  /\ InSection("write") /\ open
  /\ WriteBytes(WriteCount) /\ Moved("write", WriteCount)
  /\ UNCHANGED <<open, closing>>

(* Close: the buffer goes, the length stays; then each event is set once *)
CloseFrees ==
  /\ open' = FALSE /\ closing' = TRUE
  /\ UNCHANGED <<buffer, length, enqueuePos, dequeuePos, event, pc, left,
                 written, delivered>>


CloseSignals ==
  /\ closing /\ closing' = FALSE
  /\ event' = [s \in Sides |-> TRUE]
  /\ UNCHANGED <<buffer, open, length, enqueuePos, dequeuePos, pc, left,
                 written, delivered>>

(* one step of a thread that is inside Read or Write *)
Moves(s) == Waits(s) \/ Wakes(s) \/ Fails(s)
ChannelStep(s) == Moves(s) \/ (s = "read" /\ ReadCopies) \/ (s = "write" /\ WriteCopies)

ChNext ==
  \/ \E s \in Sides : ChannelStep(s) \/ Return(s) \/ \E n \in Nat : Call(s, n)
  \/ CloseFrees \/ CloseSignals

ChSpec == ChInit /\ [][ChNext]_chVars
-----------------------------------------------------------------------------
ChTypeOK ==
  /\ buffer \in [Slots -> Nat] /\ open \in BOOLEAN
  /\ length \in 0 .. Size /\ enqueuePos \in Slots /\ dequeuePos \in Slots
  /\ event \in [Sides -> BOOLEAN] /\ pc \in [Sides -> Places]
  /\ left \in [Sides -> Nat] /\ closing \in BOOLEAN
  /\ written \in Nat /\ delivered \in Seq(Nat)

(* A thread that sleeps although there is something for it to do is never   *)
(* woken: the other side signals only when it finds the ring empty or full. *)
(* Read and Write wait once, on an event that may still be set from before, *)
(* and do not look again; even so no signal that matters is lost: while the *)
(* reader sleeps the ring is empty, while the writer sleeps it is full.     *)
NoLostWakeUp ==
  \A s \in Sides : pc[s] = "waiting" /\ ~event[s] => MustWait(s)

(* the occupied slots, oldest first *)
SlotOf(i) == IF dequeuePos + i < Size THEN dequeuePos + i ELSE dequeuePos + i - Size
Contents == [i \in 1 .. length |-> buffer[SlotOf(i - 1)]]

(* The ring in its pieces is a pipe: chunks that end where the memory ends, *)
(* empty chunks after a left-over signal, and a Close in the middle change  *)
(* nothing of what comes out or in which order.                             *)
Pipe == INSTANCE BytePipe WITH Capacity <- Size, inside <- Contents,
                               out <- delivered, isShut <- ~open
ChannelIsPipe == Pipe!PipeSpec
=============================================================================
