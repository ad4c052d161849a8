---------------------------- MODULE ViewerThreads ----------------------------
(* The life of one CCPVncViewer from initViewer on: its receive thread, its *)
(* process thread, which draws frames into the viewer's window              *)
(* (ClientConnection), the UI thread, which owns that window, and the two   *)
(* threads that may end the viewer: the UI thread, and the SDK's thread,    *)
(* on which handleVncCmd deletes it when the peer rejects.                  *)
EXTENDS Naturals, Sequences

CONSTANTS
  MaxFrames,   \* bound: frames that m_RecvQ takes
  RecvQSize    \* slots of m_RecvQ (100 in the code)

ASSUME ViewerAssumption == MaxFrames \in Nat /\ RecvQSize \in Nat

Callers == {"ui", "sdk"}     \* threads that call uninitViewer
Painters == {"ui", "proc"}   \* threads that use the bitmap and the soft cursor
Locks == {"cursor", "bitmap"}   \* m_cursorMutex, m_bitmapdcMutex

VARIABLES
  state,       \* m_ViewerState: "UnInit", or "live" for any other
  recving, processing,   \* m_Recving, m_Processing
  recv,        \* RecvDataThreadFunc
  proc,        \* ProcessDataThreadFunc and, in it, OnWinVncFrameData
  came, queued, shown,   \* frames m_RecvQ took, still in it, drawn
  dll,         \* m_ViewerDll is there
  at,          \* where a caller is in uninitViewer, or "out" of it
  called,      \* the UI thread has called it
  deleting,    \* it was called by the destructor
  section,     \* who is in m_ThreadSection
  gone,        \* the viewer is deleted
  late,        \* a thread began, and set its flag, when it was already to end
  job, owner   \* locks a painter has yet to take; who holds a lock

threads == <<recving, processing, recv, proc, came, queued, shown, late>>
ending  == <<state, dll, at, called, deleting, section, gone>>
locks   == <<job, owner>>
vtVars    == <<threads, ending, locks>>

RecvPlaces == {"start", "loop", "handle", "ended"}
ProcPlaces == {"start", "loop", "take", "hide", "draw", "restore", "update", "painted", "ended"}
CallPlaces == {"out", "enter", "joinRecv", "joinProc", "close", "leave"}

VtInit ==
  /\ state = "live" /\ dll = TRUE
  /\ recving = FALSE /\ processing = FALSE
  /\ recv = "start" /\ proc = "start"
  /\ came = 0 /\ queued = 0 /\ shown = 0
  /\ at = [t \in Callers |-> "out"] /\ called = FALSE
  /\ deleting = [t \in Callers |-> FALSE]
  /\ section = "none" /\ gone = FALSE /\ late = FALSE
  /\ job = [t \in Painters |-> <<>>] /\ owner = [l \in Locks |-> "none"]

-----------------------------------------------------------------------------
(* Somebody waits for the threads to end. *)
Joins == \E t \in Callers : at[t] \in {"joinRecv", "joinProc"}

(* The mutexes of ClientConnection *)

Holds(t) == {l \in Locks : owner[l] = t}
Idle(t)  == job[t] = <<>> /\ Holds(t) = {}

(* SoftCursorMove, SoftCursorLockArea and SoftCursorUnlockScreen restore,   *)
(* save and draw with the cursor's mutex held.                              *)
CursorFirst == <<"cursor", "bitmap">>
BitmapOnly  == <<"bitmap">>

MoveBitmapFirst == <<"bitmap", "cursor">>   \* mutant: the locks in the other order

MoveLocks == CursorFirst

Lock(t) ==
  /\ job[t] # <<>> /\ owner[Head(job[t])] = "none"
  /\ owner' = [owner EXCEPT ![Head(job[t])] = t]
  /\ job' = [job EXCEPT ![t] = Tail(@)]
  /\ UNCHANGED <<threads, ending>>

Unlock(t) ==
  /\ job[t] = <<>> /\ Holds(t) # {}
  /\ owner' = [l \in Locks |-> IF owner[l] = t THEN "none" ELSE owner[l]]
  /\ UNCHANGED <<threads, ending, job>>

-----------------------------------------------------------------------------
(* RecvDataThreadFunc.  What it receives after it looked at m_Recving is a  *)
(* packet that completes a frame, a message whose handler sets              *)
(* m_ViewerState (or the view-only switch of m_ViewerDll), or nothing.  A   *)
(* full m_RecvQ refuses the frame, which is gone as if it had not come.     *)
RecvStarts ==
  /\ recv = "start"
  /\ recving' = TRUE /\ recv' = "loop"
  /\ late' = (late \/ Joins)
  /\ UNCHANGED <<processing, proc, came, queued, shown, ending, locks>>

RecvLooks ==
  /\ recv = "loop"
  /\ recv' = IF recving THEN "handle" ELSE "ended"
  /\ UNCHANGED <<recving, processing, proc, came, queued, shown, ending, locks, late>>

RecvHandles ==
  /\ recv = "handle"
  /\ recv' = "loop"
  /\ \/ state' = "live" /\ UNCHANGED <<came, queued>>
     \/ /\ came < MaxFrames /\ queued < RecvQSize
        /\ came' = came + 1 /\ queued' = queued + 1 /\ UNCHANGED state
     \/ UNCHANGED <<state, came, queued>>
  /\ UNCHANGED <<recving, processing, proc, shown, dll, at, called, deleting, section, gone, locks, late>>

RecvThread == RecvStarts \/ RecvLooks \/ RecvHandles

-----------------------------------------------------------------------------
(* ProcessDataThreadFunc *)
ProcStarts ==
  /\ proc = "start"
  /\ processing' = TRUE /\ proc' = "loop"
  /\ late' = (late \/ Joins)
  /\ UNCHANGED <<recving, recv, came, queued, shown, ending, locks>>

ProcLooks ==
  /\ proc = "loop"
  /\ proc' = IF processing THEN "take" ELSE "ended"
  /\ UNCHANGED <<recving, processing, recv, came, queued, shown, ending, locks, late>>

TakesTwice ==   \* mutant: the frame stays in the queue
  /\ proc = "take"
  /\ proc' = IF queued = 0 THEN "loop" ELSE "hide"
  /\ UNCHANGED <<recving, processing, recv, came, queued, shown, ending, locks, late>>

ProcTakes ==
  /\ proc = "take"
  /\ IF queued = 0 THEN proc' = "loop" /\ UNCHANGED queued
                   ELSE proc' = "hide" /\ queued' = queued - 1
  /\ UNCHANGED <<recving, processing, recv, came, shown, ending, locks, late>>

(* OnWinVncFrameData, for a frame of one rectangle: ReadScreenUpdate hides  *)
(* the cursor, draws and restores the cursor, each with its locks.          *)
Paints(from, needs, to) ==
  /\ proc = from /\ Idle("proc")
  /\ proc' = to
  /\ job' = [job EXCEPT !["proc"] = needs]
  /\ UNCHANGED <<recving, processing, recv, came, queued, shown, ending, owner, late>>

ProcHides    == Paints("hide", CursorFirst, "draw")
ProcDraws    == Paints("draw", BitmapOnly, "restore")
ProcRestores == Paints("restore", CursorFirst, "update")

(* UpdateWindow at the last rectangle, and SetWindowText and SizeWindow at  *)
(* the first: messages are sent to the UI thread, which answers when it is  *)
(* in its message loop.  WM_PAINT is DoBlit.                                *)
UiAnswersUpdate ==
  /\ proc = "update" /\ Idle("proc")
  /\ at["ui"] = "out" /\ Idle("ui")
  /\ proc' = "painted"
  /\ job' = [job EXCEPT !["ui"] = BitmapOnly]
  /\ UNCHANGED <<recving, processing, recv, came, queued, shown, ending, owner, late>>

ProcGoesOn ==
  /\ proc = "painted" /\ Idle("ui")
  /\ proc' = "loop" /\ shown' = shown + 1
  /\ UNCHANGED <<recving, processing, recv, came, queued, ending, locks, late>>

ProcThread == ProcStarts \/ ProcLooks \/ ProcTakes \/ ProcHides \/ ProcDraws \/ ProcRestores \/ ProcGoesOn

-----------------------------------------------------------------------------
(* The UI thread's message loop: sent messages come before posted ones.     *)
Sent == (proc = "update" /\ Idle("proc")) \/ proc = "painted" \/ (at["sdk"] = "close" /\ dll)

Dispatches == at["ui"] = "out" /\ Idle("ui") /\ ~Sent


(* WM_PAINT, WM_REGIONUPDATED; a move of the mouse *)
UiPaints ==
  /\ Dispatches
  /\ \E needs \in {BitmapOnly, MoveLocks} : job' = [job EXCEPT !["ui"] = needs]
  /\ UNCHANGED <<threads, ending, owner>>

-----------------------------------------------------------------------------
(* The end of the viewer *)

May(t) == ~gone /\ at[t] = "out" /\ (t = "ui" => Dispatches)

(* The plugin calls uninitViewer itself when it is Quiting or the room was  *)
(* not created, on the UI thread, and then is not so again.                 *)
UiCalls ==
  /\ May("ui") /\ ~called
  /\ called' = TRUE
  /\ at' = [at EXCEPT !["ui"] = "enter"]
  /\ UNCHANGED <<threads, state, dll, deleting, section, gone, locks>>

DeleteOnly(t) ==   \* mutant: the destructor does not call uninitViewer
  /\ May(t)
  /\ gone' = TRUE
  /\ UNCHANGED <<threads, state, dll, at, called, deleting, section, locks>>

(* ~CCPVncViewer: looks at m_ViewerState, in no section *)
Delete(t) ==
  /\ May(t)
  /\ IF state = "UnInit"
       THEN gone' = TRUE /\ UNCHANGED <<at, deleting>>
       ELSE /\ at' = [at EXCEPT ![t] = "enter"]
            /\ deleting' = [deleting EXCEPT ![t] = TRUE]
            /\ UNCHANGED gone
  /\ UNCHANGED <<threads, state, dll, called, section, locks>>

Out(t) ==
  /\ at' = [at EXCEPT ![t] = "out"]
  /\ deleting' = [deleting EXCEPT ![t] = FALSE]
  /\ gone' = (gone \/ deleting[t])

BeginKeepsFlag(t) ==   \* mutant: m_Processing stays
  /\ at[t] = "enter" /\ section \in {"none", t} /\ ~gone
  /\ section' = t
  /\ IF state = "UnInit"
       THEN Out(t) /\ UNCHANGED <<state, recving>>
       ELSE /\ state' = "UnInit" /\ recving' = FALSE
            /\ at' = [at EXCEPT ![t] = "joinRecv"]
            /\ UNCHANGED <<deleting, gone>>
  /\ UNCHANGED <<processing, recv, proc, came, queued, shown, dll, called, locks, late>>

(* Enters the section.  In state UnInit it returns and does not leave it.   *)
Begin(t) ==
  /\ at[t] = "enter" /\ section \in {"none", t} /\ ~gone
  /\ section' = t
  /\ IF state = "UnInit"
       THEN Out(t) /\ UNCHANGED <<state, recving, processing>>
       ELSE /\ state' = "UnInit" /\ recving' = FALSE /\ processing' = FALSE
            /\ at' = [at EXCEPT ![t] = "joinRecv"]
            /\ UNCHANGED <<deleting, gone>>
  /\ UNCHANGED <<recv, proc, came, queued, shown, dll, called, locks, late>>

(* Waits INFINITE for the threads, and dispatches no message meanwhile *)
JoinRecv(t) ==
  /\ at[t] = "joinRecv" /\ recv = "ended"
  /\ at' = [at EXCEPT ![t] = "joinProc"]
  /\ UNCHANGED <<threads, state, dll, called, deleting, section, gone, locks>>

NoJoinProc(t) ==   \* mutant: the process thread is not waited for
  /\ at[t] = "joinProc"
  /\ at' = [at EXCEPT ![t] = "close"]
  /\ UNCHANGED <<threads, state, dll, called, deleting, section, gone, locks>>

JoinProc(t) ==
  /\ at[t] = "joinProc" /\ proc = "ended"
  /\ at' = [at EXCEPT ![t] = "close"]
  /\ UNCHANGED <<threads, state, dll, called, deleting, section, gone, locks>>

(* StopAppViewer sends WM_CLOSE to the window, whose thread is the UI's.    *)
Close(t) ==
  /\ at[t] = "close"
  /\ t = "sdk" /\ dll => at["ui"] = "out" /\ Idle("ui")
  /\ dll' = FALSE
  /\ at' = [at EXCEPT ![t] = "leave"]
  /\ UNCHANGED <<threads, state, called, deleting, section, gone, locks>>

Leave(t) ==
  /\ at[t] = "leave"
  /\ section' = "none"
  /\ Out(t)
  /\ UNCHANGED <<threads, state, dll, called, locks>>

Ends(t) == Begin(t) \/ JoinRecv(t) \/ JoinProc(t) \/ Close(t) \/ Leave(t)

VtNext ==
  \/ RecvThread \/ ProcThread
  \/ UiAnswersUpdate \/ UiPaints \/ UiCalls
  \/ \E t \in Painters : Lock(t) \/ Unlock(t)
  \/ \E t \in Callers : Delete(t) \/ Ends(t)

VtSpec == VtInit /\ [][VtNext]_vtVars

(* The threads run, and get a lock that is free again and again.  Nobody    *)
(* has to end the viewer, and no frame has to come.                         *)
VtFairSpec ==
  /\ VtSpec
  /\ WF_vtVars(RecvThread) /\ WF_vtVars(ProcThread) /\ WF_vtVars(UiAnswersUpdate)
  /\ \A t \in Painters : SF_vtVars(Lock(t)) /\ WF_vtVars(Unlock(t))
  /\ \A t \in Callers : SF_vtVars(Ends(t))

-----------------------------------------------------------------------------
TypeOK ==
  /\ state \in {"UnInit", "live"} /\ dll \in BOOLEAN
  /\ recving \in BOOLEAN /\ processing \in BOOLEAN
  /\ recv \in RecvPlaces /\ proc \in ProcPlaces
  /\ came \in 0 .. MaxFrames /\ queued \in 0 .. RecvQSize /\ shown \in 0 .. MaxFrames
  /\ queued + shown <= came
  /\ at \in [Callers -> CallPlaces] /\ called \in BOOLEAN
  /\ deleting \in [Callers -> BOOLEAN]
  /\ section \in Callers \cup {"none"} /\ gone \in BOOLEAN /\ late \in BOOLEAN
  /\ \A t \in Painters : job[t] \in Seq(Locks)
  /\ owner \in [Locks -> Painters \cup {"none"}]

Drawing == {"hide", "draw", "restore", "update", "painted"}

(* m_ViewerDll, which both threads use without a test or a lock, is there   *)
(* while one of them draws or handles a message                             *)
(* (CCPVncViewer.cpp:174, 728, 742, 750, against 490), also when two        *)
(* threads end the viewer at a time, or one that is ended already.          *)
DllWhileUsed == (proc \in Drawing \/ recv = "handle") => dll

(* The viewer is not deleted under its threads (41), but by a thread that   *)
(* finds the other in the middle of uninitViewer and does not wait.         *)
DeletedLast ==
  gone => (recv = "ended" /\ proc = "ended") \/ \E t \in Callers : at[t] # "out"

(* The ways in which uninitViewer never ends: it clears a flag before the   *)
(* thread has begun, which then sets it (66, 158); the UI thread waits      *)
(* while the process thread, or the SDK's thread in StopAppViewer, has sent *)
(* it a message; the viewer is deleted under it.                            *)
UiWaits == at["ui"] \in {"enter", "joinRecv", "joinProc"}
Stuck   == \/ late
           \/ UiWaits /\ (proc = "update" \/ at["sdk"] = "close")
           \/ gone

(* But for these, a call of uninitViewer (471-512) ends, on whatever        *)
(* thread: the threads leave their loops, whatever they are at, and a       *)
(* section that was left behind (476) holds up nobody.                      *)
UninitEnds == \A t \in Callers : at[t] = "enter" ~> at[t] = "out" \/ Stuck

(* While the process thread is to run, every frame that m_RecvQ took is     *)
(* shown: the locks of window and cursor and the messages between the two   *)
(* threads never make them wait for each other.                             *)
FramesShown ==
  \A k \in 1 .. MaxFrames : came >= k /\ processing ~> shown >= k \/ ~processing \/ Stuck
=============================================================================
