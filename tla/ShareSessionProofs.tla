-------------------------- MODULE ShareSessionProofs --------------------------
(* The share sessions of two plugins, for every number of rooms, of         *)
(* requests, of broken connections and of messages that wait.               *)
EXTENDS ShareSession, FiniteSetTheorems, SequenceTheorems, TLAPS

-----------------------------------------------------------------------------
(* Sequences of notes: how many of a type they hold.                        *)
Without(t, s) == \A i \in 1 .. Len(s) : s[i].type # t
AtMostOne(t, s) ==
  \A i, j \in 1 .. Len(s) : s[i].type = t /\ s[j].type = t => i = j

(* s2 has no note of type t that s has not. *)
Kept(t, s, s2) ==
  /\ Without(t, s) => Without(t, s2)
  /\ AtMostOne(t, s) => AtMostOne(t, s2)

LEMMA SeqOver ==
  ASSUME NEW M, NEW N, M \subseteq N, NEW s \in Seq(M)
  PROVE  s \in Seq(N)
OBVIOUS

LEMMA KeptSame == \A t, s : Kept(t, s, s)
BY DEF Kept

LEMMA KeptTrans ==
  ASSUME NEW t, NEW s, NEW s2, NEW s3, Kept(t, s, s2), Kept(t, s2, s3)
  PROVE  Kept(t, s, s3)
BY DEF Kept

LEMMA KeptEmpty == \A t, s : Kept(t, s, << >>) /\ Without(t, << >>)
BY DEF Kept, Without, AtMostOne

(* A note at the end. *)
LEMMA AppendNote ==
  ASSUME NEW M, NEW s \in Seq(M), NEW n \in M, NEW t
  PROVE  /\ Append(s, n) \in Seq(M)
         /\ n.type # t => Kept(t, s, Append(s, n))
         /\ Without(t, s) => AtMostOne(t, Append(s, n))
         /\ n.type = t \/ ~Without(t, s) => ~Without(t, Append(s, n))
<1>1. /\ Append(s, n) \in Seq(M) /\ Len(Append(s, n)) = Len(s) + 1
      /\ \A i \in 1 .. Len(s) : Append(s, n)[i] = s[i]
      /\ Append(s, n)[Len(s) + 1] = n /\ Len(s) \in Nat
  OBVIOUS
<1>2. n.type # t => Kept(t, s, Append(s, n))
  <2> DEFINE q == Append(s, n)
  <2>1. ASSUME n.type # t, NEW i \in 1 .. Len(q), q[i].type = t
        PROVE  i \in 1 .. Len(s) /\ s[i].type = t
    BY <1>1, <2>1
  <2> HIDE DEF q
  <2> QED BY <2>1 DEF Kept, Without, AtMostOne, q
<1>3. Without(t, s) => AtMostOne(t, Append(s, n))
  BY <1>1 DEF Without, AtMostOne
<1>4. n.type = t \/ ~Without(t, s) => ~Without(t, Append(s, n))
  BY <1>1 DEF Without
<1> QED BY <1>1, <1>2, <1>3, <1>4

(* The head gone. *)
LEMMA TakeNote ==
  ASSUME NEW M, NEW s \in Seq(M), s # << >>, NEW t
  PROVE  /\ Tail(s) \in Seq(M) /\ Head(s) \in M
         /\ Kept(t, s, Tail(s))
         /\ Without(t, s) => Head(s).type # t
         /\ AtMostOne(t, s) /\ Head(s).type = t => Without(t, Tail(s))
         /\ ~Without(t, s) /\ Head(s).type # t => ~Without(t, Tail(s))
<1>1. /\ Tail(s) \in Seq(M) /\ Head(s) \in M /\ Head(s) = s[1]
      /\ Len(s) \in Nat \ {0} /\ Len(Tail(s)) = Len(s) - 1
      /\ \A i \in 1 .. Len(s) - 1 : Tail(s)[i] = s[i + 1]
  OBVIOUS
<1> DEFINE q == Tail(s)
<1>2. ASSUME NEW i \in 1 .. Len(q)
      PROVE  i + 1 \in 1 .. Len(s) /\ q[i] = s[i + 1] /\ i + 1 # 1
  BY <1>1
<1>3. ASSUME NEW i \in 1 .. Len(s), s[i].type = t, Head(s).type # t
      PROVE  i - 1 \in 1 .. Len(q) /\ q[i - 1] = s[i]
  <2>1. i # 1
    BY <1>1, <1>3
  <2> QED BY <1>1, <2>1
<1>4. Kept(t, s, q)
  <2>1. Without(t, s) => Without(t, q)
    BY <1>2 DEF Without
  <2>2. ASSUME AtMostOne(t, s), NEW i \in 1 .. Len(q), NEW j \in 1 .. Len(q),
               q[i].type = t, q[j].type = t
        PROVE  i = j
    <3>1. i + 1 = j + 1
      BY <1>2, <2>2 DEF AtMostOne
    <3> QED BY <1>1, <3>1
  <2> QED BY <2>1, <2>2 DEF Kept, AtMostOne
<1>5. Without(t, s) => Head(s).type # t
  BY <1>1 DEF Without
<1>6. ASSUME AtMostOne(t, s), Head(s).type = t
      PROVE  Without(t, q)
  <2>1. 1 \in 1 .. Len(s)
    BY <1>1
  <2> QED BY <1>1, <1>2, <1>6, <2>1 DEF AtMostOne, Without
<1>7. ~Without(t, s) /\ Head(s).type # t => ~Without(t, q)
  BY <1>3 DEF Without
<1> QED BY <1>1, <1>4, <1>5, <1>6, <1>7

(* Notes of other types at the end. *)
LEMMA AppendNotes ==
  ASSUME NEW M, NEW s \in Seq(M), NEW x \in Seq(M), NEW t, Without(t, x)
  PROVE  /\ s \o x \in Seq(M) /\ Kept(t, s, s \o x)
         /\ ~Without(t, s) => ~Without(t, s \o x)
<1>1. /\ s \o x \in Seq(M) /\ Len(s \o x) = Len(s) + Len(x)
      /\ Len(s) \in Nat /\ Len(x) \in Nat
      /\ \A i \in 1 .. Len(s) + Len(x) :
           (s \o x)[i] = IF i \in 1 .. Len(s) THEN s[i] ELSE x[i - Len(s)]
  OBVIOUS
<1> DEFINE q == s \o x
<1>2. ASSUME NEW i \in 1 .. Len(q), q[i].type = t
      PROVE  i \in 1 .. Len(s) /\ s[i].type = t
  <2>1. CASE i \in 1 .. Len(s)
    BY <1>1, <1>2, <2>1
  <2>2. CASE i \notin 1 .. Len(s)
    <3>1. i - Len(s) \in 1 .. Len(x) /\ q[i] = x[i - Len(s)]
      BY <1>1, <2>2
    <3> QED BY <1>2, <3>1 DEF Without
  <2> QED BY <2>1, <2>2
<1> HIDE DEF q
<1>3. Kept(t, s, q)
  BY <1>2 DEF Kept, Without, AtMostOne
<1>4. ASSUME ~Without(t, s) PROVE ~Without(t, q)
  <2>1. PICK i \in 1 .. Len(s) : s[i].type = t
    BY <1>4 DEF Without
  <2>2. i \in 1 .. Len(q) /\ q[i].type = t
    BY <1>1, <2>1 DEF q
  <2> QED BY <2>2 DEF Without
<1> QED BY <1>1, <1>3, <1>4 DEF q

(* What s2 adds to s, or takes away, is not about the room of a sharer: it  *)
(* neither lets him in nor out.                                             *)
Echo(s, s2) ==
  /\ Kept("Joined", s, s2) /\ Kept("Quit", s, s2)
  /\ ~Without("Quit", s) => ~Without("Quit", s2)

LEMMA EchoSame == \A s : Echo(s, s)
BY KeptSame DEF Echo

LEMMA EchoAppend ==
  ASSUME NEW M, NEW s \in Seq(M), NEW n \in M, n.type \notin {"Joined", "Quit"}
  PROVE  Echo(s, Append(s, n))
BY AppendNote DEF Echo

LEMMA EchoTail ==
  ASSUME NEW M, NEW s \in Seq(M), s # << >>, Head(s).type \notin {"Joined", "Quit"}
  PROVE  Echo(s, Tail(s))
BY TakeNote DEF Echo

-----------------------------------------------------------------------------
(* The types, in the form the proofs use: an endpoint and a plugin are      *)
(* records, and the share server never tells a sharer that it created a     *)
(* room.                                                                    *)
RoomIds == Rooms \cup {0}
SharerRequests == Notes({"JoinRoom", "QuitRoom"})
SharerAnswers  == Notes({"Joined", "JoinFailed", "Quit", "ExitRoom", "RoomClosed"})
ServerStates == {"UnInit", "Init", "Joining", "Sharing"}
ViewerStates == {"NULL", "UnInit", "Init", "RoomCreating", "Joining", "Sharing", "Quiting"}
ServerEnds == [state : ServerStates, room : RoomIds, queue : Seq(SharerRequests)]
ViewerEnds == [state : ViewerStates, room : RoomIds, queue : Seq(Requests)]

Plugins ==
  [server : {"Normal", "RecvReqing", "Sharing", "Quiting"},
   viewer : {"Normal", "Reqing", "Sharing", "Quiting"},
   room : RoomIds, timers : SUBSET {"Join", "Quit", "Create"},
   posted : Seq(Callbacks), sent : Seq(Commands),
   S : ServerEnds, V : ViewerEnds,
   asked : BOOLEAN, told : BOOLEAN, requests : 0 .. MaxRequests, crashed : BOOLEAN]

Typed ==
  /\ plugin \in [Users -> Plugins]
  /\ inbox \in [Ends -> Seq(Answers)]
  /\ \A u \in Users : inbox[<<u, "S">>] \in Seq(SharerAnswers)
  /\ members \in [Rooms -> SUBSET Ends] /\ used \subseteq Rooms
  /\ breaks \in 0 .. MaxBreaks

LEMMA NoteIs ==
  ASSUME NEW ts, NEW t \in ts, NEW r \in RoomIds
  PROVE  Note(t, r) \in Notes(ts) /\ Note(t, r).type = t /\ Note(t, r).room = r
BY DEF Note, Notes, RoomIds

LEMMA TypedTypes == Typed => TypeOK
<1>1. ASSUME NEW p \in Plugins
      PROVE  /\ p.server \in {"Normal", "RecvReqing", "Sharing", "Quiting"}
             /\ p.viewer \in {"Normal", "Reqing", "Sharing", "Quiting"}
             /\ p.room \in Rooms \cup {0} /\ p.timers \subseteq {"Join", "Quit", "Create"}
             /\ p.posted \in Seq(Callbacks) /\ p.sent \in Seq(Commands)
             /\ p.S.state \in ServerStates /\ p.V.state \in ViewerStates
             /\ \A x \in {"S", "V"} : p[x].room \in Rooms \cup {0} /\ p[x].queue \in Seq(Requests)
             /\ {p.asked, p.told, p.crashed} \subseteq BOOLEAN /\ p.requests \in 0 .. MaxRequests
  <2>1. SharerRequests \subseteq Requests
    BY DEF SharerRequests, Requests, Notes
  <2>2. p.S.queue \in Seq(Requests)
    BY <2>1, SeqOver DEF Plugins, ServerEnds
  <2>3. \A x \in {"S", "V"} : p[x].room \in Rooms \cup {0} /\ p[x].queue \in Seq(Requests)
    BY <2>2 DEF Plugins, ServerEnds, ViewerEnds, RoomIds
  <2>4. {p.asked, p.told, p.crashed} \subseteq BOOLEAN
    BY DEF Plugins
  <2> QED BY <2>3, <2>4 DEF Plugins, ServerEnds, ViewerEnds, RoomIds
<1>2. ASSUME Typed, NEW u \in Users
      PROVE  plugin[u] \in Plugins
  BY <1>2 DEF Typed
<1> QED BY <1>1, <1>2 DEF TypeOK, Typed, ServerStates, ViewerStates

(* SetToSeq is a choice: of a finite set there is a sequence to choose.     *)
LEMMA SetToSeqIs ==
  ASSUME NEW S, IsFiniteSet(S)
  PROVE  SetToSeq(S) \in Seq(S) /\ (S = {} => SetToSeq(S) = << >>)
<1>1. Cardinality(S) \in Nat /\ ExistsBijection(1 .. Cardinality(S), S)
  BY FS_CardinalityType
<1>2. \E f \in [1 .. Cardinality(S) -> S] : IsInjective(f)
  BY <1>1 DEF ExistsBijection, Bijection, Injection
<1>3. SetToSeq(S) \in [1 .. Cardinality(S) -> S]
  BY <1>2 DEF SetToSeq
<1>4. SetToSeq(S) \in Seq(S)
  BY <1>1, <1>3
<1>5. ASSUME S = {}
      PROVE  SetToSeq(S) = << >>
  <2>1. \A q \in Seq(S) : Len(q) = 0
    BY <1>5
  <2> QED BY <1>4, <2>1
<1> QED BY <1>4, <1>5

(* The ExitRoom notes of some rooms. *)
LEMMA ExitsAre ==
  ASSUME NEW R \in SUBSET Rooms
  PROVE  LET x == SetToSeq({Note("ExitRoom", r) : r \in R}) IN
         /\ x \in Seq(SharerAnswers)
         /\ \A t \in {"Created", "Joined", "Quit"} : Without(t, x)
         /\ R = {} => x = << >>
<1> DEFINE T == {Note("ExitRoom", r) : r \in R}
           f == [r \in R |-> Note("ExitRoom", r)]
           x == SetToSeq(T)
<1>1. IsFiniteSet(R)
  BY SessionAssumption, FS_Subset
<1>2. f \in Surjection(R, T)
  BY DEF Surjection
<1>3. IsFiniteSet(T)
  BY <1>1, <1>2, FS_Surjection
<1>4. T \subseteq {n \in SharerAnswers : n.type = "ExitRoom"}
  <2>1. ASSUME NEW r \in R
        PROVE  Note("ExitRoom", r) \in SharerAnswers /\ Note("ExitRoom", r).type = "ExitRoom"
    BY NoteIs DEF SharerAnswers, RoomIds
  <2> QED BY <2>1
<1> HIDE DEF T
<1>5. x \in Seq(T) /\ (T = {} => x = << >>)
  BY <1>3, SetToSeqIs
<1>6. x \in Seq(SharerAnswers)
  BY <1>4, <1>5, SeqOver
<1>7. \A i \in 1 .. Len(x) : x[i].type = "ExitRoom"
  BY <1>4, <1>5
<1> QED BY <1>5, <1>6, <1>7 DEF Without, T

-----------------------------------------------------------------------------
(* What the share server does when connections end.                         *)
Outside(e) == \A r \in Rooms : e \notin members[r]

LEMMA LeaveFacts ==
  ASSUME Typed, NEW gone \in SUBSET Ends, Leave(gone)
  PROVE  /\ inbox' \in [Ends -> Seq(Answers)]
         /\ \A u \in Users : inbox'[<<u, "S">>] \in Seq(SharerAnswers)
         /\ members' \in [Rooms -> SUBSET Ends] /\ used' = used
         /\ \A e \in Ends : Kept("Created", inbox[e], inbox'[e])
         /\ \A e \in Ends : Outside(e) => Outside(e)' /\ (inbox[e] = << >> => inbox'[e] = << >>)
         /\ \A e \in gone : inbox'[e] = << >>
         /\ \A e \in Ends \ gone : Echo(inbox[e], inbox'[e])
<1> DEFINE told(e, rs) == SetToSeq({Note("ExitRoom", r) : r \in {q \in rs : e \in members[q]}})
<1>1. PICK heard \in SUBSET Rooms :
        inbox' = [e \in Ends |-> IF e \in gone THEN << >> ELSE inbox[e] \o told(e, heard)]
  BY DEF Leave
<1>2. members' = [r \in Rooms |-> members[r] \ gone] /\ used' = used
  BY DEF Leave
<1>3. ASSUME NEW e \in Ends
      PROVE  /\ told(e, heard) \in Seq(SharerAnswers)
             /\ \A t \in {"Created", "Joined", "Quit"} : Without(t, told(e, heard))
             /\ Outside(e) => told(e, heard) = << >>
  <2> DEFINE R == {q \in heard : e \in members[q]}
  <2>1. R \in SUBSET Rooms /\ (Outside(e) => R = {})
    BY DEF Outside
  <2> HIDE DEF R
  <2>2. LET x == SetToSeq({Note("ExitRoom", r) : r \in R}) IN
         /\ x \in Seq(SharerAnswers)
         /\ \A t \in {"Created", "Joined", "Quit"} : Without(t, x)
         /\ R = {} => x = << >>
    BY <2>1, ExitsAre
  <2> QED BY <2>1, <2>2 DEF R
<1> HIDE DEF told
<1>4. SharerAnswers \subseteq Answers
  BY DEF SharerAnswers, Answers, Notes
<1>5. ASSUME NEW e \in Ends
      PROVE  /\ inbox'[e] \in Seq(Answers) /\ Kept("Created", inbox[e], inbox'[e])
             /\ inbox[e] \in Seq(SharerAnswers) => inbox'[e] \in Seq(SharerAnswers)
             /\ Outside(e) => (inbox[e] = << >> => inbox'[e] = << >>)
             /\ e \notin gone => Echo(inbox[e], inbox'[e])
  <2>1. CASE e \in gone
    <3>1. inbox'[e] = << >>
      BY <1>1, <2>1
    <3> QED BY <2>1, <3>1, KeptEmpty
  <2>2. CASE e \notin gone
    <3>1. inbox'[e] = inbox[e] \o told(e, heard)
      BY <1>1, <2>2
    <3>2. inbox[e] \in Seq(Answers)
      BY DEF Typed
    <3>3. told(e, heard) \in Seq(Answers)
      BY <1>3, <1>4, SeqOver
    <3>4. inbox'[e] \in Seq(Answers) /\ Kept("Created", inbox[e], inbox'[e])
      BY <1>3, <3>1, <3>2, <3>3, AppendNotes
    <3>5. inbox[e] \in Seq(SharerAnswers) => inbox'[e] \in Seq(SharerAnswers)
      BY <1>3, <3>1
    <3>6. Echo(inbox[e], inbox'[e])
      <4> DEFINE x == told(e, heard)
      <4>1. Without("Joined", x) /\ Without("Quit", x) /\ x \in Seq(Answers)
        BY <1>3, <3>3
      <4>2. inbox'[e] = inbox[e] \o x
        BY <3>1
      <4> HIDE DEF x
      <4>3. /\ Kept("Joined", inbox[e], inbox[e] \o x) /\ Kept("Quit", inbox[e], inbox[e] \o x)
            /\ ~Without("Quit", inbox[e]) => ~Without("Quit", inbox[e] \o x)
        BY <3>2, <4>1, AppendNotes
      <4> QED BY <4>2, <4>3 DEF Echo
    <3> QED BY <1>3, <3>1, <3>4, <3>5, <3>6
  <2> QED BY <2>1, <2>2
<1>6. inbox' \in [Ends -> Seq(Answers)]
  BY <1>1, <1>5
<1>7. \A u \in Users : inbox'[<<u, "S">>] \in Seq(SharerAnswers)
  <2>1. ASSUME NEW u \in Users
        PROVE  <<u, "S">> \in Ends /\ inbox[<<u, "S">>] \in Seq(SharerAnswers)
    BY DEF Ends, Typed
  <2> QED BY <1>5, <2>1
<1>8. \A e \in Ends : Outside(e) => Outside(e)'
  BY <1>2 DEF Outside
<1>9. \A e \in gone : inbox'[e] = << >>
  BY <1>1
<1>10. members' \in [Rooms -> SUBSET Ends]
  BY <1>2 DEF Typed
<1> QED BY <1>2, <1>5, <1>6, <1>7, <1>8, <1>9, <1>10

-----------------------------------------------------------------------------
(* What the plugin's helpers leave as it was.  A plain step of a plugin     *)
(* adds nothing to what a session hangs on: no callback, no invitation or   *)
(* answer to one, no timer of a join or a creation, no endpoint that        *)
(* shares, none that is gone, no request for a room, and no use of an       *)
(* endpoint that is gone if there was none to use.                          *)
Resting(end) == end.state = "UnInit" /\ end.queue = << >>
Sound(p) == ~p.crashed /\ (p.V.state = "NULL" => p.viewer = "Normal")
Idle(p) == Resting(p.S) /\ Resting(p.V) /\ "Quit" \notin p.timers

Plain(p, q) ==
  /\ q \in Plugins
  /\ q.posted = p.posted /\ q.asked = p.asked /\ q.requests = p.requests
  /\ "Join" \in q.timers => "Join" \in p.timers
  /\ "Create" \in q.timers => "Create" \in p.timers
  /\ Kept("Request", p.sent, q.sent) /\ Kept("Rejected", p.sent, q.sent)
  /\ Kept("Accepted", p.sent, q.sent)
  /\ q.S.state = "Sharing" => p.S.state = "Sharing"
  /\ q.V.state = "NULL" => p.V.state = "NULL"
  /\ Kept("CreateRoom", p.V.queue, q.V.queue)
  /\ Resting(p.S) => Resting(q.S)
  /\ Resting(p.V) => Resting(q.V)
  /\ Idle(p) => Idle(q)
  /\ Sound(p) => Sound(q)

LEMMA PlainSame == \A p \in Plugins : Plain(p, p)
BY KeptSame DEF Plain

LEMMA PlainTrans ==
  ASSUME NEW p, NEW q, NEW r, Plain(p, q), Plain(q, r)
  PROVE  Plain(p, r)
<1> USE DEF Plain
<1>1. /\ Kept("Request", p.sent, r.sent) /\ Kept("Rejected", p.sent, r.sent)
      /\ Kept("Accepted", p.sent, r.sent) /\ Kept("CreateRoom", p.V.queue, r.V.queue)
  BY KeptTrans
<1> QED BY <1>1

LEMMA SendPlain ==
  ASSUME NEW p \in Plugins, NEW t \in {"Stop", "Failed"}, NEW r \in RoomIds
  PROVE  Plain(p, Send(p, t, r))
<1>1. Note(t, r) \in Commands /\ Note(t, r).type = t
  BY NoteIs DEF Commands
<1>2. p.sent \in Seq(Commands)
  BY DEF Plugins
<1> DEFINE s == Append(p.sent, Note(t, r))
           q == Send(p, t, r)
<1>3. /\ s \in Seq(Commands) /\ Kept("Request", p.sent, s)
      /\ Kept("Rejected", p.sent, s) /\ Kept("Accepted", p.sent, s)
  BY <1>1, <1>2, AppendNote
<1>4. q = [p EXCEPT !.sent = s]
  BY DEF Send
<1> HIDE DEF s, q
<1>5. /\ q \in Plugins /\ q.sent = s /\ q.posted = p.posted /\ q.asked = p.asked
      /\ q.requests = p.requests /\ q.timers = p.timers /\ q.S = p.S /\ q.V = p.V
      /\ q.viewer = p.viewer /\ q.crashed = p.crashed
  BY <1>3, <1>4 DEF Plugins
<1> QED BY <1>3, <1>5, KeptSame DEF Plain, Sound, Idle, q

LEMMA PlainFields ==
  ASSUME NEW p \in Plugins, NEW q \in Plugins,
         q.posted = p.posted, q.asked = p.asked, q.requests = p.requests, q.sent = p.sent,
         "Join" \in q.timers => "Join" \in p.timers,
         "Create" \in q.timers => "Create" \in p.timers,
         "Quit" \in q.timers => "Quit" \in p.timers \/ ~Idle(p),
         q.S = p.S \/ Resting(q.S) \/ (p.S.state = "Sharing" /\ q.S.state = "Sharing"),
         \/ q.V = p.V \/ Resting(q.V)
         \/ /\ p.V.state = "Sharing" /\ q.V.state # "NULL"
            /\ Kept("CreateRoom", p.V.queue, q.V.queue),
         Sound(p) => Sound(q)
  PROVE  Plain(p, q)
<1>1. /\ q.S.state = "Sharing" => p.S.state = "Sharing"
      /\ Resting(p.S) => Resting(q.S)
  BY DEF Resting
<1>2. /\ q.V.state = "NULL" => p.V.state = "NULL"
      /\ Kept("CreateRoom", p.V.queue, q.V.queue)
      /\ Resting(p.V) => Resting(q.V)
  BY KeptSame, KeptEmpty DEF Resting
<1>3. Idle(p) => Idle(q)
  BY <1>1, <1>2 DEF Idle
<1> QED BY <1>1, <1>2, <1>3, KeptSame DEF Plain

(* The plugin's own fields only. *)
LEMMA FieldsPlain ==
  ASSUME NEW p \in Plugins, NEW q \in Plugins,
         q.posted = p.posted, q.asked = p.asked, q.requests = p.requests, q.sent = p.sent,
         q.timers = p.timers, q.S = p.S, q.V = p.V, q.crashed = p.crashed,
         q.viewer \in {p.viewer, "Normal"}
  PROVE  Plain(p, q)
BY PlainFields DEF Sound

LEMMA ServerRoomToldPlain ==
  ASSUME NEW p \in Plugins, NEW s \in {"Normal", "RecvReqing", "Sharing", "Quiting"},
         NEW r \in RoomIds, NEW b \in BOOLEAN
  PROVE  Plain(p, [p EXCEPT !.server = s, !.room = r, !.told = b])
<1> DEFINE q == [p EXCEPT !.server = s, !.room = r, !.told = b]
<1>1. q \in Plugins
  BY DEF Plugins
<1>2. /\ q.posted = p.posted /\ q.asked = p.asked /\ q.requests = p.requests
      /\ q.sent = p.sent /\ q.timers = p.timers /\ q.S = p.S /\ q.V = p.V
      /\ q.viewer \in {p.viewer, "Normal"} /\ q.crashed = p.crashed
  BY DEF Plugins
<1> HIDE DEF q
<1>3. Plain(p, q)
  BY <1>1, <1>2, FieldsPlain
<1> QED BY <1>3 DEF q

LEMMA ServerToldPlain ==
  ASSUME NEW p \in Plugins, NEW s \in {"Normal", "RecvReqing", "Sharing", "Quiting"}, NEW b \in BOOLEAN
  PROVE  Plain(p, [p EXCEPT !.server = s, !.told = b])
<1> DEFINE q == [p EXCEPT !.server = s, !.told = b]
<1>1. q \in Plugins
  BY DEF Plugins
<1>2. /\ q.posted = p.posted /\ q.asked = p.asked /\ q.requests = p.requests
      /\ q.sent = p.sent /\ q.timers = p.timers /\ q.S = p.S /\ q.V = p.V
      /\ q.viewer \in {p.viewer, "Normal"} /\ q.crashed = p.crashed
  BY DEF Plugins
<1> HIDE DEF q
<1>3. Plain(p, q)
  BY <1>1, <1>2, FieldsPlain
<1> QED BY <1>3 DEF q

LEMMA ServerFieldPlain ==
  ASSUME NEW p \in Plugins, NEW s \in {"Normal", "RecvReqing", "Sharing", "Quiting"}
  PROVE  Plain(p, [p EXCEPT !.server = s])
<1> DEFINE q == [p EXCEPT !.server = s]
<1>1. q \in Plugins
  BY DEF Plugins
<1>2. /\ q.posted = p.posted /\ q.asked = p.asked /\ q.requests = p.requests
      /\ q.sent = p.sent /\ q.timers = p.timers /\ q.S = p.S /\ q.V = p.V
      /\ q.viewer \in {p.viewer, "Normal"} /\ q.crashed = p.crashed
  BY DEF Plugins
<1> HIDE DEF q
<1>3. Plain(p, q)
  BY <1>1, <1>2, FieldsPlain
<1> QED BY <1>3 DEF q

LEMMA ViewerToldPlain ==
  ASSUME NEW p \in Plugins, NEW v \in {p.viewer, "Normal"}, NEW b \in BOOLEAN
  PROVE  Plain(p, [p EXCEPT !.viewer = v, !.told = b])
<1> DEFINE q == [p EXCEPT !.viewer = v, !.told = b]
<1>1. q \in Plugins
  BY DEF Plugins
<1>2. /\ q.posted = p.posted /\ q.asked = p.asked /\ q.requests = p.requests
      /\ q.sent = p.sent /\ q.timers = p.timers /\ q.S = p.S /\ q.V = p.V
      /\ q.viewer \in {p.viewer, "Normal"} /\ q.crashed = p.crashed
  BY DEF Plugins
<1> HIDE DEF q
<1>3. Plain(p, q)
  BY <1>1, <1>2, FieldsPlain
<1> QED BY <1>3 DEF q

LEMMA ViewerFieldPlain ==
  ASSUME NEW p \in Plugins, NEW v \in {p.viewer, "Normal"}
  PROVE  Plain(p, [p EXCEPT !.viewer = v])
<1> DEFINE q == [p EXCEPT !.viewer = v]
<1>1. q \in Plugins
  BY DEF Plugins
<1>2. /\ q.posted = p.posted /\ q.asked = p.asked /\ q.requests = p.requests
      /\ q.sent = p.sent /\ q.timers = p.timers /\ q.S = p.S /\ q.V = p.V
      /\ q.viewer \in {p.viewer, "Normal"} /\ q.crashed = p.crashed
  BY DEF Plugins
<1> HIDE DEF q
<1>3. Plain(p, q)
  BY <1>1, <1>2, FieldsPlain
<1> QED BY <1>3 DEF q

LEMMA RoomToldPlain ==
  ASSUME NEW p \in Plugins, NEW r \in RoomIds, NEW b \in BOOLEAN
  PROVE  Plain(p, [p EXCEPT !.room = r, !.told = b])
<1> DEFINE q == [p EXCEPT !.room = r, !.told = b]
<1>1. q \in Plugins
  BY DEF Plugins
<1>2. /\ q.posted = p.posted /\ q.asked = p.asked /\ q.requests = p.requests
      /\ q.sent = p.sent /\ q.timers = p.timers /\ q.S = p.S /\ q.V = p.V
      /\ q.viewer \in {p.viewer, "Normal"} /\ q.crashed = p.crashed
  BY DEF Plugins
<1> HIDE DEF q
<1>3. Plain(p, q)
  BY <1>1, <1>2, FieldsPlain
<1> QED BY <1>3 DEF q

LEMMA TimersPlain ==
  ASSUME NEW p \in Plugins, NEW t \in {"Join", "Quit", "Create"}, NEW ts \in {{}, {"Quit"}},
         ts = {} \/ ~Idle(p)
  PROVE  Plain(p, KillTimer(p, t)) /\ Plain(p, SetTimer(p, ts))
<1>1. ASSUME NEW q \in {KillTimer(p, t), SetTimer(p, ts)}
      PROVE  Plain(p, q)
  <2>1. PICK T \in SUBSET {"Join", "Quit", "Create"} :
          /\ q = [p EXCEPT !.timers = T] /\ T \subseteq p.timers \cup ts
    <3>1. KillTimer(p, t) = [p EXCEPT !.timers = p.timers \ {t}]
      BY DEF KillTimer
    <3>2. SetTimer(p, ts) = [p EXCEPT !.timers = p.timers \cup ts]
      BY DEF SetTimer
    <3>3. p.timers \in SUBSET {"Join", "Quit", "Create"}
      BY DEF Plugins
    <3> QED BY <1>1, <3>1, <3>2, <3>3
  <2>2. /\ q \in Plugins /\ q.posted = p.posted /\ q.asked = p.asked /\ q.requests = p.requests
        /\ q.sent = p.sent /\ q.timers = T /\ q.S = p.S /\ q.V = p.V
        /\ q.viewer = p.viewer /\ q.crashed = p.crashed
    BY <2>1 DEF Plugins
  <2>3. ("Join" \in q.timers => "Join" \in p.timers)
        /\ ("Create" \in q.timers => "Create" \in p.timers)
        /\ ("Quit" \in q.timers => "Quit" \in p.timers \/ ~Idle(p))
    BY <2>1, <2>2
  <2> QED BY <2>2, <2>3, PlainFields DEF Sound
<1> QED BY <1>1

LEMMA SharerEndPlain ==
  ASSUME NEW p \in Plugins, NEW end \in ServerEnds,
         Resting(end) \/ (p.S.state = "Sharing" /\ end.state = "Sharing")
  PROVE  Plain(p, [p EXCEPT !.S = end])
<1> DEFINE q == [p EXCEPT !.S = end]
<1>1. /\ q \in Plugins /\ q.posted = p.posted /\ q.asked = p.asked /\ q.requests = p.requests
      /\ q.sent = p.sent /\ q.timers = p.timers /\ q.S = end /\ q.V = p.V
      /\ q.viewer = p.viewer /\ q.crashed = p.crashed
  BY DEF Plugins
<1> HIDE DEF q
<1>2. Plain(p, q)
  BY <1>1, PlainFields DEF Sound
<1> QED BY <1>2 DEF q

LEMMA uninitServerPlain ==
  ASSUME NEW p \in Plugins
  PROVE  /\ Plain(p, uninitServer(p)) /\ uninitServer(p).S.state = "UnInit"
         /\ uninitServer(p) \in Plugins
<1> DEFINE end == [p.S EXCEPT !.state = "UnInit", !.queue = << >>]
<1>1. end \in ServerEnds /\ end.state = "UnInit" /\ end.queue = << >>
  <2>1. p.S \in ServerEnds /\ << >> \in Seq(SharerRequests) /\ "UnInit" \in ServerStates
    BY DEF Plugins, ServerStates
  <2> QED BY <2>1 DEF ServerEnds
<1>2. uninitServer(p) = [p EXCEPT !.S = end]
  BY DEF uninitServer, Plugins, ServerEnds
<1> HIDE DEF end
<1>3. [p EXCEPT !.S = end] \in Plugins /\ [p EXCEPT !.S = end].S = end
  BY <1>1 DEF Plugins
<1> QED BY <1>1, <1>2, <1>3, SharerEndPlain DEF Resting

LEMMA serverQuitPlain ==
  ASSUME NEW p \in Plugins, p.S.state = "Sharing"
  PROVE  Plain(p, serverQuit(p)) /\ serverQuit(p).S.state = "Sharing"
<1> DEFINE end == [p.S EXCEPT !.queue = Append(p.S.queue, Note("QuitRoom", p.S.room))]
<1>1. p.S \in ServerEnds /\ p.S.room \in RoomIds /\ p.S.queue \in Seq(SharerRequests)
  BY DEF Plugins, ServerEnds
<1>2. Append(p.S.queue, Note("QuitRoom", p.S.room)) \in Seq(SharerRequests)
  BY <1>1, NoteIs, AppendNote DEF SharerRequests
<1>3. end \in ServerEnds /\ end.state = "Sharing"
  BY <1>1, <1>2 DEF ServerEnds
<1>4. serverQuit(p) = [p EXCEPT !.S = end]
  BY DEF serverQuit, Ask, Plugins
<1> HIDE DEF end
<1>5. [p EXCEPT !.S = end].S = end
  BY DEF Plugins
<1> QED BY <1>3, <1>4, <1>5, SharerEndPlain

LEMMA StopServerPlain ==
  ASSUME NEW p \in Plugins, NEW ts \in {{}, {"Quit"}}
  PROVE  Plain(p, StopServer(p, ts))
<1>1. CASE p.S.state = "Sharing"
  <2>1. /\ Plain(p, serverQuit(p)) /\ serverQuit(p) \in Plugins
        /\ serverQuit(p).S.state = "Sharing"
    BY <1>1, serverQuitPlain DEF Plain
  <2> DEFINE q == [serverQuit(p) EXCEPT !.server = "Quiting"]
  <2>2. Plain(serverQuit(p), q) /\ q \in Plugins
    BY <2>1, ServerFieldPlain DEF Plain
  <2>3. q.S.state = "Sharing"
    BY <2>1 DEF Plugins
  <2>5. Plain(q, SetTimer(q, ts))
    <3> HIDE DEF q
    <3>1. ~Idle(q)
      BY <2>3 DEF Idle, Resting
    <3> QED BY <2>2, <3>1, TimersPlain
  <2>4. StopServer(p, ts) = SetTimer(q, ts)
    BY <1>1 DEF StopServer
  <2> HIDE DEF q
  <2> QED BY <2>1, <2>2, <2>4, <2>5, PlainTrans
<1>2. CASE p.S.state # "Sharing"
  <2>1. StopServer(p, ts) = [p EXCEPT !.server = "Normal", !.told = FALSE]
    BY <1>2 DEF StopServer
  <2> QED BY <2>1, ServerToldPlain
<1> QED BY <1>1, <1>2

(* The viewer's endpoint, with the field of the plugin that belongs to it. *)
LEMMA ViewerEndPlain ==
  ASSUME NEW p \in Plugins, NEW end \in ViewerEnds,
         NEW v \in {"Normal", "Reqing", "Sharing", "Quiting"},
         \/ Resting(end)
         \/ /\ p.V.state = "Sharing" /\ end.state # "NULL"
            /\ Kept("CreateRoom", p.V.queue, end.queue)
  PROVE  Plain(p, [p EXCEPT !.V = end, !.viewer = v])
<1> DEFINE q == [p EXCEPT !.V = end, !.viewer = v]
<1>1. q \in Plugins
  BY DEF Plugins
<1>2. /\ q.posted = p.posted /\ q.asked = p.asked /\ q.requests = p.requests
      /\ q.sent = p.sent /\ q.timers = p.timers /\ q.S = p.S /\ q.V = end
      /\ q.viewer = v /\ q.crashed = p.crashed
  BY DEF Plugins
<1> HIDE DEF q
<1>3. end.state # "NULL"
  BY DEF Resting
<1>4. Plain(p, q)
  BY <1>1, <1>2, <1>3, PlainFields DEF Sound
<1> QED BY <1>4 DEF q

LEMMA viewerQuitIs ==
  ASSUME NEW p \in Plugins, p.V.state = "Sharing"
  PROVE  \E end \in ViewerEnds :
           /\ [viewerQuit(p) EXCEPT !.viewer = "Quiting"] = [p EXCEPT !.V = end, !.viewer = "Quiting"]
           /\ end.state = "Quiting" /\ Kept("CreateRoom", p.V.queue, end.queue)
<1> DEFINE queue == Append(p.V.queue, Note("QuitRoom", p.V.room))
           end == [state |-> "Quiting", room |-> p.V.room, queue |-> queue]
<1>1. p.V \in ViewerEnds /\ p.V.room \in RoomIds /\ p.V.queue \in Seq(Requests)
  BY DEF Plugins, ViewerEnds
<1>2. Note("QuitRoom", p.V.room) \in Requests /\ Note("QuitRoom", p.V.room).type = "QuitRoom"
  BY <1>1, NoteIs DEF Requests
<1>3. queue \in Seq(Requests) /\ Kept("CreateRoom", p.V.queue, queue)
  BY <1>1, <1>2, AppendNote
<1> DEFINE asking == [p.V EXCEPT !.queue = queue]
<1>4. Ask(p, "V", "QuitRoom", p.V.room) = [p EXCEPT !.V = asking]
  BY DEF Ask, Plugins
<1>5. asking = [state |-> p.V.state, room |-> p.V.room, queue |-> queue]
  BY <1>1 DEF ViewerEnds
<1> HIDE DEF asking, queue
<1>7. end \in ViewerEnds
  BY <1>1, <1>3 DEF ViewerEnds, ViewerStates, queue
<1>8. [asking EXCEPT !.state = "Quiting"] = end
  BY <1>5
<1> DEFINE q == [p EXCEPT !.V = asking]
<1>9. q.V = asking
  BY DEF Plugins
<1>10. viewerQuit(p) = [q EXCEPT !.V = end]
  BY <1>4, <1>8, <1>9 DEF viewerQuit
<1>11. [[q EXCEPT !.V = end] EXCEPT !.viewer = "Quiting"] = [p EXCEPT !.V = end, !.viewer = "Quiting"]
  BY DEF Plugins
<1>12. end.state = "Quiting" /\ end.queue = queue
  OBVIOUS
<1> HIDE DEF end, q
<1> QED BY <1>3, <1>7, <1>10, <1>11, <1>12

LEMMA CrashPlain ==
  ASSUME NEW p \in Plugins, p.V.state = "NULL", p.viewer # "Normal"
  PROVE  Plain(p, [p EXCEPT !.crashed = TRUE])
<1> DEFINE q == [p EXCEPT !.crashed = TRUE]
<1>1. q \in Plugins
  BY DEF Plugins
<1>2. /\ q.posted = p.posted /\ q.asked = p.asked /\ q.requests = p.requests
      /\ q.sent = p.sent /\ q.timers = p.timers /\ q.S = p.S /\ q.V = p.V
  BY DEF Plugins
<1> HIDE DEF q
<1>3. Plain(p, q)
  BY <1>1, <1>2, PlainFields DEF Sound
<1> QED BY <1>3 DEF q

LEMMA StopViewerPlain ==
  ASSUME NEW p \in Plugins, NEW ts \in {{}, {"Quit"}}, p.viewer # "Normal"
  PROVE  Plain(p, StopViewer(p, ts))
<1>1. CASE p.V.state = "NULL"
  <2>1. StopViewer(p, ts) = [p EXCEPT !.crashed = TRUE]
    BY <1>1 DEF StopViewer
  <2> QED BY <1>1, <2>1, CrashPlain
<1>2. CASE p.V.state = "Sharing"
  <2>1. PICK end \in ViewerEnds :
           /\ [viewerQuit(p) EXCEPT !.viewer = "Quiting"] = [p EXCEPT !.V = end, !.viewer = "Quiting"]
           /\ end.state = "Quiting" /\ Kept("CreateRoom", p.V.queue, end.queue)
    BY <1>2, viewerQuitIs
  <2> DEFINE q == [p EXCEPT !.V = end, !.viewer = "Quiting"]
  <2>2. Plain(p, q)
    BY <1>2, <2>1, ViewerEndPlain
  <2>3. StopViewer(p, ts) = SetTimer(q, ts)
    <3>1. StopViewer(p, ts) = SetTimer([viewerQuit(p) EXCEPT !.viewer = "Quiting"], ts)
      BY <1>2 DEF StopViewer
    <3> QED BY <2>1, <3>1
  <2>5. q.V.state = "Quiting"
    BY <2>1 DEF Plugins
  <2> HIDE DEF q
  <2>6. q \in Plugins /\ ~Idle(q)
    BY <2>2, <2>5 DEF Plain, Idle, Resting
  <2>4. Plain(q, SetTimer(q, ts))
    BY <2>6, TimersPlain
  <2> QED BY <2>2, <2>3, <2>4, PlainTrans
<1>3. CASE p.V.state \notin {"NULL", "Sharing"}
  <2>1. StopViewer(p, ts) = [p EXCEPT !.viewer = "Normal", !.told = FALSE]
    BY <1>3 DEF StopViewer
  <2> QED BY <2>1, ViewerToldPlain
<1> QED BY <1>1, <1>2, <1>3

LEMMA EndedPlain ==
  ASSUME NEW p \in Plugins
  PROVE  Plain(p, Ended(p))
<1>1. ASSUME NEW q, Plain(p, q)
      PROVE  Plain(p, [q EXCEPT !.room = 0, !.told = FALSE])
  <2>1. q \in Plugins /\ 0 \in RoomIds
    BY <1>1 DEF Plain, RoomIds
  <2> QED BY <1>1, <2>1, RoomToldPlain, PlainTrans
<1>2. CASE p.server = "Quiting"
  <2> DEFINE q == uninitServer(p)
  <2>1. Plain(p, q) /\ q \in Plugins
    BY uninitServerPlain
  <2> HIDE DEF q
  <2>2. Plain(p, [q EXCEPT !.server = "Normal"])
    BY <2>1, ServerFieldPlain, PlainTrans
  <2>3. Ended(p) = [[q EXCEPT !.server = "Normal"] EXCEPT !.room = 0, !.told = FALSE]
    BY <1>2 DEF Ended, q
  <2> QED BY <1>1, <2>2, <2>3
<1>3. CASE p.server # "Quiting" /\ p.viewer = "Quiting"
  <2>1. CASE p.V.state = "NULL"
    <3> DEFINE q == [p EXCEPT !.crashed = TRUE]
    <3>1. Plain(p, q) /\ q \in Plugins
      BY <1>3, <2>1, CrashPlain DEF Plain
    <3> HIDE DEF q
    <3>2. Plain(p, [q EXCEPT !.viewer = "Normal"])
      BY <3>1, ViewerFieldPlain, PlainTrans
    <3>3. uninitViewer(p) = q
      BY <2>1 DEF uninitViewer, q
    <3>4. Ended(p) = [[q EXCEPT !.viewer = "Normal"] EXCEPT !.room = 0, !.told = FALSE]
      BY <1>3, <3>3 DEF Ended
    <3> QED BY <1>1, <3>2, <3>4
  <2>2. CASE p.V.state # "NULL"
    <3> DEFINE end == [p.V EXCEPT !.state = "UnInit", !.queue = << >>]
    <3>1. p.V \in ViewerEnds /\ << >> \in Seq(Requests) /\ "UnInit" \in ViewerStates
      BY DEF Plugins, ViewerStates
    <3>2. uninitViewer(p) = [p EXCEPT !.V = end]
      BY <2>2 DEF uninitViewer, Plugins, ViewerEnds
    <3>3. end \in ViewerEnds /\ Resting(end)
      BY <3>1 DEF ViewerEnds, Resting
    <3> HIDE DEF end
    <3>4. [uninitViewer(p) EXCEPT !.viewer = "Normal"] = [p EXCEPT !.V = end, !.viewer = "Normal"]
      BY <3>2 DEF Plugins
    <3>5. Plain(p, [uninitViewer(p) EXCEPT !.viewer = "Normal"])
      BY <3>3, <3>4, ViewerEndPlain
    <3> DEFINE q == [uninitViewer(p) EXCEPT !.viewer = "Normal"]
    <3>6. Ended(p) = [q EXCEPT !.room = 0, !.told = FALSE]
      BY <1>3 DEF Ended
    <3> HIDE DEF q
    <3>7. Plain(p, q)
      BY <3>5 DEF q
    <3> QED BY <1>1, <3>6, <3>7
  <2> QED BY <2>1, <2>2
<1>4. CASE p.server # "Quiting" /\ p.viewer # "Quiting"
  <2>1. Ended(p) = [p EXCEPT !.room = 0, !.told = FALSE]
    BY <1>4 DEF Ended
  <2> QED BY <1>1, <2>1, PlainSame
<1> QED BY <1>2, <1>3, <1>4

(* The stops: of the page, of the peer, of the timers. *)
LEMMA OnStopPlain ==
  ASSUME NEW p \in Plugins
  PROVE  Plain(p, OnStop(p))
<1> DEFINE q == CASE p.server = "Sharing" ->
                       IF p.S.state = "Sharing" THEN [serverQuit(p) EXCEPT !.server = "Quiting"] ELSE p
                  [] p.server # "Sharing" /\ p.viewer = "Sharing" ->
                       (CASE p.V.state = "NULL"    -> [p EXCEPT !.crashed = TRUE]
                          [] p.V.state = "Sharing" -> [viewerQuit(p) EXCEPT !.viewer = "Quiting"]
                          [] OTHER                 -> p)
                  [] OTHER -> p
<1>1. OnStop(p) = [q EXCEPT !.room = 0, !.told = (q.viewer = "Reqing" /\ q.told)]
  BY DEF OnStop
<1>2. Plain(p, q)
  <2>1. CASE p.server = "Sharing" /\ p.S.state = "Sharing"
    <3> DEFINE r == serverQuit(p)
    <3>1. Plain(p, r) /\ r \in Plugins
      BY <2>1, serverQuitPlain DEF Plain
    <3>2. q = [r EXCEPT !.server = "Quiting"]
      BY <2>1
    <3> HIDE DEF r, q
    <3>3. Plain(r, [r EXCEPT !.server = "Quiting"])
      BY <3>1, ServerFieldPlain
    <3> QED BY <3>1, <3>2, <3>3, PlainTrans
  <2>2. CASE p.server # "Sharing" /\ p.viewer = "Sharing" /\ p.V.state = "NULL"
    <3>1. q = [p EXCEPT !.crashed = TRUE]
      BY <2>2
    <3> HIDE DEF q
    <3> QED BY <2>2, <3>1, CrashPlain
  <2>3. CASE p.server # "Sharing" /\ p.viewer = "Sharing" /\ p.V.state = "Sharing"
    <3>1. q = [viewerQuit(p) EXCEPT !.viewer = "Quiting"]
      BY <2>3
    <3> HIDE DEF q
    <3>2. PICK end \in ViewerEnds :
             /\ [viewerQuit(p) EXCEPT !.viewer = "Quiting"] = [p EXCEPT !.V = end, !.viewer = "Quiting"]
             /\ end.state = "Quiting" /\ Kept("CreateRoom", p.V.queue, end.queue)
      BY <2>3, viewerQuitIs
    <3>3. Plain(p, [p EXCEPT !.V = end, !.viewer = "Quiting"])
      BY <2>3, <3>2, ViewerEndPlain
    <3> QED BY <3>1, <3>2, <3>3
  <2>4. CASE q = p
    <3> HIDE DEF q
    <3> QED BY <2>4, PlainSame
  <2>5. \/ p.server = "Sharing" /\ p.S.state = "Sharing"
        \/ p.server # "Sharing" /\ p.viewer = "Sharing" /\ p.V.state = "NULL"
        \/ p.server # "Sharing" /\ p.viewer = "Sharing" /\ p.V.state = "Sharing"
        \/ q = p
    OBVIOUS
  <2> QED BY <2>1, <2>2, <2>3, <2>4, <2>5
<1> HIDE DEF q
<1>3. q \in Plugins /\ 0 \in RoomIds /\ (q.viewer = "Reqing" /\ q.told) \in BOOLEAN
  BY <1>2 DEF Plain, RoomIds
<1>4. Plain(q, [q EXCEPT !.room = 0, !.told = (q.viewer = "Reqing" /\ q.told)])
  BY <1>3, RoomToldPlain
<1> QED BY <1>1, <1>2, <1>4, PlainTrans

LEMMA ResetPlain ==
  ASSUME NEW p \in Plugins
  PROVE  Plain(p, [uninitServer(p) EXCEPT !.server = "Normal", !.room = 0, !.told = FALSE])
<1> DEFINE q == uninitServer(p)
<1>1. Plain(p, q) /\ q \in Plugins /\ 0 \in RoomIds
  BY uninitServerPlain DEF RoomIds
<1> HIDE DEF q
<1>2. Plain(q, [q EXCEPT !.server = "Normal", !.room = 0, !.told = FALSE])
  BY <1>1, ServerRoomToldPlain
<1> QED BY <1>1, <1>2, PlainTrans DEF q

LEMMA JoinTimerPlain ==
  ASSUME NEW p \in Plugins
  PROVE  Plain(p, JoinTimer(p))
<1> DEFINE q == uninitServer(p)
           s == Send(q, "Failed", p.room)
           t == [s EXCEPT !.server = "Normal", !.room = 0, !.told = FALSE]
<1>1. Plain(p, q) /\ q \in Plugins /\ 0 \in RoomIds /\ p.room \in RoomIds
  BY uninitServerPlain DEF RoomIds, Plugins
<1>2. JoinTimer(p) = KillTimer(t, "Join")
  BY DEF JoinTimer
<1> HIDE DEF q
<1>3. Plain(q, s) /\ s \in Plugins
  BY <1>1, SendPlain DEF Plain
<1> HIDE DEF s
<1>4. Plain(s, t)
  BY <1>1, <1>3, ServerRoomToldPlain
<1> HIDE DEF t
<1>5. t \in Plugins
  BY <1>4 DEF Plain
<1>6. Plain(t, KillTimer(t, "Join"))
  BY <1>5, TimersPlain
<1> QED BY <1>1, <1>2, <1>3, <1>4, <1>6, PlainTrans

LEMMA QuitTimerPlain ==
  ASSUME NEW p \in Plugins
  PROVE  Plain(p, QuitTimer(p))
<1>1. Plain(p, Ended(p)) /\ Ended(p) \in Plugins
  BY EndedPlain DEF Plain
<1>2. Plain(Ended(p), KillTimer(Ended(p), "Quit"))
  BY <1>1, TimersPlain
<1> QED BY <1>1, <1>2, PlainTrans DEF QuitTimer

LEMMA PageStopPlain ==
  ASSUME NEW p \in Plugins, NEW s, NEW v,
         s = IF p.server = "Normal" THEN p
             ELSE Send(StopServer(p, {"Quit"}), "Stop", p.room),
         v = IF s.viewer = "Normal" THEN s
             ELSE Send(StopViewer(s, {"Quit"}), "Stop", s.room)
  PROVE  Plain(p, v)
<1>1. Plain(p, s) /\ s \in Plugins
  <2>1. CASE p.server = "Normal"
    BY <2>1, PlainSame
  <2>2. CASE p.server # "Normal"
    <3> DEFINE q == StopServer(p, {"Quit"})
    <3>1. Plain(p, q) /\ q \in Plugins /\ p.room \in RoomIds
      BY StopServerPlain DEF Plain, Plugins
    <3>2. s = Send(q, "Stop", p.room)
      BY <2>2
    <3> HIDE DEF q
    <3>3. Plain(q, Send(q, "Stop", p.room))
      BY <3>1, SendPlain
    <3> QED BY <3>1, <3>2, <3>3, PlainTrans DEF Plain
  <2> QED BY <2>1, <2>2
<1>2. Plain(s, v)
  <2>1. CASE s.viewer = "Normal"
    BY <1>1, <2>1, PlainSame
  <2>2. CASE s.viewer # "Normal"
    <3> DEFINE q == StopViewer(s, {"Quit"})
    <3>1. Plain(s, q) /\ q \in Plugins /\ s.room \in RoomIds
      BY <1>1, <2>2, StopViewerPlain DEF Plain, Plugins
    <3>2. v = Send(q, "Stop", s.room)
      BY <2>2
    <3> HIDE DEF q
    <3>3. Plain(q, Send(q, "Stop", s.room))
      BY <3>1, SendPlain
    <3> QED BY <3>1, <3>2, <3>3, PlainTrans
  <2> QED BY <2>1, <2>2
<1> QED BY <1>1, <1>2, PlainTrans

-----------------------------------------------------------------------------
(* What each action does to the plugin of its user, told in the fields that *)
(* the invariants speak of.                                                 *)

LEMMA RequestEffect ==
  ASSUME Typed, NEW u \in Users, RequestShareDesktop(u)
  PROVE  \E q \in Plugins :
           /\ plugin' = [plugin EXCEPT ![u] = q] /\ Leave({<<u, "V">>}) /\ breaks' = breaks
           /\ plugin[u].viewer = "Normal" /\ plugin[u].requests < MaxRequests
           /\ q.requests = plugin[u].requests + 1
           /\ q.posted = plugin[u].posted /\ q.sent = plugin[u].sent /\ q.S = plugin[u].S
           /\ q.asked = plugin[u].asked /\ q.crashed = plugin[u].crashed
           /\ \/ /\ q.viewer = "Reqing" /\ q.timers = plugin[u].timers \cup {"Create"}
                 /\ q.V.state = "RoomCreating" /\ q.V.queue = <<Note("CreateRoom", 0)>>
              \/ /\ q.viewer = plugin[u].viewer /\ q.timers = plugin[u].timers
                 /\ q.V.state = "NULL" /\ q.V.queue = << >>
<1> DEFINE o == plugin[u]
           p == [o EXCEPT !.requests = @ + 1]
           made == End("RoomCreating", 0, <<Note("CreateRoom", 0)>>)
           create == [p EXCEPT !.viewer = "Reqing", !.V = made]
<1>1. o \in Plugins /\ o.viewer = "Normal" /\ o.requests < MaxRequests
  BY DEF Typed, RequestShareDesktop
<1>2. PICK q \in {SetTimer(create, {"Create"}), deleteViewer(p)} :
        plugin' = [plugin EXCEPT ![u] = q]
  BY DEF RequestShareDesktop
<1>3. Leave({<<u, "V">>}) /\ breaks' = breaks
  BY DEF RequestShareDesktop
<1>4. /\ p \in Plugins /\ p.requests = o.requests + 1
      /\ p.posted = o.posted /\ p.sent = o.sent /\ p.S = o.S /\ p.asked = o.asked
      /\ p.crashed = o.crashed /\ p.viewer = o.viewer /\ p.timers = o.timers
  <2>1. o.requests + 1 \in 0 .. MaxRequests
    BY <1>1, SessionAssumption DEF Plugins
  <2> HIDE DEF o
  <2> QED BY <1>1, <2>1 DEF Plugins
<1> HIDE DEF p
<1>5. /\ made \in ViewerEnds /\ made.state = "RoomCreating"
      /\ made.queue = <<Note("CreateRoom", 0)>>
  <2>1. Note("CreateRoom", 0) \in Requests /\ 0 \in RoomIds
    BY NoteIs DEF Requests, RoomIds
  <2> QED BY <2>1 DEF End, ViewerEnds, ViewerStates
<1>6. /\ End("NULL", 0, << >>) \in ViewerEnds /\ End("NULL", 0, << >>).state = "NULL"
      /\ End("NULL", 0, << >>).queue = << >>
  BY DEF End, ViewerEnds, ViewerStates, RoomIds
<1> HIDE DEF made
<1>7. CASE q = SetTimer(create, {"Create"})
  <2>1. /\ create \in Plugins /\ create.requests = p.requests /\ create.posted = p.posted
        /\ create.sent = p.sent /\ create.S = p.S /\ create.asked = p.asked
        /\ create.crashed = p.crashed /\ create.viewer = "Reqing" /\ create.timers = p.timers
        /\ create.V = made
    BY <1>4, <1>5 DEF Plugins
  <2> HIDE DEF create
  <2>2. /\ q \in Plugins /\ q.requests = p.requests /\ q.posted = p.posted
        /\ q.sent = p.sent /\ q.S = p.S /\ q.asked = p.asked
        /\ q.crashed = p.crashed /\ q.viewer = "Reqing" /\ q.timers = p.timers \cup {"Create"}
        /\ q.V = made
    BY <1>7, <2>1 DEF SetTimer, Plugins
  <2> QED BY <1>1, <1>2, <1>3, <1>4, <1>5, <2>2
<1>8. CASE q = deleteViewer(p)
  <2>2. /\ q \in Plugins /\ q.requests = p.requests /\ q.posted = p.posted
        /\ q.sent = p.sent /\ q.S = p.S /\ q.asked = p.asked
        /\ q.crashed = p.crashed /\ q.viewer = p.viewer /\ q.timers = p.timers
        /\ q.V = End("NULL", 0, << >>)
    BY <1>4, <1>6, <1>8 DEF deleteViewer, Plugins
  <2> QED BY <1>1, <1>2, <1>3, <1>4, <1>6, <2>2
<1> QED BY <1>2, <1>7, <1>8

LEMMA EndIs ==
  ASSUME NEW end \in ServerEnds, NEW queue
  PROVE  /\ [end EXCEPT !.queue = queue] = [state |-> end.state, room |-> end.room, queue |-> queue]
         /\ end.room \in RoomIds /\ end.queue \in Seq(SharerRequests)
BY DEF ServerEnds

LEMMA AcceptEffect ==
  ASSUME Typed, NEW u \in Users, AcceptShareDesktop(u)
  PROVE  \E q \in Plugins :
           /\ Becomes(u, q) /\ plugin[u].asked /\ ~q.asked
           /\ q.posted = plugin[u].posted /\ q.requests = plugin[u].requests
           /\ q.viewer = plugin[u].viewer /\ q.V = plugin[u].V /\ q.crashed = plugin[u].crashed
           /\ "Create" \in q.timers => "Create" \in plugin[u].timers
           /\ "Quit" \in q.timers => "Quit" \in plugin[u].timers
           /\ q.S.state # "Sharing"
           /\ Resting(plugin[u].S) => Resting(q.S) \/ \E r \in RoomIds : q.S.queue = <<Note("JoinRoom", r)>>
           /\ Kept("Request", plugin[u].sent, q.sent)
           /\ Kept("Rejected", plugin[u].sent, q.sent)
<1> DEFINE o == plugin[u]
           p == [o EXCEPT !.asked = FALSE]
           fails == Send(p, "Failed", p.room)
           inits == {fails} \cup IF p.S.state = "UnInit" THEN {[p EXCEPT !.S.state = "Init"]} ELSE {}
           joinShareRoom(x) ==
             IF x.S.state \in {"Init", "Sharing"}
               THEN [Ask(x, "S", "JoinRoom", x.room) EXCEPT !.S.state = "Joining", !.S.room = x.room]
               ELSE x
<1>1. PICK x \in inits : Becomes(u, SetTimer(joinShareRoom(x), {"Join"}))
  BY DEF AcceptShareDesktop
<1>2. o \in Plugins /\ o.asked
  BY DEF Typed, AcceptShareDesktop
<1>3. /\ p \in Plugins /\ ~p.asked /\ p.posted = o.posted /\ p.requests = o.requests
      /\ p.viewer = o.viewer /\ p.V = o.V /\ p.crashed = o.crashed /\ p.timers = o.timers
      /\ p.sent = o.sent /\ p.S = o.S
  <2> HIDE DEF o
  <2> QED BY <1>2 DEF Plugins
<1> HIDE DEF p, o
<1>4. /\ x \in Plugins /\ ~x.asked /\ x.posted = o.posted /\ x.requests = o.requests
      /\ x.viewer = o.viewer /\ x.V = o.V /\ x.crashed = o.crashed /\ x.timers = o.timers
      /\ x.S = o.S \/ (x.S.state = "Init" /\ x.S.queue = o.S.queue)
      /\ Kept("Request", o.sent, x.sent) /\ Kept("Rejected", o.sent, x.sent)
  <2>1. CASE x = fails
    <3>1. Note("Failed", p.room) \in Commands /\ Note("Failed", p.room).type = "Failed"
      <4>1. p.room \in RoomIds
        BY <1>3 DEF Plugins
      <4> QED BY <4>1, NoteIs DEF Commands
    <3> DEFINE s == Append(p.sent, Note("Failed", p.room))
    <3>2. s \in Seq(Commands) /\ Kept("Request", p.sent, s) /\ Kept("Rejected", p.sent, s)
      BY <1>3, <3>1, AppendNote DEF Plugins
    <3>3. x = [p EXCEPT !.sent = s]
      BY <2>1 DEF Send
    <3> HIDE DEF s, fails
    <3> QED BY <1>3, <3>2, <3>3 DEF Plugins
  <2>2. CASE x = [p EXCEPT !.S.state = "Init"]
    <3> DEFINE end == [p.S EXCEPT !.state = "Init"]
    <3>1. end \in ServerEnds /\ end.state = "Init" /\ end.queue = p.S.queue
      BY <1>3 DEF Plugins, ServerEnds, ServerStates
    <3>2. x = [p EXCEPT !.S = end]
      BY <1>3, <2>2 DEF Plugins
    <3> HIDE DEF end
    <3>3. /\ x \in Plugins /\ x.S = end /\ x.asked = p.asked /\ x.posted = p.posted
          /\ x.requests = p.requests /\ x.viewer = p.viewer /\ x.V = p.V
          /\ x.crashed = p.crashed /\ x.timers = p.timers /\ x.sent = p.sent
      BY <1>3, <3>1, <3>2 DEF Plugins
    <3> QED BY <1>3, <3>1, <3>3, KeptSame
  <2> QED BY <1>1, <2>1, <2>2
<1> HIDE DEF inits, fails
<1> DEFINE y == joinShareRoom(x)
<1>5. /\ y \in Plugins /\ y.asked = x.asked /\ y.posted = x.posted /\ y.requests = x.requests
      /\ y.viewer = x.viewer /\ y.V = x.V /\ y.crashed = x.crashed /\ y.timers = x.timers
      /\ y.sent = x.sent /\ y.S.state # "Sharing"
      /\ \/ y.S = x.S /\ x.S.state # "Init"
         \/ \E r \in RoomIds : y.S.queue = Append(x.S.queue, Note("JoinRoom", r))
  <2>1. CASE x.S.state \in {"Init", "Sharing"}
    <3> DEFINE queue == Append(x.S.queue, Note("JoinRoom", x.room))
               asking == [x.S EXCEPT !.queue = queue]
               end == [state |-> "Joining", room |-> x.room, queue |-> queue]
               r == [x EXCEPT !.S = asking]
    <3>1. x.S \in ServerEnds /\ x.room \in RoomIds /\ x.S.queue \in Seq(SharerRequests)
      BY <1>4 DEF Plugins, ServerEnds
    <3>2. queue \in Seq(SharerRequests)
      BY <3>1, NoteIs, AppendNote DEF SharerRequests
    <3>3. end \in ServerEnds /\ end.state = "Joining" /\ end.queue = queue
      BY <3>1, <3>2 DEF ServerEnds, ServerStates
    <3>4. asking = [state |-> x.S.state, room |-> x.S.room, queue |-> queue]
      BY <3>1, EndIs
    <3>5. Ask(x, "S", "JoinRoom", x.room) = r
      BY <1>4 DEF Ask, Plugins
    <3> HIDE DEF asking, queue
    <3>6. r.S = asking
      BY <1>4 DEF Plugins
    <3>7. y = [r EXCEPT !.S = [asking EXCEPT !.state = "Joining", !.room = x.room]]
      BY <2>1, <3>5, <3>6
    <3>8. [asking EXCEPT !.state = "Joining", !.room = x.room] = end
      <4> DEFINE z == [state |-> "Joining", room |-> x.S.room, queue |-> queue]
      <4>1. [asking EXCEPT !.state = "Joining"] = z
        BY <3>4
      <4>2. [z EXCEPT !.room = x.room] = end
        OBVIOUS
      <4> HIDE DEF z, end
      <4> QED BY <4>1, <4>2
    <3> HIDE DEF end, y
    <3>9. y = [x EXCEPT !.S = end]
      BY <1>4, <3>7, <3>8 DEF Plugins
    <3>10. \E id \in RoomIds : end.queue = Append(x.S.queue, Note("JoinRoom", id))
      BY <3>1, <3>3 DEF queue
    <3> QED BY <1>4, <3>3, <3>9, <3>10 DEF Plugins
  <2>2. CASE x.S.state \notin {"Init", "Sharing"}
    BY <1>4, <2>2
  <2> QED BY <2>1, <2>2
<1> HIDE DEF joinShareRoom, y
<1> DEFINE q == SetTimer(y, {"Join"})
<1>6. /\ q \in Plugins /\ q.asked = x.asked /\ q.posted = x.posted /\ q.requests = x.requests
      /\ q.viewer = x.viewer /\ q.V = x.V /\ q.crashed = x.crashed
      /\ q.timers = x.timers \cup {"Join"} /\ q.sent = x.sent /\ q.S = y.S
  BY <1>5 DEF SetTimer, Plugins
<1>7. Becomes(u, q)
  BY <1>1 DEF y
<1> HIDE DEF q
<1>8. ASSUME Resting(o.S)
      PROVE  Resting(q.S) \/ \E r \in RoomIds : q.S.queue = <<Note("JoinRoom", r)>>
  <2>1. x.S.queue = << >>
    BY <1>4, <1>8 DEF Resting
  <2>2. ASSUME NEW r PROVE Append(<< >>, Note("JoinRoom", r)) = <<Note("JoinRoom", r)>>
    OBVIOUS
  <2> QED BY <1>4, <1>5, <1>6, <1>8, <2>1, <2>2
<1> QED BY <1>2, <1>4, <1>5, <1>6, <1>7, <1>8 DEF o

LEMMA RejectEffect ==
  ASSUME Typed, NEW u \in Users, mediaTerminalRejectShareDesktop(u)
  PROVE  \E q \in Plugins, r \in RoomIds :
           /\ Becomes(u, q) /\ plugin[u].asked /\ ~q.asked
           /\ q.posted = plugin[u].posted /\ q.requests = plugin[u].requests
           /\ q.viewer = plugin[u].viewer /\ q.V = plugin[u].V /\ q.crashed = plugin[u].crashed
           /\ q.timers = plugin[u].timers /\ q.S = plugin[u].S
           /\ q.sent = Append(plugin[u].sent, Note("Rejected", r))
<1> DEFINE o == plugin[u]
           p == [o EXCEPT !.asked = FALSE, !.server = "Normal"]
           q == Send(p, "Rejected", p.room)
<1>1. o \in Plugins /\ o.asked /\ Becomes(u, q)
  BY DEF Typed, mediaTerminalRejectShareDesktop
<1>2. /\ p \in Plugins /\ ~p.asked /\ p.posted = o.posted /\ p.requests = o.requests
      /\ p.viewer = o.viewer /\ p.V = o.V /\ p.crashed = o.crashed /\ p.timers = o.timers
      /\ p.sent = o.sent /\ p.S = o.S
  <2> HIDE DEF o
  <2> QED BY <1>1 DEF Plugins
<1> HIDE DEF p, o
<1>3. /\ Append(p.sent, Note("Rejected", p.room)) \in Seq(Commands) /\ p.room \in RoomIds
  BY <1>2, NoteIs, AppendNote DEF Commands, Plugins
<1>4. /\ q \in Plugins /\ ~q.asked /\ q.posted = p.posted /\ q.requests = p.requests
      /\ q.viewer = p.viewer /\ q.V = p.V /\ q.crashed = p.crashed /\ q.timers = p.timers
      /\ q.sent = Append(p.sent, Note("Rejected", p.room)) /\ q.S = p.S
  BY <1>2, <1>3 DEF Send, Plugins
<1> QED BY <1>1, <1>2, <1>3, <1>4 DEF o

LEMMA StopEffect ==
  ASSUME Typed, NEW u \in Users, StopShareDesktop(u)
  PROVE  \E q \in Plugins : Becomes(u, q) /\ Plain(plugin[u], q)
<1> DEFINE p == plugin[u]
           s == IF p.server = "Normal" THEN p
                ELSE Send(StopServer(p, {"Quit"}), "Stop", p.room)
           v == IF s.viewer = "Normal" THEN s
                ELSE Send(StopViewer(s, {"Quit"}), "Stop", s.room)
<1>1. p \in Plugins /\ Becomes(u, v)
  BY DEF Typed, StopShareDesktop
<1>2. Plain(p, v)
  BY <1>1, PageStopPlain
<1>3. v \in Plugins
  BY <1>2 DEF Plain
<1> HIDE DEF v, s
<1> QED BY <1>1, <1>2, <1>3

LEMMA deleteViewerIs ==
  ASSUME NEW p \in Plugins, NEW q,
         q = [deleteViewer(p) EXCEPT !.viewer = "Normal", !.room = 0]
  PROVE  /\ q \in Plugins /\ q.V.state = "NULL" /\ q.V.queue = << >> /\ q.viewer = "Normal"
         /\ q.posted = p.posted /\ q.sent = p.sent /\ q.asked = p.asked
         /\ q.requests = p.requests /\ q.crashed = p.crashed /\ q.S = p.S
         /\ q.timers = p.timers
<1> DEFINE end == End("NULL", 0, << >>)
<1>1. end \in ViewerEnds /\ end.state = "NULL" /\ end.queue = << >> /\ 0 \in RoomIds
  BY DEF End, ViewerEnds, ViewerStates, RoomIds
<1>2. q = [[p EXCEPT !.V = end] EXCEPT !.viewer = "Normal", !.room = 0]
  BY DEF deleteViewer
<1> HIDE DEF end
<1> QED BY <1>1, <1>2 DEF Plugins

LEMMA TimerEffect ==
  ASSUME Typed, NEW u \in Users, OnTimer(u)
  PROVE  \E q \in Plugins :
           /\ Becomes(u, q) /\ plugin[u].posted = << >>
           /\ \/ Plain(plugin[u], q)
              \/ /\ q.V.state = "NULL" /\ q.V.queue = << >> /\ q.viewer = "Normal"
                 /\ "Create" \in plugin[u].timers /\ "Create" \notin q.timers
                 /\ "Join" \in q.timers => "Join" \in plugin[u].timers
                 /\ q.posted = plugin[u].posted /\ q.sent = plugin[u].sent
                 /\ q.asked = plugin[u].asked /\ q.requests = plugin[u].requests
                 /\ q.crashed = plugin[u].crashed /\ q.S = plugin[u].S
<1> DEFINE p == plugin[u]
<1>1. p \in Plugins /\ p.posted = << >>
  BY DEF Typed, OnTimer
<1>2. CASE "Join" \in p.timers /\ Becomes(u, JoinTimer(p))
  BY <1>1, <1>2, JoinTimerPlain DEF Plain
<1>3. CASE "Quit" \in p.timers /\ Becomes(u, QuitTimer(p))
  BY <1>1, <1>3, QuitTimerPlain DEF Plain
<1>4. CASE "Create" \in p.timers /\ Becomes(u, CreateTimer(p))
  <2> DEFINE d == [deleteViewer(p) EXCEPT !.viewer = "Normal", !.room = 0]
             q == CreateTimer(p)
  <2>1. q = KillTimer(d, "Create")
    BY DEF CreateTimer
  <2>2. /\ d \in Plugins /\ d.V.state = "NULL" /\ d.V.queue = << >> /\ d.viewer = "Normal"
        /\ d.posted = p.posted /\ d.sent = p.sent /\ d.asked = p.asked
        /\ d.requests = p.requests /\ d.crashed = p.crashed /\ d.S = p.S /\ d.timers = p.timers
    BY <1>1, deleteViewerIs
  <2> HIDE DEF d, q
  <2>3. /\ q \in Plugins /\ q.V = d.V /\ q.viewer = d.viewer /\ q.posted = d.posted
        /\ q.sent = d.sent /\ q.asked = d.asked /\ q.requests = d.requests
        /\ q.crashed = d.crashed /\ q.S = d.S /\ q.timers = d.timers \ {"Create"}
    BY <2>1, <2>2 DEF KillTimer, Plugins
  <2> HIDE DEF q
  <2> QED BY <1>1, <1>4, <2>2, <2>3 DEF q
<1> QED BY <1>2, <1>3, <1>4 DEF OnTimer

LEMMA uninitViewerIs ==
  ASSUME NEW p \in Plugins, NEW q,
         q = [uninitViewer(p) EXCEPT !.viewer = "Normal", !.room = 0]
  PROVE  /\ q \in Plugins /\ q.posted = p.posted /\ q.timers = p.timers /\ q.S = p.S
         /\ p.V.state # "NULL" => Plain(p, q)
<1>1. CASE p.V.state = "NULL"
  <2>1. q = [[p EXCEPT !.crashed = TRUE] EXCEPT !.viewer = "Normal", !.room = 0]
    BY <1>1 DEF uninitViewer
  <2>2. 0 \in RoomIds
    BY DEF RoomIds
  <2> QED BY <1>1, <2>1, <2>2 DEF Plugins
<1>2. CASE p.V.state # "NULL"
  <2> DEFINE end == [p.V EXCEPT !.state = "UnInit", !.queue = << >>]
             r == [p EXCEPT !.V = end, !.viewer = "Normal"]
  <2>1. p.V \in ViewerEnds /\ << >> \in Seq(Requests) /\ "UnInit" \in ViewerStates
    BY DEF Plugins, ViewerStates
  <2>2. uninitViewer(p) = [p EXCEPT !.V = end]
    BY <1>2 DEF uninitViewer, Plugins, ViewerEnds
  <2>3. end \in ViewerEnds /\ Resting(end)
    BY <2>1 DEF ViewerEnds, Resting
  <2> HIDE DEF end
  <2>4. q = [r EXCEPT !.room = 0]
    BY <2>2 DEF Plugins
  <2>5. Plain(p, r)
    BY <2>3, ViewerEndPlain
  <2>6. /\ r \in Plugins /\ r.posted = p.posted /\ r.timers = p.timers /\ r.S = p.S
    BY <2>3 DEF Plugins
  <2> HIDE DEF r
  <2>7. /\ q \in Plugins /\ q.posted = r.posted /\ q.timers = r.timers /\ q.S = r.S /\ q.V = r.V
        /\ q.asked = r.asked /\ q.requests = r.requests /\ q.sent = r.sent
        /\ q.crashed = r.crashed /\ q.viewer = r.viewer
    BY <2>4, <2>6 DEF Plugins, RoomIds
  <2>8. Plain(r, q)
    BY <2>6, <2>7, FieldsPlain
  <2> QED BY <2>5, <2>6, <2>7, <2>8, PlainTrans
<1> QED BY <1>1, <1>2

(* The callback at the head has been taken. *)
Popped(p) == [p EXCEPT !.posted = Tail(@)]

LEMMA PoppedIs ==
  ASSUME NEW p \in Plugins, p.posted # << >>
  PROVE  /\ Popped(p) \in Plugins /\ Popped(p).posted = Tail(p.posted)
         /\ Popped(p).sent = p.sent /\ Popped(p).S = p.S /\ Popped(p).V = p.V
         /\ Popped(p).asked = p.asked /\ Popped(p).requests = p.requests
         /\ Popped(p).viewer = p.viewer /\ Popped(p).crashed = p.crashed
         /\ Popped(p).timers = p.timers
         /\ Head(p.posted) \in Callbacks
<1>1. Tail(p.posted) \in Seq(Callbacks) /\ Head(p.posted) \in Callbacks
  BY TakeNote DEF Plugins
<1> QED BY <1>1 DEF Popped, Plugins

LEMMA CallbackEffect ==
  ASSUME Typed, NEW u \in Users, onVncViewerCallBack(u)
  PROVE  \E q \in Plugins : LET p == plugin[u]
                                msg == Head(plugin[u].posted) IN
           /\ Becomes(u, q) /\ p.posted # << >> /\ q.posted = Tail(p.posted)
           /\ \/ /\ msg.type = "CreateRoom"
                 /\ q.S = p.S /\ q.timers = p.timers
                 /\ p.V.state # "NULL" => Plain(Popped(p), q)
              \/ /\ msg.type \in {"CreateRoom", "JoinRoom"}
                 /\ q.S = p.S /\ q.V = p.V /\ q.asked = p.asked /\ q.requests = p.requests
                 /\ q.viewer = p.viewer /\ q.crashed = p.crashed
                 /\ q.timers = p.timers \ {IF msg.type = "JoinRoom" THEN "Join" ELSE "Create"}
                 /\ \E r \in RoomIds :
                      q.sent = Append(p.sent, Note(IF msg.type = "JoinRoom" THEN "Accepted"
                                                                            ELSE "Request", r))
              \/ msg.type \in {"RoomClosed", "QuitRoom"} /\ Plain(Popped(p), q)
<1> DEFINE o == plugin[u]
           p == Popped(o)
           msg == Head(plugin[u].posted)
           q == CASE msg.type = "CreateRoom" /\ msg.room = 0 ->
                       [uninitViewer(p) EXCEPT !.viewer = "Normal", !.room = 0]
                  [] msg.type = "CreateRoom" /\ msg.room # 0 ->
                       Send(KillTimer([p EXCEPT !.room = msg.room], "Create"), "Request", msg.room)
                  [] msg.type = "RoomClosed" ->
                       [uninitServer(p) EXCEPT !.server = "Normal", !.room = 0, !.told = FALSE]
                  [] msg.type = "JoinRoom" -> OnJoined(p)
                  [] msg.type = "QuitRoom" -> KillTimer(Ended(p), "Quit")
<1>1. o \in Plugins /\ o.posted # << >> /\ Becomes(u, q)
  BY DEF Typed, onVncViewerCallBack, Popped
<1>2. /\ p \in Plugins /\ p.posted = Tail(o.posted) /\ p.sent = o.sent /\ p.S = o.S /\ p.V = o.V
      /\ p.asked = o.asked /\ p.requests = o.requests
      /\ p.viewer = o.viewer /\ p.crashed = o.crashed /\ p.timers = o.timers
  BY <1>1, PoppedIs
<1>3. /\ msg.type \in {"CreateRoom", "JoinRoom", "QuitRoom", "RoomClosed"}
      /\ msg.room \in RoomIds
  BY <1>1, PoppedIs DEF Callbacks, Notes, RoomIds
<1>4. CASE msg.type = "CreateRoom" /\ msg.room = 0
  <2>1. q = [uninitViewer(p) EXCEPT !.viewer = "Normal", !.room = 0]
    BY <1>4
  <2> HIDE DEF q, p
  <2>2. /\ q \in Plugins /\ q.posted = p.posted /\ q.timers = p.timers /\ q.S = p.S
        /\ p.V.state # "NULL" => Plain(p, q)
    BY <1>2, <2>1, uninitViewerIs
  <2> QED BY <1>1, <1>2, <1>4, <2>2 DEF p
<1>5. CASE msg.type = "CreateRoom" /\ msg.room # 0
  <2> DEFINE r == [p EXCEPT !.room = msg.room]
             s == Append(p.sent, Note("Request", msg.room))
  <2>1. q = Send(KillTimer(r, "Create"), "Request", msg.room)
    BY <1>5
  <2> HIDE DEF q, p, msg
  <2>2. s \in Seq(Commands)
    BY <1>2, <1>3, NoteIs, AppendNote DEF Plugins, Commands
  <2>3. q = [[r EXCEPT !.timers = r.timers \ {"Create"}] EXCEPT !.sent = s]
    BY <1>2, <2>1 DEF Send, KillTimer, Plugins
  <2> HIDE DEF s
  <2>4. /\ q \in Plugins /\ q.posted = p.posted /\ q.sent = s /\ q.S = p.S /\ q.V = p.V
        /\ q.asked = p.asked /\ q.requests = p.requests
        /\ q.viewer = p.viewer /\ q.crashed = p.crashed /\ q.timers = p.timers \ {"Create"}
    BY <1>2, <1>3, <2>2, <2>3 DEF Plugins
  <2> QED BY <1>1, <1>2, <1>3, <1>5, <2>4 DEF s, msg
<1>6. CASE msg.type = "JoinRoom"
  <2> DEFINE r == [p EXCEPT !.server = "Sharing", !.told = TRUE]
             s == Append(p.sent, Note("Accepted", p.room))
  <2>1. q = OnJoined(p)
    BY <1>6
  <2> HIDE DEF q, p, msg
  <2>2. s \in Seq(Commands) /\ p.room \in RoomIds
    BY <1>2, NoteIs, AppendNote DEF Plugins, Commands
  <2>3. q = [[r EXCEPT !.timers = r.timers \ {"Join"}] EXCEPT !.sent = s]
    BY <1>2, <2>1 DEF OnJoined, Send, KillTimer, Plugins
  <2> HIDE DEF s
  <2>4. /\ q \in Plugins /\ q.posted = p.posted /\ q.sent = s /\ q.S = p.S /\ q.V = p.V
        /\ q.asked = p.asked /\ q.requests = p.requests
        /\ q.viewer = p.viewer /\ q.crashed = p.crashed /\ q.timers = p.timers \ {"Join"}
    BY <1>2, <2>2, <2>3 DEF Plugins
  <2> QED BY <1>1, <1>2, <1>6, <2>2, <2>4 DEF s, msg
<1>7. CASE msg.type = "RoomClosed"
  <2>1. q = [uninitServer(p) EXCEPT !.server = "Normal", !.room = 0, !.told = FALSE]
    BY <1>7
  <2> HIDE DEF q
  <2>2. Plain(p, q)
    BY <1>2, <2>1, ResetPlain
  <2> HIDE DEF p
  <2>3. q \in Plugins /\ q.posted = p.posted
    BY <2>2 DEF Plain
  <2> QED BY <1>1, <1>2, <1>7, <2>2, <2>3 DEF p
<1>8. CASE msg.type = "QuitRoom"
  <2>1. q = QuitTimer(p)
    BY <1>8 DEF QuitTimer
  <2> HIDE DEF q
  <2>2. Plain(p, q)
    BY <1>2, <2>1, QuitTimerPlain
  <2> HIDE DEF p
  <2>3. q \in Plugins /\ q.posted = p.posted
    BY <2>2 DEF Plain
  <2> QED BY <1>1, <1>2, <1>8, <2>2, <2>3 DEF p
<1> HIDE DEF q, p
<1> QED BY <1>3, <1>4, <1>5, <1>6, <1>7, <1>8

(* A step that moves no token of a request (the rest of what it may do is   *)
(* in Plain), and the condition under which no timer ends a share.          *)
Calm(p, q) ==
  /\ q.requests = p.requests
  /\ q.asked => p.asked
  /\ "Create" \in q.timers => "Create" \in p.timers
  /\ q.V.state = "NULL" => p.V.state = "NULL"
  /\ Sound(p) => Sound(q)
  /\ Kept("CreateRoom", p.V.queue, q.V.queue) /\ Kept("CreateRoom", p.posted, q.posted)
  /\ Kept("Request", p.sent, q.sent) /\ Kept("Rejected", p.sent, q.sent)

Timely(p) == p.S.state = "Sharing" /\ "Join" \in p.timers => ~Without("JoinRoom", p.posted)

LEMMA PlainIsCalm ==
  ASSUME NEW p, NEW q, Plain(p, q)
  PROVE  Calm(p, q) /\ (Timely(p) => Timely(q))
BY KeptSame DEF Plain, Calm, Timely

LEMMA PeerIs ==
  ASSUME NEW u \in Users
  PROVE  Peer(u) \in Users /\ Peer(u) # u /\ Users = {u, Peer(u)} /\ Peer(Peer(u)) = u
BY DEF Users, Peer

LEMMA CmdEffect ==
  ASSUME Typed, NEW u \in Users, handleVncCmd(u)
  PROVE  \E q \in Plugins, r \in Plugins :
           LET p == plugin[u]
               o == plugin[Peer(u)]
               cmd == Head(plugin[Peer(u)].sent) IN
           /\ plugin' \in [Users -> Plugins] /\ plugin'[u] = q /\ plugin'[Peer(u)] = r
           /\ Leave(Gone(u, q)) /\ breaks' = breaks
           /\ o.sent # << >> /\ r.sent = Tail(o.sent)
           /\ r.posted = o.posted /\ r.S = o.S /\ r.V = o.V /\ r.asked = o.asked
           /\ r.requests = o.requests /\ r.viewer = o.viewer /\ r.crashed = o.crashed
           /\ r.timers = o.timers
           /\ \/ cmd.type \in {"Stop", "Failed"} /\ Plain(p, q)
              \/ /\ cmd.type \in {"Request", "Accepted"}
                 /\ cmd.type = "Accepted" => q.asked = p.asked
                 /\ q.posted = p.posted /\ q.S = p.S /\ q.V = p.V /\ q.timers = p.timers
                 /\ q.requests = p.requests /\ q.crashed = p.crashed /\ q.sent = p.sent
                 /\ q.viewer = IF cmd.type = "Accepted" THEN "Sharing" ELSE p.viewer
              \/ /\ cmd.type = "Rejected"
                 /\ q.V.state = "NULL" /\ q.V.queue = << >> /\ q.viewer = "Normal"
                 /\ q.posted = p.posted /\ q.sent = p.sent /\ q.asked = p.asked
                 /\ q.requests = p.requests /\ q.crashed = p.crashed /\ q.S = p.S
                 /\ q.timers = p.timers
<1> DEFINE w == Peer(u)
           p == plugin[u]
           o == plugin[w]
           cmd == Head(o.sent)
           q == CASE cmd.type = "Stop"     -> OnStop(p)
                  [] cmd.type = "Request"  -> [p EXCEPT !.room = cmd.room, !.server = "RecvReqing",
                                                        !.asked = TRUE]
                  [] cmd.type = "Accepted" -> [p EXCEPT !.viewer = "Sharing"]
                  [] cmd.type = "Rejected" -> [deleteViewer(p) EXCEPT !.viewer = "Normal", !.room = 0]
                  [] cmd.type = "Failed"   -> p
           r == [o EXCEPT !.sent = Tail(o.sent)]
<1>1. /\ plugin \in [Users -> Plugins] /\ p \in Plugins /\ o \in Plugins
      /\ w \in Users /\ w # u /\ Users = {u, w}
  BY PeerIs DEF Typed
<1>2. o.sent # << >> /\ Leave(Gone(u, q)) /\ breaks' = breaks
  BY DEF handleVncCmd
<1>3. plugin' = [plugin EXCEPT ![u] = q, ![w].sent = Tail(@)]
  BY DEF handleVncCmd
<1> HIDE DEF q
<1>4. plugin'[u] = q /\ plugin'[w] = r
  BY <1>1, <1>3
<1>5. Tail(o.sent) \in Seq(Commands) /\ cmd \in Commands
  BY <1>1, <1>2, TakeNote DEF Plugins
<1>6. /\ r \in Plugins /\ r.sent = Tail(o.sent)
      /\ r.posted = o.posted /\ r.S = o.S /\ r.V = o.V /\ r.asked = o.asked
      /\ r.requests = o.requests /\ r.viewer = o.viewer /\ r.crashed = o.crashed
      /\ r.timers = o.timers
  <2> HIDE DEF o
  <2> QED BY <1>1, <1>5 DEF Plugins
<1>7. cmd.type \in {"Request", "Stop", "Accepted", "Rejected", "Failed"} /\ cmd.room \in RoomIds
  BY <1>5 DEF Commands, Notes, RoomIds
<1> HIDE DEF r, cmd, p
<1>8. /\ q \in Plugins
      /\ \/ cmd.type \in {"Stop", "Failed"} /\ Plain(p, q)
         \/ /\ cmd.type \in {"Request", "Accepted"}
            /\ cmd.type = "Accepted" => q.asked = p.asked
            /\ q.posted = p.posted /\ q.S = p.S /\ q.V = p.V /\ q.timers = p.timers
            /\ q.requests = p.requests /\ q.crashed = p.crashed /\ q.sent = p.sent
            /\ q.viewer = IF cmd.type = "Accepted" THEN "Sharing" ELSE p.viewer
         \/ /\ cmd.type = "Rejected"
            /\ q.V.state = "NULL" /\ q.V.queue = << >> /\ q.viewer = "Normal"
            /\ q.posted = p.posted /\ q.sent = p.sent /\ q.asked = p.asked
            /\ q.requests = p.requests /\ q.crashed = p.crashed /\ q.S = p.S
            /\ q.timers = p.timers
  <2>1. CASE cmd.type = "Stop"
    <3>1. q = OnStop(p)
      BY <2>1 DEF q
    <3> QED BY <1>1, <2>1, <3>1, OnStopPlain DEF Plain
  <2>2. CASE cmd.type = "Failed"
    <3>1. q = p
      BY <2>2 DEF q
    <3> QED BY <1>1, <2>2, <3>1, PlainSame
  <2>3. CASE cmd.type = "Request"
    <3>1. q = [p EXCEPT !.room = cmd.room, !.server = "RecvReqing", !.asked = TRUE]
      BY <2>3 DEF q
    <3> QED BY <1>1, <1>7, <2>3, <3>1 DEF Plugins
  <2>4. CASE cmd.type = "Accepted"
    <3>1. q = [p EXCEPT !.viewer = "Sharing"]
      BY <2>4 DEF q
    <3> QED BY <1>1, <2>4, <3>1 DEF Plugins
  <2>5. CASE cmd.type = "Rejected"
    <3>1. q = [deleteViewer(p) EXCEPT !.viewer = "Normal", !.room = 0]
      BY <2>5 DEF q
    <3> QED BY <1>1, <2>5, <3>1, deleteViewerIs
  <2> QED BY <1>7, <2>1, <2>2, <2>3, <2>4, <2>5
<1>9. plugin' \in [Users -> Plugins]
  <2>1. plugin' \in [Users -> {q, r}]
    BY <1>1, <1>3, <1>4
  <2> QED BY <1>6, <1>8, <2>1
<1> QED BY <1>2, <1>4, <1>6, <1>8, <1>9 DEF cmd, p

LEMMA PostIs ==
  ASSUME NEW p \in Plugins, NEW t \in {"CreateRoom", "JoinRoom", "QuitRoom", "RoomClosed"},
         NEW r \in RoomIds
  PROVE  LET q == Post(p, t, r) IN
         /\ q \in Plugins /\ q.sent = p.sent /\ q.asked = p.asked /\ q.requests = p.requests
         /\ q.S = p.S /\ q.V = p.V /\ q.viewer = p.viewer /\ q.crashed = p.crashed
         /\ q.timers = p.timers /\ q.posted = Append(p.posted, Note(t, r))
         /\ t # "CreateRoom" => Kept("CreateRoom", p.posted, q.posted)
         /\ t # "JoinRoom" => Kept("JoinRoom", p.posted, q.posted)
         /\ Without("CreateRoom", p.posted) => AtMostOne("CreateRoom", q.posted)
         /\ t = "JoinRoom" \/ ~Without("JoinRoom", p.posted) => ~Without("JoinRoom", q.posted)
<1> DEFINE q == Post(p, t, r)
           n == Note(t, r)
           s == Append(p.posted, n)
<1>1. n \in Callbacks /\ n.type = t /\ p.posted \in Seq(Callbacks)
  BY NoteIs DEF Callbacks, Plugins
<1>2. q = [p EXCEPT !.posted = s]
  BY DEF Post
<1> HIDE DEF n
<1>3. /\ s \in Seq(Callbacks)
      /\ t # "CreateRoom" => Kept("CreateRoom", p.posted, s)
      /\ t # "JoinRoom" => Kept("JoinRoom", p.posted, s)
      /\ Without("CreateRoom", p.posted) => AtMostOne("CreateRoom", s)
      /\ t = "JoinRoom" \/ ~Without("JoinRoom", p.posted) => ~Without("JoinRoom", s)
  BY <1>1, AppendNote
<1> HIDE DEF s, q
<1>4. /\ q \in Plugins /\ q.sent = p.sent /\ q.asked = p.asked /\ q.requests = p.requests
      /\ q.S = p.S /\ q.V = p.V /\ q.viewer = p.viewer /\ q.crashed = p.crashed
      /\ q.timers = p.timers /\ q.posted = s
  BY <1>2, <1>3 DEF Plugins
<1> QED BY <1>3, <1>4 DEF s, n, q

(* q is p with a note of type t more among what is posted, as far as the proofs   *)
(* count notes.                                                                   *)
Posted(p, t, q) ==
  /\ q \in Plugins /\ q.sent = p.sent /\ q.asked = p.asked /\ q.requests = p.requests
  /\ q.S = p.S /\ q.V = p.V /\ q.viewer = p.viewer /\ q.crashed = p.crashed
  /\ q.timers = p.timers
  /\ t # "CreateRoom" => Kept("CreateRoom", p.posted, q.posted)
  /\ Without("CreateRoom", p.posted) => AtMostOne("CreateRoom", q.posted)
  /\ t = "JoinRoom" \/ ~Without("JoinRoom", p.posted) => ~Without("JoinRoom", q.posted)

LEMMA PostKeeps ==
  ASSUME NEW p \in Plugins, NEW t \in {"CreateRoom", "JoinRoom", "QuitRoom", "RoomClosed"},
         NEW r \in RoomIds
  PROVE  Posted(p, t, Post(p, t, r))
BY PostIs DEF Posted

LEMMA ServerEffect ==
  ASSUME Typed, NEW u \in Users, ServerHandles(u)
  PROVE  \E q \in Plugins :
           /\ plugin' = [plugin EXCEPT ![u] = q]
           /\ inbox[<<u, "S">>] # << >>
           /\ inbox' = [inbox EXCEPT ![<<u, "S">>] = Tail(@)]
           /\ UNCHANGED <<members, used, breaks>>
           /\ Calm(plugin[u], q) /\ (Timely(plugin[u]) => Timely(q))
           /\ Resting(plugin[u].V) => Resting(q.V)
<1> DEFINE e == <<u, "S">>
           p == plugin[u]
           m == Head(inbox[<<u, "S">>])
           post(state, room, type) == Post([p EXCEPT !.S.state = state, !.S.room = room], type, p.S.room)
           q == CASE m.type = "Joined"     -> IF p.S.state = "Sharing" THEN p
                                              ELSE post("Sharing", p.S.room, "JoinRoom")
                  [] m.type = "JoinFailed" -> post("Init", p.S.room, "JoinRoom")
                  [] m.type = "Quit"       -> post("Init", 0, "QuitRoom")
                  [] m.type = "RoomClosed" -> post("Init", 0, "RoomClosed")
                  [] m.type = "ExitRoom"   -> IF p.S.room = 0 \/ p.server = "Normal" THEN p
                                              ELSE StopServer(p, {})
<1>1. /\ plugin' = [plugin EXCEPT ![u] = q] /\ inbox[e] # << >>
      /\ inbox' = [inbox EXCEPT ![e] = Tail(@)] /\ UNCHANGED <<members, used, breaks>>
  BY DEF ServerHandles
<1>2. p \in Plugins /\ inbox[e] \in Seq(SharerAnswers)
  BY DEF Typed
<1>3. m.type \in {"Joined", "JoinFailed", "Quit", "ExitRoom", "RoomClosed"}
  <2>1. m \in SharerAnswers
    BY <1>1, <1>2, TakeNote
  <2> HIDE DEF m, q
  <2> QED BY <2>1 DEF SharerAnswers, Notes
<1> HIDE DEF p, m
<1> DEFINE Fine(x) == /\ x \in Plugins /\ Calm(p, x) /\ (Timely(p) => Timely(x))
                      /\ Resting(p.V) => Resting(x.V)
<1>4. ASSUME NEW state \in {"Init", "Sharing"}, NEW room \in RoomIds,
             NEW type \in {"JoinRoom", "QuitRoom", "RoomClosed"},
             state = "Sharing" => type = "JoinRoom"
      PROVE  Fine(post(state, room, type))
  <2> DEFINE end == [p.S EXCEPT !.state = state, !.room = room]
             r == [p EXCEPT !.S = end]
             x == post(state, room, type)
  <2>1. p.S \in ServerEnds /\ p.S.room \in RoomIds
    BY <1>2 DEF Plugins, ServerEnds
  <2>2. end \in ServerEnds /\ end.state = state
    BY <2>1 DEF ServerEnds, ServerStates
  <2>3. x = Post(r, type, p.S.room)
    BY <1>2 DEF Plugins
  <2> HIDE DEF x, end
  <2>4. /\ r \in Plugins /\ r.sent = p.sent /\ r.asked = p.asked /\ r.requests = p.requests
        /\ r.S = end /\ r.V = p.V /\ r.viewer = p.viewer /\ r.crashed = p.crashed
        /\ r.timers = p.timers /\ r.posted = p.posted
    BY <1>2, <2>2 DEF Plugins
  <2> HIDE DEF r
  <2>5. /\ x \in Plugins /\ x.sent = r.sent /\ x.asked = r.asked /\ x.requests = r.requests
        /\ x.S = r.S /\ x.V = r.V /\ x.viewer = r.viewer /\ x.crashed = r.crashed
        /\ x.timers = r.timers /\ Kept("CreateRoom", r.posted, x.posted)
        /\ type = "JoinRoom" => ~Without("JoinRoom", x.posted)
    <3>1. type \in {"CreateRoom", "JoinRoom", "QuitRoom", "RoomClosed"} /\ type # "CreateRoom"
      OBVIOUS
    <3>2. Posted(r, type, Post(r, type, p.S.room))
      BY <2>1, <2>4, <3>1, PostKeeps
    <3>3. Posted(r, type, x)
      BY <2>3, <3>2
    <3> QED BY <3>1, <3>3 DEF Posted
  <2>6. Calm(p, x)
    BY <2>4, <2>5, KeptSame DEF Calm, Sound
  <2>7. Timely(x)
    BY <1>4, <2>2, <2>4, <2>5 DEF Timely
  <2> QED BY <2>4, <2>5, <2>6, <2>7 DEF x
<1>5. Fine(p)
  BY <1>2, PlainSame, PlainIsCalm
<1>6. Fine(StopServer(p, {}))
  <2>1. Plain(p, StopServer(p, {}))
    BY <1>2, StopServerPlain
  <2> QED BY <2>1, PlainIsCalm DEF Plain
<1>7. p.S.room \in RoomIds /\ 0 \in RoomIds
  BY <1>2 DEF Plugins, ServerEnds, RoomIds
<1> HIDE DEF Fine, post
<1>8. Fine(q)
  <2>1. CASE m.type = "Joined"
    BY <1>4, <1>5, <1>7, <2>1
  <2>2. CASE m.type = "JoinFailed"
    BY <1>4, <1>7, <2>2
  <2>3. CASE m.type = "Quit"
    BY <1>4, <1>7, <2>3
  <2>4. CASE m.type = "RoomClosed"
    BY <1>4, <1>7, <2>4
  <2>5. CASE m.type = "ExitRoom"
    BY <1>5, <1>6, <2>5
  <2> QED BY <1>3, <2>1, <2>2, <2>3, <2>4, <2>5
<1> HIDE DEF q
<1> QED BY <1>1, <1>8 DEF Fine, p

LEMMA ViewerEffect ==
  ASSUME Typed, NEW u \in Users, ViewerHandles(u)
  PROVE  \E q \in Plugins : LET p == plugin[u] IN
           /\ plugin' = [plugin EXCEPT ![u] = q]
           /\ inbox[<<u, "V">>] # << >>
           /\ inbox' = [inbox EXCEPT ![<<u, "V">>] = Tail(@)]
           /\ UNCHANGED <<members, used, breaks>>
           /\ Timely(p) => Timely(q)
           /\ Resting(p.S) => Resting(q.S)
           /\ \/ Calm(p, q)
              \/ /\ Head(inbox[<<u, "V">>]).type = "Created"
                 /\ q.requests = p.requests /\ q.asked = p.asked /\ q.timers = p.timers
                 /\ q.V.state # "NULL" /\ q.crashed = p.crashed
                 /\ q.V.queue = p.V.queue /\ q.sent = p.sent
                 /\ Without("CreateRoom", p.posted) => AtMostOne("CreateRoom", q.posted)
<1> DEFINE e == <<u, "V">>
           p == plugin[u]
           m == Head(inbox[<<u, "V">>])
           post(state, room, type, told) ==
             Post([p EXCEPT !.V.state = state, !.V.room = room], type, told)
           when(state, x) == IF p.V.state = state THEN x ELSE p
           q == CASE m.type = "Created"    -> when("RoomCreating",
                       IF m.room = 0 THEN post("Init", p.V.room, "CreateRoom", 0)
                       ELSE post("Sharing", m.room, "CreateRoom", m.room))
                  [] m.type = "Joined"     -> when("Joining", post("Sharing", p.V.room, "JoinRoom", p.V.room))
                  [] m.type = "JoinFailed" -> when("Joining", post("Init", 0, "JoinRoom", p.V.room))
                  [] m.type = "Quit"       -> when("Quiting", post("Init", 0, "QuitRoom", p.V.room))
                  [] m.type = "RoomClosed" -> post("Init", 0, "RoomClosed", p.V.room)
                  [] m.type = "ExitRoom"   -> IF p.V.room = 0 \/ p.viewer = "Normal" THEN p
                                              ELSE StopViewer(p, {})
<1>1. /\ plugin' = [plugin EXCEPT ![u] = q] /\ inbox[e] # << >>
      /\ inbox' = [inbox EXCEPT ![e] = Tail(@)] /\ UNCHANGED <<members, used, breaks>>
  BY DEF ViewerHandles
<1>2. p \in Plugins /\ inbox[e] \in Seq(Answers)
  <2>1. e \in Ends
    BY DEF Ends
  <2> QED BY <2>1 DEF Typed
<1>3. /\ m.type \in {"Created", "Joined", "JoinFailed", "Quit", "ExitRoom", "RoomClosed"}
      /\ m.room \in RoomIds
  <2>1. m \in Answers
    BY <1>1, <1>2, TakeNote
  <2> HIDE DEF m, q
  <2> QED BY <2>1 DEF Answers, Notes, RoomIds
<1> HIDE DEF p, m
<1> DEFINE Fine(x) == /\ x \in Plugins /\ Calm(p, x) /\ (Timely(p) => Timely(x))
                      /\ Resting(p.S) => Resting(x.S)
           Made(x) == /\ x \in Plugins /\ (Timely(p) => Timely(x))
                      /\ Resting(p.S) => Resting(x.S)
                      /\ x.requests = p.requests /\ x.asked = p.asked /\ x.timers = p.timers
                      /\ x.V.state # "NULL" /\ x.crashed = p.crashed
                      /\ x.V.queue = p.V.queue /\ x.sent = p.sent
                      /\ Without("CreateRoom", p.posted) => AtMostOne("CreateRoom", x.posted)
<1>4. ASSUME NEW state \in {"Init", "Sharing"}, NEW room \in RoomIds, NEW told \in RoomIds,
             NEW type \in {"CreateRoom", "JoinRoom", "QuitRoom", "RoomClosed"}
      PROVE  /\ type # "CreateRoom" => Fine(post(state, room, type, told))
             /\ Made(post(state, room, type, told))
  <2> DEFINE end == [p.V EXCEPT !.state = state, !.room = room]
             r == [p EXCEPT !.V = end]
             x == post(state, room, type, told)
  <2>1. p.V \in ViewerEnds
    BY <1>2 DEF Plugins
  <2>2. end \in ViewerEnds /\ end.state = state /\ end.queue = p.V.queue
    BY <2>1 DEF ViewerEnds, ViewerStates
  <2>3. x = Post(r, type, told)
    BY <1>2 DEF Plugins
  <2> HIDE DEF x, end
  <2>4. /\ r \in Plugins /\ r.sent = p.sent /\ r.asked = p.asked /\ r.requests = p.requests
        /\ r.S = p.S /\ r.V = end /\ r.viewer = p.viewer /\ r.crashed = p.crashed
        /\ r.timers = p.timers /\ r.posted = p.posted
    BY <1>2, <2>2 DEF Plugins
  <2> HIDE DEF r
  <2>5. /\ x \in Plugins /\ x.sent = r.sent /\ x.asked = r.asked /\ x.requests = r.requests
        /\ x.S = r.S /\ x.V = r.V /\ x.viewer = r.viewer /\ x.crashed = r.crashed
        /\ x.timers = r.timers
        /\ type # "CreateRoom" => Kept("CreateRoom", r.posted, x.posted)
        /\ Without("CreateRoom", r.posted) => AtMostOne("CreateRoom", x.posted)
        /\ ~Without("JoinRoom", r.posted) => ~Without("JoinRoom", x.posted)
    <3>1. Posted(r, type, Post(r, type, told))
      BY <2>4, PostKeeps
    <3>2. Posted(r, type, x)
      BY <2>3, <3>1
    <3> QED BY <3>2 DEF Posted
  <2>6. type # "CreateRoom" => Calm(p, x)
    BY <2>2, <2>4, <2>5, KeptSame DEF Calm, Sound
  <2>7. Timely(p) => Timely(x)
    BY <2>4, <2>5 DEF Timely
  <2>8. Made(x)
    BY <2>2, <2>4, <2>5, <2>7
  <2> QED BY <2>5, <2>6, <2>7, <2>8 DEF x
<1>5. Fine(p)
  BY <1>2, PlainSame, PlainIsCalm
<1>6. p.viewer # "Normal" => Fine(StopViewer(p, {}))
  <2>1. p.viewer # "Normal" => Plain(p, StopViewer(p, {}))
    BY <1>2, StopViewerPlain
  <2> QED BY <2>1, PlainIsCalm DEF Plain
<1>7. p.V.room \in RoomIds /\ 0 \in RoomIds
  BY <1>2 DEF Plugins, ViewerEnds, RoomIds
<1> HIDE DEF Fine, Made, post
<1>8. Fine(q) \/ (m.type = "Created" /\ Made(q))
  <2>1. CASE m.type = "Created"
    BY <1>3, <1>4, <1>5, <1>7, <2>1
  <2>2. CASE m.type = "Joined"
    BY <1>4, <1>5, <1>7, <2>2
  <2>3. CASE m.type = "JoinFailed"
    BY <1>4, <1>5, <1>7, <2>3
  <2>4. CASE m.type = "Quit"
    BY <1>4, <1>5, <1>7, <2>4
  <2>5. CASE m.type = "RoomClosed"
    BY <1>4, <1>7, <2>5
  <2>6. CASE m.type = "ExitRoom"
    BY <1>5, <1>6, <2>6
  <2> QED BY <1>3, <2>1, <2>2, <2>3, <2>4, <2>5, <2>6
<1> HIDE DEF q
<1>9. q \in Plugins
  BY <1>8 DEF Fine, Made
<1> QED BY <1>1, <1>8, <1>9 DEF Fine, Made, p, m

(* A connection of the sharer, and one of the viewer, breaks. *)
LEMMA ReconnectEffect ==
  ASSUME Typed, NEW u \in Users, NEW x \in {"S", "V"}, Reconnects(<<u, x>>)
  PROVE  \E q \in Plugins :
           /\ plugin' = [plugin EXCEPT ![u] = q] /\ Leave({<<u, x>>})
           /\ breaks' \in 0 .. MaxBreaks /\ plugin[u][x].state \notin {"UnInit", "NULL"}
           /\ Calm(plugin[u], q) /\ (Timely(plugin[u]) => Timely(q))
           /\ q.posted = plugin[u].posted /\ q.sent = plugin[u].sent
           /\ x = "S" => q.V = plugin[u].V
           /\ x = "V" => q.S = plugin[u].S
<1> DEFINE p == plugin[u]
           end == p[x]
           joins == end.state \in {"Init", "Sharing"}
           join == IF joins THEN <<Note("JoinRoom", end.room)>> ELSE << >>
           waits == joins /\ (x = "S" \/ end.state = "Init")
           new(left) == End(IF waits THEN "Joining" ELSE end.state, end.room, left \o join)
<1>1. /\ end.state \notin {"UnInit", "NULL"} /\ breaks < MaxBreaks /\ breaks' = breaks + 1
      /\ Leave({<<u, x>>})
  BY DEF Reconnects
<1>2. PICK left \in {<< >>, end.queue} : plugin' = [plugin EXCEPT ![u][x] = new(left)]
  BY DEF Reconnects
<1>3. p \in Plugins /\ breaks' \in 0 .. MaxBreaks
  BY <1>1, SessionAssumption DEF Typed
<1> DEFINE q == [p EXCEPT ![x] = new(left)]
<1>4. plugin' = [plugin EXCEPT ![u] = q]
  BY <1>2 DEF Typed
<1> HIDE DEF p
<1>5. CASE x = "S"
  <2>1. p.S \in ServerEnds /\ end = p.S
    BY <1>3, <1>5 DEF Plugins
  <2>2. end.room \in RoomIds /\ end.queue \in Seq(SharerRequests) /\ end.state \in {"Init", "Joining", "Sharing"}
    BY <1>1, <2>1 DEF ServerEnds, ServerStates
  <2> HIDE DEF end
  <2>3. join \in Seq(SharerRequests)
    <3>1. Note("JoinRoom", end.room) \in SharerRequests
      BY <2>2, NoteIs DEF SharerRequests
    <3> QED BY <3>1
  <2> HIDE DEF join
  <2>4. left \o join \in Seq(SharerRequests)
    <3>1. left \in Seq(SharerRequests)
      <4>1. << >> \in Seq(SharerRequests)
        OBVIOUS
      <4> QED BY <2>2, <4>1
    <3> QED BY <2>3, <3>1
  <2>5. new(left) \in ServerEnds /\ new(left).state = "Joining"
    BY <1>5, <2>2, <2>4 DEF End, ServerEnds, ServerStates
  <2> HIDE DEF new
  <2>6. /\ q \in Plugins /\ q.posted = p.posted /\ q.sent = p.sent /\ q.V = p.V
        /\ q.S.state = "Joining" /\ q.requests = p.requests /\ q.asked = p.asked
        /\ q.timers = p.timers /\ q.viewer = p.viewer /\ q.crashed = p.crashed
    BY <1>3, <1>5, <2>5 DEF Plugins
  <2> HIDE DEF q
  <2>7. Calm(p, q) /\ Timely(q)
    BY <2>6, KeptSame DEF Calm, Sound, Timely
  <2> QED BY <1>1, <1>3, <1>4, <1>5, <2>6, <2>7 DEF p, end
<1>6. CASE x = "V"
  <2>1. p.V \in ViewerEnds /\ end = p.V
    BY <1>3, <1>6 DEF Plugins
  <2>2. end.room \in RoomIds /\ end.queue \in Seq(Requests) /\ end.state \in ViewerStates
    BY <2>1 DEF ViewerEnds
  <2> HIDE DEF end
  <2>3. join \in Seq(Requests) /\ Without("CreateRoom", join)
    <3>1. CASE joins
      <4>1. Note("JoinRoom", end.room) \in Requests /\ Note("JoinRoom", end.room).type = "JoinRoom"
        BY <2>2, NoteIs DEF Requests
      <4> QED BY <3>1, <4>1 DEF Without
    <3>2. CASE ~joins
      BY <3>2 DEF Without
    <3> QED BY <3>1, <3>2
  <2> HIDE DEF join
  <2>4. left \o join \in Seq(Requests) /\ Kept("CreateRoom", end.queue, left \o join)
    <3>1. CASE left = << >>
      <4>1. << >> \in Seq(Requests)
        OBVIOUS
      <4>2. << >> \o join \in Seq(Requests) /\ Kept("CreateRoom", << >>, << >> \o join)
        BY <2>3, <4>1, AppendNotes
      <4> QED BY <3>1, <4>2, KeptEmpty, KeptTrans
    <3>2. CASE left = end.queue
      BY <2>2, <2>3, <3>2, AppendNotes
    <3> QED BY <3>1, <3>2
  <2>5. /\ new(left) \in ViewerEnds /\ new(left).state # "NULL"
        /\ new(left).queue = left \o join
    BY <1>1, <2>2, <2>4 DEF End, ViewerEnds, ViewerStates
  <2> HIDE DEF new
  <2>6. /\ q \in Plugins /\ q.posted = p.posted /\ q.sent = p.sent /\ q.S = p.S
        /\ q.V.state # "NULL" /\ q.requests = p.requests /\ q.asked = p.asked
        /\ q.timers = p.timers /\ q.viewer = p.viewer /\ q.crashed = p.crashed
        /\ q.V.queue = left \o join
    BY <1>3, <1>6, <2>5 DEF Plugins
  <2> HIDE DEF q
  <2>7. Calm(p, q) /\ (Timely(p) => Timely(q))
    BY <2>1, <2>4, <2>6, KeptSame DEF Calm, Sound, Timely
  <2> QED BY <1>1, <1>3, <1>4, <1>6, <2>6, <2>7 DEF p, end
<1> QED BY <1>5, <1>6

(* What the share server tells. *)
LEMMA DeliveredIs ==
  ASSUME Typed, NEW notes, DOMAIN notes \subseteq Ends, Delivered(notes),
         \A e \in DOMAIN notes : notes[e] \in Answers,
         \A u \in Users : <<u, "S">> \in DOMAIN notes => notes[<<u, "S">>] \in SharerAnswers
  PROVE  /\ inbox' \in [Ends -> Seq(Answers)]
         /\ \A u \in Users : inbox'[<<u, "S">>] \in Seq(SharerAnswers)
         /\ \A e \in Ends : e \notin DOMAIN notes => inbox'[e] = inbox[e]
         /\ \A e \in DOMAIN notes :
              /\ inbox'[e] = Append(inbox[e], notes[e])
              /\ notes[e].type \notin {"Joined", "Quit"} => Echo(inbox[e], inbox'[e])
              /\ notes[e].type # "Created" => Kept("Created", inbox[e], inbox'[e])
              /\ Without("Created", inbox[e]) => AtMostOne("Created", inbox'[e])
<1>1. inbox' = [e \in Ends |-> IF e \in DOMAIN notes THEN Append(inbox[e], notes[e]) ELSE inbox[e]]
  BY DEF Delivered
<1>2. ASSUME NEW e \in Ends
      PROVE  inbox[e] \in Seq(Answers)
  BY DEF Typed
<1>3. ASSUME NEW e \in Ends, e \notin DOMAIN notes
      PROVE  inbox'[e] = inbox[e]
  BY <1>1, <1>3
<1>4. ASSUME NEW e \in DOMAIN notes
      PROVE  /\ inbox'[e] = Append(inbox[e], notes[e]) /\ inbox'[e] \in Seq(Answers)
             /\ notes[e].type \notin {"Joined", "Quit"} => Echo(inbox[e], inbox'[e])
             /\ notes[e].type # "Created" => Kept("Created", inbox[e], inbox'[e])
             /\ Without("Created", inbox[e]) => AtMostOne("Created", inbox'[e])
  <2>1. e \in Ends /\ inbox'[e] = Append(inbox[e], notes[e])
    BY <1>1
  <2>2. inbox[e] \in Seq(Answers) /\ notes[e] \in Answers
    BY <1>2, <2>1
  <2> QED BY <2>1, <2>2, AppendNote, EchoAppend
<1>5. ASSUME NEW u \in Users
      PROVE  inbox'[<<u, "S">>] \in Seq(SharerAnswers)
  <2>1. <<u, "S">> \in Ends /\ inbox[<<u, "S">>] \in Seq(SharerAnswers)
    BY DEF Ends, Typed
  <2>2. CASE <<u, "S">> \in DOMAIN notes
    <3>1. /\ notes[<<u, "S">>] \in SharerAnswers
          /\ inbox'[<<u, "S">>] = Append(inbox[<<u, "S">>], notes[<<u, "S">>])
      BY <1>4, <2>2
    <3> QED BY <2>1, <3>1
  <2>3. CASE <<u, "S">> \notin DOMAIN notes
    BY <1>3, <2>1, <2>3
  <2> QED BY <2>2, <2>3
<1>6. inbox' \in [Ends -> Seq(Answers)]
  BY <1>1, <1>2, <1>3, <1>4
<1> QED BY <1>3, <1>4, <1>5, <1>6

AnswerTo(type) == CASE type = "CreateRoom" -> {"Created"}
                    [] type = "JoinRoom"   -> {"Joined", "JoinFailed"}
                    [] type = "QuitRoom"   -> {"Quit"}

LEMMA AnswerEffect ==
  ASSUME Typed, NEW e \in Ends, NEW m \in Requests,
         \A u \in Users : e = <<u, "S">> => m.type # "CreateRoom",
         \/ m.type = "CreateRoom" /\ CreatesRoom(e)
         \/ m.type = "JoinRoom" /\ JoinsRoom(e, m.room)
         \/ m.type = "QuitRoom" /\ QuitsRoom(e, m.room)
  PROVE  /\ inbox' \in [Ends -> Seq(Answers)]
         /\ \A u \in Users : inbox'[<<u, "S">>] \in Seq(SharerAnswers)
         /\ members' \in [Rooms -> SUBSET Ends] /\ used' \subseteq Rooms
         /\ \A x \in Ends \ {e} :
              /\ Kept("Created", inbox[x], inbox'[x]) /\ Echo(inbox[x], inbox'[x])
              /\ Outside(x) => Outside(x)' /\ inbox'[x] = inbox[x]
         /\ m.type # "CreateRoom" => Kept("Created", inbox[e], inbox'[e])
         /\ Without("Created", inbox[e]) => AtMostOne("Created", inbox'[e])
         /\ \E n \in Answers : n.type \in AnswerTo(m.type) /\ inbox'[e] = Append(inbox[e], n)
<1>1. /\ members \in [Rooms -> SUBSET Ends] /\ used \subseteq Rooms
      /\ m.room \in RoomIds /\ 0 \in RoomIds /\ Rooms \subseteq RoomIds
      /\ \A x \in Ends : inbox[x] \in Seq(Answers)
  BY DEF Typed, Requests, Notes, RoomIds
<1>2. CASE m.type = "CreateRoom" /\ CreatesRoom(e)
  <2>1. PICK r \in RoomIds :
          /\ Delivered([x \in {e} |-> Note("Created", r)])
          /\ \/ members' = members /\ used' = used
             \/ /\ r \in Rooms /\ used' = used \cup {r}
                /\ members' = [members EXCEPT ![r] = {e}]
    <3>1. CASE \E r \in Rooms \ used :
                 /\ used' = used \cup {r} /\ members' = [members EXCEPT ![r] = {e}]
                 /\ Delivered([x \in {e} |-> Note("Created", r)])
      BY <1>1, <3>1
    <3>2. CASE Delivered([x \in {e} |-> Note("Created", 0)]) /\ UNCHANGED <<used, members>>
      BY <1>1, <3>2
    <3> QED BY <1>2, <3>1, <3>2 DEF CreatesRoom
  <2> DEFINE notes == [x \in {e} |-> Note("Created", r)]
  <2>2. Note("Created", r) \in Answers
    BY NoteIs DEF Answers
  <2>3. /\ DOMAIN notes = {e} /\ \A x \in DOMAIN notes : notes[x] \in Answers
        /\ \A u \in Users : <<u, "S">> \in DOMAIN notes => notes[<<u, "S">>] \in SharerAnswers
    BY <1>2, <2>2
  <2>4. Delivered(notes)
    BY <2>1
  <2> HIDE DEF notes
  <2>5. /\ inbox' \in [Ends -> Seq(Answers)]
        /\ \A u \in Users : inbox'[<<u, "S">>] \in Seq(SharerAnswers)
        /\ \A x \in Ends : x # e => inbox'[x] = inbox[x]
        /\ Without("Created", inbox[e]) => AtMostOne("Created", inbox'[e])
        /\ inbox'[e] = Append(inbox[e], notes[e])
    BY <2>3, <2>4, DeliveredIs
  <2>6. members' \in [Rooms -> SUBSET Ends] /\ used' \subseteq Rooms
    BY <1>1, <2>1
  <2>7. \A x \in Ends \ {e} : Outside(x) => Outside(x)'
    BY <1>1, <2>1 DEF Outside
  <2>8. notes[e] = Note("Created", r) /\ Note("Created", r).type \in AnswerTo(m.type)
    BY <1>2 DEF notes, Note, AnswerTo
  <2>9. \E n \in Answers : n.type \in AnswerTo(m.type) /\ inbox'[e] = Append(inbox[e], n)
    BY <2>2, <2>5, <2>8
  <2> QED BY <1>2, <2>5, <2>6, <2>7, <2>9, KeptSame, EchoSame
<1>3. CASE m.type = "JoinRoom" /\ JoinsRoom(e, m.room)
  <2> DEFINE r == m.room
             open == r \in Rooms /\ members[r] # {}
             notes == [x \in {e} |-> Note(IF open THEN "Joined" ELSE "JoinFailed", r)]
  <2>1. /\ members' = IF open THEN [members EXCEPT ![r] = @ \cup {e}] ELSE members
        /\ Delivered(notes) /\ used' = used
    BY <1>3 DEF JoinsRoom
  <2>2. ASSUME NEW t \in {"Joined", "JoinFailed"}
        PROVE  Note(t, r) \in Answers /\ Note(t, r) \in SharerAnswers /\ Note(t, r).type # "Created"
    BY <1>1, <2>2, NoteIs DEF Answers, SharerAnswers
  <2>3. /\ DOMAIN notes = {e}
        /\ \A x \in DOMAIN notes :
             notes[x] \in Answers /\ notes[x] \in SharerAnswers /\ notes[x].type # "Created"
    BY <2>2
  <2> HIDE DEF notes
  <2>5. /\ inbox' \in [Ends -> Seq(Answers)]
        /\ \A u \in Users : inbox'[<<u, "S">>] \in Seq(SharerAnswers)
        /\ \A x \in Ends : x # e => inbox'[x] = inbox[x]
        /\ Kept("Created", inbox[e], inbox'[e])
        /\ Without("Created", inbox[e]) => AtMostOne("Created", inbox'[e])
        /\ inbox'[e] = Append(inbox[e], notes[e])
    BY <2>1, <2>3, DeliveredIs
  <2>6. members' \in [Rooms -> SUBSET Ends] /\ used' \subseteq Rooms
    BY <1>1, <2>1
  <2>7. \A x \in Ends \ {e} : Outside(x) => Outside(x)'
    BY <1>1, <2>1 DEF Outside
  <2>8. notes[e].type \in {"Joined", "JoinFailed"}
    BY DEF notes, Note
  <2>9. \E n \in Answers : n.type \in AnswerTo(m.type) /\ inbox'[e] = Append(inbox[e], n)
    BY <1>3, <2>3, <2>5, <2>8 DEF AnswerTo
  <2> QED BY <2>5, <2>6, <2>7, <2>9, KeptSame, EchoSame
<1>4. CASE m.type = "QuitRoom" /\ QuitsRoom(e, m.room)
  <2> DEFINE r == m.room
             left == IF r \in Rooms /\ e \in members[r] THEN members[r] \ {e} ELSE {}
             notes == [x \in left \cup {e} |-> Note(IF x = e THEN "Quit" ELSE "ExitRoom", r)]
  <2>1. /\ members' = [q \in Rooms |-> IF q = r THEN members[q] \ {e} ELSE members[q]]
        /\ Delivered(notes) /\ used' = used
    BY <1>4 DEF QuitsRoom
  <2>2. ASSUME NEW t \in {"Quit", "ExitRoom"}
        PROVE  Note(t, r) \in Answers /\ Note(t, r) \in SharerAnswers /\ Note(t, r).type # "Created"
    BY <1>1, <2>2, NoteIs DEF Answers, SharerAnswers
  <2>3. /\ DOMAIN notes = left \cup {e}
        /\ \A x \in DOMAIN notes :
             /\ notes[x] \in Answers /\ notes[x] \in SharerAnswers
             /\ notes[x].type # "Created" /\ notes[x].type = IF x = e THEN "Quit" ELSE "ExitRoom"
    BY <2>2 DEF Note
  <2>4. left \subseteq Ends /\ \A x \in Ends : Outside(x) => x \notin left
    BY <1>1 DEF Outside
  <2> HIDE DEF notes, left
  <2>5. /\ inbox' \in [Ends -> Seq(Answers)]
        /\ \A u \in Users : inbox'[<<u, "S">>] \in Seq(SharerAnswers)
        /\ \A x \in Ends : x \notin left \cup {e} => inbox'[x] = inbox[x]
        /\ \A x \in left \cup {e} :
             /\ Kept("Created", inbox[x], inbox'[x]) /\ inbox'[x] = Append(inbox[x], notes[x])
             /\ x # e => Echo(inbox[x], inbox'[x])
        /\ Without("Created", inbox[e]) => AtMostOne("Created", inbox'[e])
    BY <2>1, <2>3, <2>4, DeliveredIs
  <2>6. members' \in [Rooms -> SUBSET Ends] /\ used' \subseteq Rooms
    BY <1>1, <2>1
  <2>7. \A x \in Ends \ {e} : Outside(x) => Outside(x)'
    BY <1>1, <2>1 DEF Outside
  <2>8. \A x \in Ends :
          Kept("Created", inbox[x], inbox'[x]) /\ (x # e => Echo(inbox[x], inbox'[x]))
    BY <2>5, KeptSame, EchoSame
  <2>9. \E n \in Answers : n.type \in AnswerTo(m.type) /\ inbox'[e] = Append(inbox[e], n)
    BY <1>4, <2>3, <2>5 DEF AnswerTo
  <2> QED BY <2>4, <2>5, <2>6, <2>7, <2>8, <2>9
<1> QED BY <1>2, <1>3, <1>4

LEMMA ShareServerEffect ==
  ASSUME Typed, NEW u \in Users, NEW x \in {"S", "V"}, ShareServer(<<u, x>>)
  PROVE  \E q \in Plugins : LET p == plugin[u]
                                e == <<u, x>>
                                m == Head(p[x].queue) IN
           /\ plugin' = [plugin EXCEPT ![u] = q] /\ breaks' = breaks
           /\ p[x].queue # << >> /\ (x = "S" => m.type # "CreateRoom")
           /\ Calm(p, q) /\ (Timely(p) => Timely(q))
           /\ q.posted = p.posted /\ q.sent = p.sent
           /\ q.server = p.server /\ q.told = p.told /\ q.timers = p.timers
           /\ x = "S" => q.V = p.V /\ q.S.state = p.S.state /\ q.S.queue = Tail(p.S.queue)
           /\ x = "V" => q.S = p.S /\ q.V.queue = Tail(p.V.queue)
           /\ inbox' \in [Ends -> Seq(Answers)]
           /\ \A w \in Users : inbox'[<<w, "S">>] \in Seq(SharerAnswers)
           /\ members' \in [Rooms -> SUBSET Ends] /\ used' \subseteq Rooms
           /\ \A y \in Ends \ {e} :
                /\ Kept("Created", inbox[y], inbox'[y]) /\ Echo(inbox[y], inbox'[y])
                /\ Outside(y) => Outside(y)' /\ inbox'[y] = inbox[y]
           /\ m.type # "CreateRoom" => Kept("Created", inbox[e], inbox'[e])
           /\ Without("Created", inbox[e]) => AtMostOne("Created", inbox'[e])
           /\ \E n \in Answers : n.type \in AnswerTo(m.type) /\ inbox'[e] = Append(inbox[e], n)
<1> DEFINE p == plugin[u]
           e == <<u, x>>
           m == Head(p[x].queue)
           end == [p[x] EXCEPT !.queue = Tail(@)]
           q == [p EXCEPT ![x] = end]
<1>1. /\ p[x].queue # << >> /\ breaks' = breaks
      /\ \/ m.type = "CreateRoom" /\ CreatesRoom(e)
         \/ m.type = "JoinRoom" /\ JoinsRoom(e, m.room)
         \/ m.type = "QuitRoom" /\ QuitsRoom(e, m.room)
  BY DEF ShareServer
<1>2. plugin' = [plugin EXCEPT ![u] = q]
  BY DEF ShareServer, Typed
<1>3. p \in Plugins /\ e \in Ends
  BY DEF Typed, Ends
<1> HIDE DEF p
<1>4. /\ m \in Requests /\ (x = "S" => m.type # "CreateRoom") /\ q \in Plugins
      /\ Calm(p, q) /\ (Timely(p) => Timely(q)) /\ q.posted = p.posted /\ q.sent = p.sent
      /\ q.server = p.server /\ q.told = p.told /\ q.timers = p.timers
      /\ x = "S" => q.V = p.V /\ q.S.state = p.S.state /\ q.S.queue = Tail(p.S.queue)
      /\ x = "V" => q.S = p.S /\ q.V.queue = Tail(p.V.queue)
  <2>1. CASE x = "S"
    <3>1. p.S \in ServerEnds /\ p[x] = p.S
      BY <1>3, <2>1 DEF Plugins
    <3>2. p.S.queue \in Seq(SharerRequests) /\ p.S.queue # << >>
      BY <1>1, <3>1 DEF ServerEnds
    <3>3. Tail(p.S.queue) \in Seq(SharerRequests) /\ Head(p.S.queue) \in SharerRequests
      BY <3>2, TakeNote
    <3>4. m \in SharerRequests
      BY <3>1, <3>3
    <3> HIDE DEF m
    <3>5. m \in Requests /\ m.type # "CreateRoom"
      BY <3>4 DEF SharerRequests, Requests, Notes
    <3>6. end \in ServerEnds /\ end.state = p.S.state /\ end.queue = Tail(p.S.queue)
      BY <3>1, <3>3 DEF ServerEnds
    <3> HIDE DEF end
    <3>7. /\ q \in Plugins /\ q.posted = p.posted /\ q.sent = p.sent /\ q.V = p.V
          /\ q.S.state = p.S.state /\ q.S.queue = Tail(p.S.queue)
          /\ q.server = p.server /\ q.told = p.told
          /\ q.requests = p.requests /\ q.asked = p.asked
          /\ q.timers = p.timers /\ q.viewer = p.viewer /\ q.crashed = p.crashed
      BY <1>3, <2>1, <3>6 DEF Plugins
    <3> HIDE DEF q
    <3>8. Calm(p, q) /\ (Timely(p) => Timely(q))
      BY <3>7, KeptSame DEF Calm, Sound, Timely
    <3> QED BY <2>1, <3>5, <3>7, <3>8
  <2>2. CASE x = "V"
    <3>1. p.V \in ViewerEnds /\ p[x] = p.V
      BY <1>3, <2>2 DEF Plugins
    <3>2. p.V.queue \in Seq(Requests) /\ p.V.queue # << >>
      BY <1>1, <3>1 DEF ViewerEnds
    <3>3. /\ Tail(p.V.queue) \in Seq(Requests) /\ Head(p.V.queue) \in Requests
          /\ Kept("CreateRoom", p.V.queue, Tail(p.V.queue))
      BY <3>2, TakeNote
    <3>4. m \in Requests
      BY <3>1, <3>3
    <3> HIDE DEF m
    <3>6. end \in ViewerEnds /\ end.state = p.V.state /\ end.queue = Tail(p.V.queue)
      BY <3>1, <3>3 DEF ViewerEnds
    <3> HIDE DEF end
    <3>7. /\ q \in Plugins /\ q.posted = p.posted /\ q.sent = p.sent /\ q.S = p.S
          /\ q.server = p.server /\ q.told = p.told /\ q.V.state = p.V.state /\ q.requests = p.requests /\ q.asked = p.asked
          /\ q.timers = p.timers /\ q.viewer = p.viewer /\ q.crashed = p.crashed
          /\ q.V.queue = Tail(p.V.queue)
      BY <1>3, <2>2, <3>6 DEF Plugins
    <3> HIDE DEF q
    <3>8. Calm(p, q) /\ (Timely(p) => Timely(q))
      BY <3>3, <3>7, KeptSame DEF Calm, Sound, Timely
    <3> QED BY <2>2, <3>4, <3>7, <3>8
  <2> QED BY <2>1, <2>2
<1>5. \A w \in Users : e = <<w, "S">> => m.type # "CreateRoom"
  BY <1>4
<1> HIDE DEF m, q, e
<1>6. /\ inbox' \in [Ends -> Seq(Answers)]
      /\ \A w \in Users : inbox'[<<w, "S">>] \in Seq(SharerAnswers)
      /\ members' \in [Rooms -> SUBSET Ends] /\ used' \subseteq Rooms
      /\ \A y \in Ends \ {e} :
           /\ Kept("Created", inbox[y], inbox'[y]) /\ Echo(inbox[y], inbox'[y])
           /\ Outside(y) => Outside(y)' /\ inbox'[y] = inbox[y]
      /\ m.type # "CreateRoom" => Kept("Created", inbox[e], inbox'[e])
      /\ Without("Created", inbox[e]) => AtMostOne("Created", inbox'[e])
      /\ \E n \in Answers : n.type \in AnswerTo(m.type) /\ inbox'[e] = Append(inbox[e], n)
  BY <1>1, <1>3, <1>4, <1>5, AnswerEffect
<1> QED BY <1>1, <1>2, <1>4, <1>6 DEF p, m, e

LEMMA RoomClosesEffect ==
  ASSUME Typed, RoomCloses
  PROVE  /\ UNCHANGED <<plugin, used, breaks>>
         /\ inbox' \in [Ends -> Seq(Answers)]
         /\ \A u \in Users : inbox'[<<u, "S">>] \in Seq(SharerAnswers)
         /\ members' \in [Rooms -> SUBSET Ends]
         /\ \A e \in Ends :
              /\ Kept("Created", inbox[e], inbox'[e]) /\ Echo(inbox[e], inbox'[e])
              /\ Outside(e) => Outside(e)' /\ inbox'[e] = inbox[e]
<1>1. PICK r \in Rooms :
        /\ members' = [members EXCEPT ![r] = {}]
        /\ Delivered([x \in members[r] |-> Note("RoomClosed", r)])
  BY DEF RoomCloses
<1>2. members \in [Rooms -> SUBSET Ends] /\ UNCHANGED <<plugin, used, breaks>>
  BY DEF Typed, RoomCloses
<1> DEFINE notes == [x \in members[r] |-> Note("RoomClosed", r)]
<1>3. /\ Note("RoomClosed", r) \in Answers /\ Note("RoomClosed", r) \in SharerAnswers
      /\ Note("RoomClosed", r).type # "Created"
  <2>1. r \in RoomIds
    BY DEF RoomIds
  <2>2. Note("RoomClosed", r) \in Answers
    BY <2>1, NoteIs DEF Answers
  <2>3. Note("RoomClosed", r) \in SharerAnswers
    BY <2>1, NoteIs DEF SharerAnswers
  <2>4. Note("RoomClosed", r).type # "Created"
    BY DEF Note
  <2> QED BY <2>2, <2>3, <2>4
<1>4. /\ DOMAIN notes = members[r] /\ Delivered(notes)
      /\ \A x \in DOMAIN notes :
           notes[x] \in Answers /\ notes[x] \in SharerAnswers /\ notes[x].type = "RoomClosed"
  BY <1>1, <1>3 DEF Note
<1> HIDE DEF notes
<1>5. /\ inbox' \in [Ends -> Seq(Answers)]
      /\ \A u \in Users : inbox'[<<u, "S">>] \in Seq(SharerAnswers)
      /\ \A x \in Ends : x \notin members[r] => inbox'[x] = inbox[x]
      /\ \A x \in members[r] : Kept("Created", inbox[x], inbox'[x]) /\ Echo(inbox[x], inbox'[x])
  BY <1>2, <1>4, DeliveredIs
<1>6. members' \in [Rooms -> SUBSET Ends]
  BY <1>1, <1>2
<1>7. \A e \in Ends : Outside(e) => Outside(e)' /\ e \notin members[r]
  BY <1>1, <1>2 DEF Outside
<1> QED BY <1>2, <1>5, <1>6, <1>7, KeptSame, EchoSame

-----------------------------------------------------------------------------
(* The types, and the timer of a join, are kept by every step.              *)
Steady == Typed /\ \A u \in Users : Timely(plugin[u])

LEMMA Steps ==
  ASSUME Next
  PROVE  \/ \E u \in Users :
              \/ u \in Requesters /\ RequestShareDesktop(u)
              \/ AcceptShareDesktop(u) \/ mediaTerminalRejectShareDesktop(u)
              \/ StopShareDesktop(u) \/ OnTimer(u) \/ onVncViewerCallBack(u)
              \/ handleVncCmd(u) \/ ServerHandles(u) \/ ViewerHandles(u)
         \/ \E u \in Users, x \in {"S", "V"} :
              ShareServer(<<u, x>>) \/ Reconnects(<<u, x>>)
         \/ RoomCloses
BY DEF Next, PageCalls, Window, Ends

(* One plugin changes. *)
LEMMA OneChanges ==
  ASSUME Steady, NEW u \in Users, NEW q \in Plugins, Timely(plugin[u]) => Timely(q),
         plugin' = [plugin EXCEPT ![u] = q]
  PROVE  plugin' \in [Users -> Plugins] /\ \A w \in Users : Timely(plugin'[w])
<1>1. plugin \in [Users -> Plugins] /\ \A w \in Users : Timely(plugin[w])
  BY DEF Steady, Typed
<1>2. \A w \in Users : plugin'[w] = IF w = u THEN q ELSE plugin[w]
  BY <1>1
<1> QED BY <1>1, <1>2

(* One changes, and a connection ends. *)
LEMMA OneLeaves ==
  ASSUME Steady, NEW u \in Users, NEW q \in Plugins, Timely(plugin[u]) => Timely(q),
         plugin' = [plugin EXCEPT ![u] = q], NEW gone \in SUBSET Ends, Leave(gone),
         breaks' \in 0 .. MaxBreaks
  PROVE  Steady'
<1>1. Typed
  BY DEF Steady
<1>2. plugin' \in [Users -> Plugins] /\ \A w \in Users : Timely(plugin'[w])
  BY OneChanges
<1>3. /\ inbox' \in [Ends -> Seq(Answers)]
      /\ \A w \in Users : inbox'[<<w, "S">>] \in Seq(SharerAnswers)
      /\ members' \in [Rooms -> SUBSET Ends] /\ used' = used
  BY <1>1, LeaveFacts
<1> QED BY <1>1, <1>2, <1>3 DEF Steady, Typed

LEMMA OneBecomes ==
  ASSUME Steady, NEW u \in Users, NEW q \in Plugins, Timely(plugin[u]) => Timely(q),
         Becomes(u, q)
  PROVE  Steady'
<1>1. Gone(u, q) \in SUBSET Ends
  BY DEF Gone
<1>2. breaks' \in 0 .. MaxBreaks
  BY DEF Becomes, Steady, Typed
<1> QED BY <1>1, <1>2, OneLeaves DEF Becomes

(* One changes, and a message for one of its endpoints has been taken. *)
LEMMA OneTakes ==
  ASSUME Steady, NEW u \in Users, NEW q \in Plugins, Timely(plugin[u]) => Timely(q),
         plugin' = [plugin EXCEPT ![u] = q], NEW x \in {"S", "V"}, inbox[<<u, x>>] # << >>,
         inbox' = [inbox EXCEPT ![<<u, x>>] = Tail(@)], UNCHANGED <<members, used, breaks>>
  PROVE  Steady'
<1> DEFINE e == <<u, x>>
<1>1. /\ e \in Ends /\ inbox \in [Ends -> Seq(Answers)]
      /\ \A w \in Users : <<w, "S">> \in Ends /\ inbox[<<w, "S">>] \in Seq(SharerAnswers)
      /\ members \in [Rooms -> SUBSET Ends] /\ used \subseteq Rooms /\ breaks \in 0 .. MaxBreaks
  BY DEF Steady, Typed, Ends
<1>2. plugin' \in [Users -> Plugins] /\ \A w \in Users : Timely(plugin'[w])
  BY OneChanges
<1> HIDE DEF e
<1>3. inbox[e] \in Seq(Answers) /\ inbox[e] # << >>
  BY <1>1 DEF e
<1>4. \A f \in Ends : inbox'[f] = IF f = e THEN Tail(inbox[e]) ELSE inbox[f]
  BY <1>1 DEF e
<1>5. Tail(inbox[e]) \in Seq(Answers)
  BY <1>3
<1>6. inbox' \in [Ends -> Seq(Answers)]
  BY <1>1, <1>5 DEF e
<1>7. ASSUME NEW w \in Users
      PROVE  inbox'[<<w, "S">>] \in Seq(SharerAnswers)
  <2>1. CASE <<w, "S">> = e
    <3>1. inbox[e] \in Seq(SharerAnswers)
      BY <1>1, <2>1
    <3>2. Tail(inbox[e]) \in Seq(SharerAnswers)
      BY <1>3, <3>1
    <3> QED BY <1>1, <1>4, <2>1, <3>2
  <2>2. CASE <<w, "S">> # e
    BY <1>1, <1>4, <2>2
  <2> QED BY <2>1, <2>2
<1> QED BY <1>1, <1>2, <1>6, <1>7 DEF Steady, Typed

LEMMA SteadyInit == Init => Steady
<1> SUFFICES ASSUME Init PROVE Steady
  OBVIOUS
<1>1. Fresh \in Plugins /\ Timely(Fresh)
  <2> DEFINE end == End("UnInit", 0, << >>)
  <2>1. end \in ServerEnds /\ end \in ViewerEnds /\ end.state = "UnInit"
    BY DEF End, ServerEnds, ViewerEnds, ServerStates, ViewerStates, RoomIds
  <2>2. << >> \in Seq(Callbacks) /\ << >> \in Seq(Commands) /\ 0 \in 0 .. MaxRequests
    BY SessionAssumption
  <2> HIDE DEF end
  <2>3. /\ Fresh.S = end /\ Fresh.timers = {}
    BY DEF Fresh, end
  <2> QED BY <2>1, <2>2, <2>3 DEF Fresh, Plugins, RoomIds, Timely, end
<1>2. plugin = [u \in Users |-> Fresh] /\ inbox = [e \in Ends |-> << >>]
  BY DEF Init
<1>3. plugin \in [Users -> Plugins] /\ \A u \in Users : Timely(plugin[u])
  BY <1>1, <1>2
<1>4. << >> \in Seq(Answers) /\ << >> \in Seq(SharerAnswers)
  OBVIOUS
<1>5. /\ inbox \in [Ends -> Seq(Answers)]
      /\ \A u \in Users : inbox[<<u, "S">>] \in Seq(SharerAnswers)
  BY <1>2, <1>4 DEF Ends
<1>6. members \in [Rooms -> SUBSET Ends] /\ used \subseteq Rooms /\ breaks \in 0 .. MaxBreaks
  BY SessionAssumption DEF Init
<1> QED BY <1>3, <1>5, <1>6 DEF Steady, Typed

LEMMA SteadyRequest ==
  ASSUME Steady, NEW u \in Users, RequestShareDesktop(u)
  PROVE  Steady'
<1>1. PICK q \in Plugins :
        /\ plugin' = [plugin EXCEPT ![u] = q] /\ Leave({<<u, "V">>}) /\ breaks' = breaks
        /\ q.posted = plugin[u].posted /\ q.S = plugin[u].S
        /\ "Join" \in q.timers => "Join" \in plugin[u].timers
  BY RequestEffect DEF Steady
<1>2. Timely(plugin[u]) => Timely(q)
  BY <1>1 DEF Timely
<1>3. {<<u, "V">>} \in SUBSET Ends /\ breaks' \in 0 .. MaxBreaks
  BY <1>1 DEF Ends, Steady, Typed
<1> QED BY <1>1, <1>2, <1>3, OneLeaves

LEMMA SteadyPage ==
  ASSUME Steady, NEW u \in Users,
         \/ AcceptShareDesktop(u) \/ mediaTerminalRejectShareDesktop(u)
         \/ StopShareDesktop(u) \/ OnTimer(u)
  PROVE  Steady'
<1>0. Typed
  BY DEF Steady
<1>1. \E q \in Plugins : Becomes(u, q) /\ (Timely(plugin[u]) => Timely(q))
  <2>1. CASE AcceptShareDesktop(u)
    <3>1. PICK q \in Plugins : Becomes(u, q) /\ q.S.state # "Sharing"
      BY <1>0, <2>1, AcceptEffect
    <3> QED BY <3>1 DEF Timely
  <2>2. CASE mediaTerminalRejectShareDesktop(u)
    <3>1. PICK q \in Plugins : /\ Becomes(u, q) /\ q.posted = plugin[u].posted
                               /\ q.timers = plugin[u].timers /\ q.S = plugin[u].S
      BY <1>0, <2>2, RejectEffect
    <3> QED BY <3>1 DEF Timely
  <2>3. CASE StopShareDesktop(u)
    BY <1>0, <2>3, StopEffect, PlainIsCalm
  <2>4. CASE OnTimer(u)
    <3>1. PICK q \in Plugins :
            /\ Becomes(u, q)
            /\ \/ Plain(plugin[u], q)
               \/ /\ "Join" \in q.timers => "Join" \in plugin[u].timers
                  /\ q.posted = plugin[u].posted /\ q.S = plugin[u].S
      BY <1>0, <2>4, TimerEffect
    <3>2. Timely(plugin[u]) => Timely(q)
      <4>1. CASE Plain(plugin[u], q)
        BY <4>1, PlainIsCalm
      <4>2. CASE /\ "Join" \in q.timers => "Join" \in plugin[u].timers
                 /\ q.posted = plugin[u].posted /\ q.S = plugin[u].S
        BY <4>2 DEF Timely
      <4> QED BY <3>1, <4>1, <4>2
    <3> QED BY <3>1, <3>2
  <2> QED BY <2>1, <2>2, <2>3, <2>4
<1> QED BY <1>1, OneBecomes

(* A callback of another type leaves the one that the timer waits for. *)
LEMMA PoppedTimely ==
  ASSUME NEW p \in Plugins, p.posted # << >>, NEW q, q.posted = Tail(p.posted),
         q.S = p.S, "Join" \in q.timers => "Join" \in p.timers,
         Head(p.posted).type # "JoinRoom", Timely(p)
  PROVE  Timely(q)
<1>1. p.posted \in Seq(Callbacks)
  BY DEF Plugins
<1>2. ~Without("JoinRoom", p.posted) => ~Without("JoinRoom", q.posted)
  BY <1>1, TakeNote
<1> QED BY <1>2 DEF Timely

LEMMA SteadyCallback ==
  ASSUME Steady, NEW u \in Users, onVncViewerCallBack(u)
  PROVE  Steady'
<1> DEFINE p == plugin[u]
           msg == Head(plugin[u].posted)
<1>1. Typed /\ p \in Plugins
  BY DEF Steady, Typed
<1>2. PICK q \in Plugins :
        /\ Becomes(u, q) /\ p.posted # << >> /\ q.posted = Tail(p.posted)
        /\ \/ msg.type = "CreateRoom" /\ q.S = p.S /\ q.timers = p.timers
           \/ /\ msg.type \in {"CreateRoom", "JoinRoom"} /\ q.S = p.S
              /\ q.timers = p.timers \ {IF msg.type = "JoinRoom" THEN "Join" ELSE "Create"}
           \/ msg.type \in {"RoomClosed", "QuitRoom"} /\ Plain(Popped(p), q)
  BY <1>1, CallbackEffect
<1>3. ASSUME Timely(p) PROVE Timely(q)
  <2>1. CASE msg.type = "CreateRoom" /\ q.S = p.S /\ (q.timers = p.timers \/ q.timers = p.timers \ {"Create"})
    <3>1. "Join" \in q.timers => "Join" \in p.timers
      BY <2>1
    <3> QED BY <1>1, <1>2, <1>3, <2>1, <3>1, PoppedTimely
  <2>2. CASE msg.type = "JoinRoom" /\ q.timers = p.timers \ {"Join"}
    BY <2>2 DEF Timely
  <2>3. CASE msg.type \in {"RoomClosed", "QuitRoom"} /\ Plain(Popped(p), q)
    <3> DEFINE r == Popped(p)
    <3>1. r.posted = Tail(p.posted) /\ r.S = p.S /\ r.timers = p.timers
      BY <1>1, <1>2, PoppedIs
    <3> HIDE DEF r
    <3>2. Timely(r)
      BY <1>1, <1>2, <1>3, <2>3, <3>1, PoppedTimely
    <3> QED BY <2>3, <3>2, PlainIsCalm DEF r
  <2> QED BY <1>2, <2>1, <2>2, <2>3
<1> QED BY <1>2, <1>3, OneBecomes

LEMMA SteadyCommand ==
  ASSUME Steady, NEW u \in Users, handleVncCmd(u)
  PROVE  Steady'
<1> DEFINE p == plugin[u]
           o == plugin[Peer(u)]
<1>1. Typed /\ \A w \in Users : Timely(plugin[w])
  BY DEF Steady
<1>2. PICK q \in Plugins, r \in Plugins :
        /\ plugin' \in [Users -> Plugins] /\ plugin'[u] = q /\ plugin'[Peer(u)] = r
        /\ Leave(Gone(u, q)) /\ breaks' = breaks
        /\ r.posted = o.posted /\ r.S = o.S /\ r.timers = o.timers
        /\ \/ Plain(p, q)
           \/ q.posted = p.posted /\ q.S = p.S /\ q.timers = p.timers
  BY <1>1, CmdEffect
<1>3. Timely(p) /\ Timely(o) /\ Users = {u, Peer(u)}
  BY <1>1, PeerIs
<1>4. Timely(q)
  <2>1. CASE Plain(p, q)
    BY <1>3, <2>1, PlainIsCalm
  <2>2. CASE q.posted = p.posted /\ q.S = p.S /\ q.timers = p.timers
    BY <1>3, <2>2 DEF Timely
  <2> QED BY <1>2, <2>1, <2>2
<1>5. Timely(r)
  BY <1>2, <1>3 DEF Timely
<1>6. Gone(u, q) \in SUBSET Ends
  BY DEF Gone
<1>7. /\ inbox' \in [Ends -> Seq(Answers)]
      /\ \A w \in Users : inbox'[<<w, "S">>] \in Seq(SharerAnswers)
      /\ members' \in [Rooms -> SUBSET Ends] /\ used' = used
  BY <1>1, <1>2, <1>6, LeaveFacts
<1>8. breaks' \in 0 .. MaxBreaks /\ used' \subseteq Rooms
  BY <1>1, <1>2, <1>7 DEF Typed
<1>9. \A w \in Users : Timely(plugin'[w])
  BY <1>2, <1>3, <1>4, <1>5
<1> QED BY <1>2, <1>7, <1>8, <1>9 DEF Steady, Typed

LEMMA SteadyStep == Steady /\ [Next]_vars => Steady'
<1> SUFFICES ASSUME Steady, [Next]_vars PROVE Steady'
  OBVIOUS
<1>0. Typed
  BY DEF Steady
<1>1. ASSUME NEW u \in Users, ServerHandles(u) PROVE Steady'
  <2>1. PICK q \in Plugins :
          /\ plugin' = [plugin EXCEPT ![u] = q] /\ inbox[<<u, "S">>] # << >>
          /\ inbox' = [inbox EXCEPT ![<<u, "S">>] = Tail(@)]
          /\ UNCHANGED <<members, used, breaks>> /\ (Timely(plugin[u]) => Timely(q))
    BY <1>0, <1>1, ServerEffect
  <2> QED BY <2>1, OneTakes
<1>2. ASSUME NEW u \in Users, ViewerHandles(u) PROVE Steady'
  <2>1. PICK q \in Plugins :
          /\ plugin' = [plugin EXCEPT ![u] = q] /\ inbox[<<u, "V">>] # << >>
          /\ inbox' = [inbox EXCEPT ![<<u, "V">>] = Tail(@)]
          /\ UNCHANGED <<members, used, breaks>> /\ (Timely(plugin[u]) => Timely(q))
    BY <1>0, <1>2, ViewerEffect
  <2> QED BY <2>1, OneTakes
<1>3. ASSUME NEW u \in Users, NEW x \in {"S", "V"}, ShareServer(<<u, x>>) PROVE Steady'
  <2>1. PICK q \in Plugins :
          /\ plugin' = [plugin EXCEPT ![u] = q] /\ breaks' = breaks
          /\ Timely(plugin[u]) => Timely(q)
          /\ inbox' \in [Ends -> Seq(Answers)]
          /\ \A w \in Users : inbox'[<<w, "S">>] \in Seq(SharerAnswers)
          /\ members' \in [Rooms -> SUBSET Ends] /\ used' \subseteq Rooms
    BY <1>0, <1>3, ShareServerEffect
  <2>2. plugin' \in [Users -> Plugins] /\ \A w \in Users : Timely(plugin'[w])
    BY <2>1, OneChanges
  <2> QED BY <1>0, <2>1, <2>2 DEF Steady, Typed
<1>4. ASSUME NEW u \in Users, NEW x \in {"S", "V"}, Reconnects(<<u, x>>) PROVE Steady'
  <2>1. PICK q \in Plugins :
          /\ plugin' = [plugin EXCEPT ![u] = q] /\ Leave({<<u, x>>})
          /\ breaks' \in 0 .. MaxBreaks /\ (Timely(plugin[u]) => Timely(q))
    BY <1>0, <1>4, ReconnectEffect
  <2>2. {<<u, x>>} \in SUBSET Ends
    BY DEF Ends
  <2> QED BY <2>1, <2>2, OneLeaves
<1>5. CASE RoomCloses
  <2>1. /\ UNCHANGED <<plugin, used, breaks>>
        /\ inbox' \in [Ends -> Seq(Answers)]
        /\ \A u \in Users : inbox'[<<u, "S">>] \in Seq(SharerAnswers)
        /\ members' \in [Rooms -> SUBSET Ends]
    BY <1>0, <1>5, RoomClosesEffect
  <2> QED BY <2>1 DEF Steady, Typed
<1>6. CASE UNCHANGED vars
  BY <1>6 DEF vars, Steady, Typed
<1> QED
  BY <1>1, <1>2, <1>3, <1>4, <1>5, <1>6, Steps,
     SteadyRequest, SteadyPage, SteadyCallback, SteadyCommand

THEOREM SessionInvariance == Spec => []Steady
BY SteadyInit, SteadyStep, PTL DEF Spec

(* Every field of both plugins and of their endpoints, every message under  *)
(* way between plugins, endpoints and the share server, the rooms and their *)
(* members keep their types, whatever is asked, answered, stopped, timed    *)
(* out, closed or reconnected.                                              *)
THEOREM SessionTyping == Spec => []TypeOK
<1>1. Steady => TypeOK
  BY TypedTypes DEF Steady
<1> QED BY <1>1, SessionInvariance, PTL

(* The timer of a join never ends a share that has begun: as long as it is  *)
(* set and the desktop is shared, the callback that kills it is still on    *)
(* its way to the window, where it overtakes the timer (OnTimer).           *)
THEOREM TimerOvertaken == Spec => []NoTimerEndsShare
<1>1. ASSUME Steady, NEW u \in Users, plugin[u].S.state = "Sharing", "Join" \in plugin[u].timers
      PROVE  plugin[u].posted # << >>
  <2>1. ~Without("JoinRoom", plugin[u].posted)
    BY <1>1 DEF Steady, Timely
  <2> QED BY <2>1, KeptEmpty
<1>2. Steady => NoTimerEndsShare
  BY <1>1 DEF NoTimerEndsShare
<1> QED BY <1>2, SessionInvariance, PTL

-----------------------------------------------------------------------------
(* One request of one user, a.  It is a token that is in one place at a     *)
(* time: the request for a room, the share server's answer, the callback    *)
(* that brings it, the invitation under way, the page that is asked, the    *)
(* rejection.  Past its place nothing of it is left, and until the other    *)
(* user, who never asks, accepts, no endpoint of his is in use.             *)
Phases == {"none", "queued", "answered", "posted", "sent", "asked", "rejected", "accepted"}

Only(ph, here, t, s) == IF ph = here THEN AtMostOne(t, s) ELSE Without(t, s)

(* the plugin of a, and what the share server has sent its viewer *)
Asking(ph, p, s) ==
  /\ Only(ph, "queued", "CreateRoom", p.V.queue) /\ Only(ph, "answered", "Created", s)
  /\ Only(ph, "posted", "CreateRoom", p.posted) /\ Only(ph, "sent", "Request", p.sent)
  /\ p.requests = 0 => ph = "none"
  /\ "Create" \in p.timers => ph \in {"none", "queued", "answered", "posted"}
  /\ p.V.state = "NULL" => ph = "none"
  /\ Sound(p) /\ ~p.asked /\ Without("Rejected", p.sent)

Uninvited(o) ==
  /\ Idle(o) /\ Without("Accepted", o.sent)
  /\ Without("JoinRoom", o.posted) /\ Without("QuitRoom", o.posted)

(* the plugin of the other *)
Asked(ph, o) ==
  /\ o.asked => ph = "asked"
  /\ Only(ph, "rejected", "Rejected", o.sent)
  /\ ph # "accepted" => Uninvited(o)
  /\ ~o.crashed /\ Resting(o.V) /\ "Create" \notin o.timers
  /\ Without("Request", o.sent) /\ Without("CreateRoom", o.posted)

Silent(e) == inbox[e] = << >> /\ Outside(e)
Quiet(ph, a) == Silent(<<Peer(a), "V">>) /\ (ph # "accepted" => Silent(<<Peer(a), "S">>))

At(ph, a) ==
  Asking(ph, plugin[a], inbox[<<a, "V">>]) /\ Asked(ph, plugin[Peer(a)]) /\ Quiet(ph, a)
OneRequest(a) == \E ph \in Phases : At(ph, a)

Undisturbed(ph, a) ==
  /\ Kept("Created", inbox[<<a, "V">>], inbox'[<<a, "V">>])
  /\ Quiet(ph, a) => Quiet(ph, a)'

LEMMA OnlyKept ==
  ASSUME NEW ph, NEW here, NEW t, NEW s, NEW s2, Kept(t, s, s2), Only(ph, here, t, s)
  PROVE  Only(ph, here, t, s2)
BY DEF Only, Kept

LEMMA CalmSame == \A p : Calm(p, p)
BY KeptSame DEF Calm

LEMMA CalmAsking ==
  ASSUME NEW ph, NEW p, NEW q, NEW s, NEW s2, Asking(ph, p, s), Calm(p, q), Kept("Created", s, s2)
  PROVE  Asking(ph, q, s2)
<1>1. /\ Only(ph, "queued", "CreateRoom", q.V.queue) /\ Only(ph, "answered", "Created", s2)
      /\ Only(ph, "posted", "CreateRoom", q.posted) /\ Only(ph, "sent", "Request", q.sent)
  BY OnlyKept DEF Asking, Calm
<1>2. Without("Rejected", q.sent)
  BY DEF Asking, Calm, Kept
<1> QED BY <1>1, <1>2 DEF Asking, Calm

LEMMA CalmAsked ==
  ASSUME NEW ph, NEW o, NEW r, Asked(ph, o), Calm(o, r), Resting(o.V) => Resting(r.V),
         ph # "accepted" /\ Uninvited(o) => Uninvited(r)
  PROVE  Asked(ph, r)
<1>1. Only(ph, "rejected", "Rejected", r.sent)
  BY OnlyKept DEF Asked, Calm
<1>2. Without("Request", r.sent) /\ Without("CreateRoom", r.posted)
  BY DEF Asked, Calm, Kept
<1>3. ~r.crashed
  BY DEF Asked, Calm, Sound, Resting
<1> QED BY <1>1, <1>2, <1>3 DEF Asked, Calm

LEMMA PlainAsked ==
  ASSUME NEW o, NEW r, Plain(o, r)
  PROVE  Calm(o, r) /\ (Resting(o.V) => Resting(r.V)) /\ (Uninvited(o) => Uninvited(r))
<1>1. Calm(o, r)
  BY PlainIsCalm
<1> QED BY <1>1 DEF Plain, Idle, Uninvited, Kept

(* The asking plugin changes, or the other: nothing of the request moves. *)
LEMMA OneCalm ==
  ASSUME Typed, NEW a \in Users, NEW ph \in Phases, At(ph, a), NEW q,
         plugin' = [plugin EXCEPT ![a] = q], Calm(plugin[a], q), Undisturbed(ph, a)
  PROVE  OneRequest(a)'
<1>1. plugin'[a] = q /\ plugin'[Peer(a)] = plugin[Peer(a)]
  BY PeerIs DEF Typed
<1>2. Asking(ph, q, inbox'[<<a, "V">>])
  BY CalmAsking DEF At, Undisturbed
<1> QED BY <1>1, <1>2 DEF OneRequest, At, Undisturbed

LEMMA OtherCalm ==
  ASSUME Typed, NEW a \in Users, NEW ph \in Phases, At(ph, a), NEW r,
         plugin' = [plugin EXCEPT ![Peer(a)] = r], Calm(plugin[Peer(a)], r),
         Resting(plugin[Peer(a)].V) => Resting(r.V),
         ph # "accepted" /\ Uninvited(plugin[Peer(a)]) => Uninvited(r),
         Undisturbed(ph, a)
  PROVE  OneRequest(a)'
<1>1. plugin'[a] = plugin[a] /\ plugin'[Peer(a)] = r
  BY PeerIs DEF Typed
<1>2. Asking(ph, plugin[a], inbox'[<<a, "V">>])
  BY CalmSame, CalmAsking DEF At, Undisturbed
<1>3. Asked(ph, r)
  BY CalmAsked DEF At
<1> QED BY <1>1, <1>2, <1>3 DEF OneRequest, At, Undisturbed

LEMMA PlainStep ==
  ASSUME Typed, NEW a \in Users, NEW ph \in Phases, At(ph, a), NEW u \in Users, NEW q,
         plugin' = [plugin EXCEPT ![u] = q], Plain(plugin[u], q), Undisturbed(ph, a)
  PROVE  OneRequest(a)'
<1>1. Calm(plugin[u], q)
  BY PlainIsCalm
<1>2. CASE u = a
  BY <1>1, <1>2, OneCalm
<1>3. CASE u = Peer(a)
  <2>1. /\ Resting(plugin[u].V) => Resting(q.V)
        /\ Uninvited(plugin[u]) => Uninvited(q)
    BY PlainAsked
  <2> QED BY <1>1, <1>3, <2>1, OtherCalm
<1> QED BY <1>2, <1>3, PeerIs

LEMMA EndsOf ==
  ASSUME NEW u \in Users
  PROVE  /\ <<u, "S">> \in Ends /\ <<u, "V">> \in Ends
         /\ <<Peer(u), "S">> \in Ends /\ <<Peer(u), "V">> \in Ends
         /\ <<Peer(u), "S">> # <<u, "V">> /\ <<Peer(u), "V">> # <<u, "V">>
BY PeerIs DEF Ends

LEMMA LeaveUndisturbed ==
  ASSUME Typed, NEW a \in Users, NEW ph, NEW gone \in SUBSET Ends, Leave(gone)
  PROVE  Undisturbed(ph, a) /\ \A e \in gone : inbox'[e] = << >>
<1>1. /\ \A e \in Ends : Kept("Created", inbox[e], inbox'[e])
      /\ \A e \in Ends : Outside(e) => Outside(e)' /\ (inbox[e] = << >> => inbox'[e] = << >>)
      /\ \A e \in gone : inbox'[e] = << >>
  BY LeaveFacts
<1>2. \A e \in Ends : Silent(e) => Silent(e)'
  BY <1>1 DEF Silent
<1>3. Quiet(ph, a) => Quiet(ph, a)'
  BY <1>2, EndsOf DEF Quiet
<1> QED BY <1>1, <1>3, EndsOf DEF Undisturbed

LEMMA BecomesUndisturbed ==
  ASSUME Typed, NEW a \in Users, NEW ph, NEW u, NEW q, Becomes(u, q)
  PROVE  /\ plugin' = [plugin EXCEPT ![u] = q] /\ Undisturbed(ph, a)
         /\ \A e \in Gone(u, q) : inbox'[e] = << >>
<1>1. Gone(u, q) \in SUBSET Ends
  BY DEF Gone
<1> QED BY <1>1, LeaveUndisturbed DEF Becomes

(* A message has been taken that a waiting endpoint cannot have had. *)
LEMMA TakeUndisturbed ==
  ASSUME Typed, NEW a \in Users, NEW ph, NEW e \in Ends, inbox[e] # << >>,
         inbox' = [inbox EXCEPT ![e] = Tail(@)], members' = members
  PROVE  Undisturbed(ph, a)
<1>1. /\ inbox'[e] = Tail(inbox[e]) /\ \A f \in Ends : f # e => inbox'[f] = inbox[f]
      /\ inbox[e] \in Seq(Answers)
  BY DEF Typed
<1>2. \A f \in Ends : Silent(f) => Silent(f)'
  BY <1>1 DEF Silent, Outside
<1>3. Kept("Created", inbox[e], inbox'[e])
  BY <1>1, TakeNote
<1>4. \A f \in Ends : Kept("Created", inbox[f], inbox'[f])
  BY <1>1, <1>3, KeptSame
<1> QED BY <1>2, <1>4, EndsOf DEF Undisturbed, Quiet

LEMMA InitOneRequest ==
  ASSUME Init, NEW a \in Users
  PROVE  OneRequest(a)
<1>1. plugin[a] = Fresh /\ plugin[Peer(a)] = Fresh /\ \A e \in Ends : inbox[e] = << >> /\ Outside(e)
  BY PeerIs DEF Init, Outside
<1>2. \A t : Without(t, << >>)
  BY KeptEmpty
<1>3. /\ Fresh.V.queue = << >> /\ Fresh.S.queue = << >> /\ Fresh.posted = << >>
      /\ Fresh.sent = << >> /\ Fresh.timers = {} /\ Fresh.V.state = "UnInit"
      /\ Fresh.S.state = "UnInit" /\ Fresh.asked = FALSE /\ Fresh.crashed = FALSE
  BY DEF Fresh, End
<1> HIDE DEF Fresh
<1>4. Asking("none", Fresh, << >>)
  BY <1>2, <1>3 DEF Asking, Only, Sound
<1>5. Asked("none", Fresh)
  BY <1>2, <1>3 DEF Asked, Only, Uninvited, Idle, Resting
<1>6. Quiet("none", a)
  BY <1>1, EndsOf DEF Quiet, Silent
<1>7. inbox[<<a, "V">>] = << >>
  BY <1>1, EndsOf
<1> QED BY <1>1, <1>4, <1>5, <1>6, <1>7 DEF OneRequest, At, Phases

-----------------------------------------------------------------------------
(* The token moves.                                                         *)
LEMMA RequestMoves ==
  ASSUME Typed, NEW a \in Users, NEW ph \in Phases, At(ph, a), MaxRequests \leq 1,
         RequestShareDesktop(a)
  PROVE  OneRequest(a)'
<1> DEFINE p == plugin[a]
           o == plugin[Peer(a)]
           e == <<a, "V">>
<1>1. PICK q \in Plugins :
        /\ plugin' = [plugin EXCEPT ![a] = q] /\ Leave({e})
        /\ p.viewer = "Normal" /\ p.requests < MaxRequests /\ q.requests = p.requests + 1
        /\ q.posted = p.posted /\ q.sent = p.sent /\ q.asked = p.asked /\ q.crashed = p.crashed
        /\ \/ /\ q.timers = p.timers \cup {"Create"}
              /\ q.V.state = "RoomCreating" /\ q.V.queue = <<Note("CreateRoom", 0)>>
           \/ /\ q.viewer = p.viewer /\ q.timers = p.timers
              /\ q.V.state = "NULL" /\ q.V.queue = << >>
  BY RequestEffect
<1>2. p.requests = 0 /\ q.requests = 1
  <2>1. p.requests \in Nat /\ MaxRequests \in Nat
    BY SessionAssumption DEF Typed, Plugins
  <2> QED BY <1>1, <2>1
<1>3. Asking("none", p, inbox[e]) /\ Asked("none", o) /\ Quiet("none", a)
  BY <1>2 DEF At, Asking
<1>4. plugin'[a] = q /\ plugin'[Peer(a)] = o
  BY <1>1, PeerIs DEF Typed
<1>5. inbox'[e] = << >> /\ Quiet("none", a)'
  <2>1. {e} \in SUBSET Ends
    BY EndsOf
  <2>2. Undisturbed("none", a) /\ \A f \in {e} : inbox'[f] = << >>
    BY <1>1, <2>1, LeaveUndisturbed
  <2> QED BY <1>3, <2>2 DEF Undisturbed
<1> HIDE DEF p, o
<1>6. \A t : Without(t, << >>)
  BY KeptEmpty
<1>7. CASE /\ q.timers = p.timers \cup {"Create"}
           /\ q.V.state = "RoomCreating" /\ q.V.queue = <<Note("CreateRoom", 0)>>
  <2>1. AtMostOne("CreateRoom", q.V.queue)
    BY <1>7 DEF AtMostOne
  <2>2. Asking("queued", q, << >>)
    BY <1>1, <1>2, <1>3, <1>6, <1>7, <2>1 DEF Asking, Only, Sound
  <2>3. Asked("queued", o)
    BY <1>3 DEF Asked, Only
  <2>4. Quiet("queued", a)'
    BY <1>5 DEF Quiet
  <2> QED BY <1>4, <1>5, <2>2, <2>3, <2>4 DEF OneRequest, At, Phases
<1>8. CASE /\ q.viewer = p.viewer /\ q.timers = p.timers
           /\ q.V.state = "NULL" /\ q.V.queue = << >>
  <2>1. Asking("none", q, << >>)
    BY <1>1, <1>2, <1>3, <1>6, <1>8 DEF Asking, Only, Sound
  <2> QED BY <1>3, <1>4, <1>5, <2>1 DEF OneRequest, At, Phases
<1> QED BY <1>1, <1>7, <1>8

LEMMA AcceptMoves ==
  ASSUME Typed, NEW a \in Users, NEW ph \in Phases, At(ph, a), NEW u \in Users,
         AcceptShareDesktop(u)
  PROVE  OneRequest(a)'
<1> DEFINE o == plugin[Peer(a)]
           e == <<a, "V">>
<1>1. PICK q \in Plugins :
        /\ Becomes(u, q) /\ plugin[u].asked /\ ~q.asked /\ q.posted = plugin[u].posted
        /\ q.viewer = plugin[u].viewer /\ q.V = plugin[u].V /\ q.crashed = plugin[u].crashed
        /\ "Create" \in q.timers => "Create" \in plugin[u].timers
        /\ Kept("Request", plugin[u].sent, q.sent)
        /\ Kept("Rejected", plugin[u].sent, q.sent)
  BY AcceptEffect
<1>2. u = Peer(a) /\ ph = "asked"
  BY <1>1, PeerIs DEF At, Asking, Asked
<1>3. /\ plugin' = [plugin EXCEPT ![Peer(a)] = q] /\ Undisturbed(ph, a)
  BY <1>1, <1>2, BecomesUndisturbed
<1>4. plugin'[a] = plugin[a] /\ plugin'[Peer(a)] = q
  BY <1>3, PeerIs DEF Typed
<1>5. Asking("asked", plugin[a], inbox'[e]) /\ Quiet("asked", a)'
  <2>1. Asking("asked", plugin[a], inbox'[e])
    BY <1>2, <1>3, CalmSame, CalmAsking DEF At, Undisturbed
  <2> QED BY <1>2, <1>3, <2>1 DEF At, Undisturbed
<1>6. Asking("accepted", plugin[a], inbox'[e]) /\ Quiet("accepted", a)'
  BY <1>5 DEF Asking, Only, Quiet
<1>7. Asked("accepted", q)
  BY <1>1, <1>2 DEF At, Asked, Only, Kept
<1> QED BY <1>4, <1>6, <1>7 DEF OneRequest, At, Phases

LEMMA RejectMoves ==
  ASSUME Typed, NEW a \in Users, NEW ph \in Phases, At(ph, a), NEW u \in Users,
         mediaTerminalRejectShareDesktop(u)
  PROVE  OneRequest(a)'
<1> DEFINE o == plugin[Peer(a)]
           e == <<a, "V">>
<1>1. PICK q \in Plugins, r \in RoomIds :
        /\ Becomes(u, q) /\ plugin[u].asked /\ ~q.asked /\ q.posted = plugin[u].posted
        /\ q.V = plugin[u].V /\ q.crashed = plugin[u].crashed
        /\ q.timers = plugin[u].timers /\ q.S = plugin[u].S
        /\ q.sent = Append(plugin[u].sent, Note("Rejected", r))
  BY RejectEffect
<1>2. u = Peer(a) /\ ph = "asked"
  BY <1>1, PeerIs DEF At, Asking, Asked
<1>3. /\ plugin' = [plugin EXCEPT ![Peer(a)] = q] /\ Undisturbed(ph, a)
  BY <1>1, <1>2, BecomesUndisturbed
<1>4. plugin'[a] = plugin[a] /\ plugin'[Peer(a)] = q
  BY <1>3, PeerIs DEF Typed
<1>5. Asking("asked", plugin[a], inbox'[e]) /\ Quiet("asked", a)'
  <2>1. Asking("asked", plugin[a], inbox'[e])
    BY <1>2, <1>3, CalmSame, CalmAsking DEF At, Undisturbed
  <2> QED BY <1>2, <1>3, <2>1 DEF At, Undisturbed
<1>6. Asking("rejected", plugin[a], inbox'[e]) /\ Quiet("rejected", a)'
  BY <1>5 DEF Asking, Only, Quiet
<1>7. /\ Without("Rejected", o.sent) => AtMostOne("Rejected", q.sent)
      /\ Kept("Request", o.sent, q.sent) /\ Kept("Accepted", o.sent, q.sent)
  <2> DEFINE n == Note("Rejected", r)
  <2>1. o.sent \in Seq(Commands)
    BY <1>2 DEF Typed, Plugins
  <2>2. n \in Commands
    BY NoteIs DEF Commands
  <2>3. n.type = "Rejected"
    BY DEF Note
  <2>4. q.sent = Append(o.sent, n)
    BY <1>1, <1>2
  <2> HIDE DEF n, o
  <2> QED BY <2>1, <2>2, <2>3, <2>4, AppendNote
<1>8. Asked("rejected", q)
  <2>1. Asked("asked", o)
    BY <1>2 DEF At
  <2>2. ~q.asked /\ q.posted = o.posted /\ q.V = o.V /\ q.crashed = o.crashed
        /\ q.timers = o.timers /\ q.S = o.S
    BY <1>1, <1>2
  <2> HIDE DEF o
  <2> QED BY <1>7, <2>1, <2>2 DEF Asked, Only, Kept, Uninvited, Idle
<1> QED BY <1>4, <1>6, <1>8 DEF OneRequest, At, Phases

LEMMA TimerMoves ==
  ASSUME Typed, NEW a \in Users, NEW ph \in Phases, At(ph, a), NEW u \in Users, OnTimer(u)
  PROVE  OneRequest(a)'
<1> DEFINE p == plugin[u]
           e == <<a, "V">>
<1>1. PICK q \in Plugins :
        /\ Becomes(u, q) /\ p.posted = << >>
        /\ \/ Plain(p, q)
           \/ /\ q.V.state = "NULL" /\ q.V.queue = << >> /\ q.viewer = "Normal"
              /\ "Create" \in p.timers /\ "Create" \notin q.timers
              /\ q.posted = p.posted /\ q.sent = p.sent
              /\ q.asked = p.asked /\ q.requests = p.requests /\ q.crashed = p.crashed
  BY TimerEffect
<1>2. /\ plugin' = [plugin EXCEPT ![u] = q] /\ Undisturbed(ph, a)
      /\ \A f \in Gone(u, q) : inbox'[f] = << >>
  <2>1. Becomes(u, q)
    BY <1>1
  <2> HIDE DEF p
  <2> QED BY <2>1, BecomesUndisturbed
<1>3. CASE Plain(p, q)
  BY <1>2, <1>3, PlainStep
<1>4. CASE /\ q.V.state = "NULL" /\ q.V.queue = << >> /\ q.viewer = "Normal"
           /\ "Create" \in p.timers /\ "Create" \notin q.timers
           /\ q.posted = p.posted /\ q.sent = p.sent
           /\ q.asked = p.asked /\ q.requests = p.requests /\ q.crashed = p.crashed
  <2>1. u = a
    BY <1>4, PeerIs DEF At, Asked
  <2>2. ph \in {"none", "queued", "answered", "posted"} /\ Asking(ph, p, inbox[e])
    BY <1>4, <2>1 DEF At, Asking
  <2>3. inbox'[e] = << >>
    <3>1. e \in Gone(u, q)
      BY <1>4, <2>1, EndsOf DEF Gone
    <3> QED BY <1>2, <3>1
  <2>4. \A t : Without(t, << >>)
    BY KeptEmpty
  <2>5. Asking("none", q, << >>)
    <3> HIDE DEF p
    <3> QED BY <1>1, <1>4, <2>2, <2>4 DEF Asking, Only, Sound
  <2>6. Asked("none", plugin[Peer(a)])
    BY <2>2 DEF At, Asked, Only
  <2>7. Quiet("none", a)'
    BY <1>2, <2>2 DEF At, Undisturbed, Quiet
  <2>8. plugin'[a] = q /\ plugin'[Peer(a)] = plugin[Peer(a)]
    BY <1>2, <2>1, PeerIs DEF Typed
  <2> QED BY <2>3, <2>5, <2>6, <2>7, <2>8 DEF OneRequest, At, Phases
<1> QED BY <1>1, <1>3, <1>4

LEMMA PoppedCalm ==
  ASSUME NEW p \in Plugins, p.posted # << >>, NEW q, q.posted = Tail(p.posted)
  PROVE  /\ \A t : Kept(t, p.posted, q.posted)
         /\ Plain(Popped(p), q) =>
              Calm(p, q) /\ (Resting(p.V) => Resting(q.V)) /\ (Uninvited(p) => Uninvited(q))
<1> DEFINE r == Popped(p)
<1>1. \A t : Kept(t, p.posted, q.posted)
  BY TakeNote DEF Plugins
<1>2. /\ r.posted = q.posted /\ r.sent = p.sent /\ r.S = p.S /\ r.V = p.V /\ r.asked = p.asked
      /\ r.requests = p.requests /\ r.viewer = p.viewer /\ r.crashed = p.crashed
      /\ r.timers = p.timers
  BY PoppedIs
<1> HIDE DEF r
<1>3. ASSUME Plain(r, q)
      PROVE  Calm(p, q) /\ (Resting(p.V) => Resting(q.V)) /\ (Uninvited(p) => Uninvited(q))
  <2>1. Calm(r, q) /\ (Resting(r.V) => Resting(q.V)) /\ (Uninvited(r) => Uninvited(q))
    BY <1>3, PlainAsked
  <2>2. Calm(p, q)
    BY <1>1, <1>2, <2>1 DEF Calm, Sound
  <2>3. Uninvited(p) => Uninvited(q)
    BY <1>1, <1>2, <2>1 DEF Uninvited, Idle, Kept
  <2> QED BY <1>2, <2>1, <2>2, <2>3
<1> QED BY <1>1, <1>3 DEF r

LEMMA CallbackMoves ==
  ASSUME Typed, NEW a \in Users, NEW ph \in Phases, At(ph, a), NEW u \in Users,
         onVncViewerCallBack(u)
  PROVE  OneRequest(a)'
<1> DEFINE p == plugin[u]
           o == plugin[Peer(a)]
           e == <<a, "V">>
           msg == Head(plugin[u].posted)
<1>0. /\ p \in Plugins /\ p.posted \in Seq(Callbacks) /\ p.sent \in Seq(Commands)
      /\ Users = {a, Peer(a)} /\ Peer(a) # a
  BY PeerIs DEF Typed, Plugins
<1>1. PICK q \in Plugins :
        /\ Becomes(u, q) /\ p.posted # << >> /\ q.posted = Tail(p.posted)
        /\ \/ /\ msg.type = "CreateRoom"
              /\ p.V.state # "NULL" => Plain(Popped(p), q)
           \/ /\ msg.type \in {"CreateRoom", "JoinRoom"}
              /\ q.S = p.S /\ q.V = p.V /\ q.asked = p.asked /\ q.requests = p.requests
              /\ q.viewer = p.viewer /\ q.crashed = p.crashed
              /\ q.timers = p.timers \ {IF msg.type = "JoinRoom" THEN "Join" ELSE "Create"}
              /\ \E r \in RoomIds :
                   q.sent = Append(p.sent, Note(IF msg.type = "JoinRoom" THEN "Accepted"
                                                                         ELSE "Request", r))
           \/ msg.type \in {"RoomClosed", "QuitRoom"} /\ Plain(Popped(p), q)
  BY CallbackEffect
<1>2. plugin' = [plugin EXCEPT ![u] = q] /\ Undisturbed(ph, a)
  <2>1. Becomes(u, q)
    BY <1>1
  <2> HIDE DEF p
  <2> QED BY <2>1, BecomesUndisturbed
<1>3. plugin'[u] = q /\ \A w \in Users : w # u => plugin'[w] = plugin[w]
  BY <1>2 DEF Typed
<1>4. /\ Kept("CreateRoom", p.posted, q.posted) /\ Kept("JoinRoom", p.posted, q.posted)
      /\ Plain(Popped(p), q) =>
           Calm(p, q) /\ (Resting(p.V) => Resting(q.V)) /\ (Uninvited(p) => Uninvited(q))
  BY <1>0, <1>1, PoppedCalm
<1>5. CASE Plain(Popped(p), q) /\ msg.type # "CreateRoom"
  <2>1. CASE u = a
    BY <1>2, <1>4, <1>5, <2>1, OneCalm
  <2>2. CASE u = Peer(a)
    BY <1>2, <1>4, <1>5, <2>2, OtherCalm
  <2> QED BY <1>0, <2>1, <2>2
<1>6. CASE msg.type = "JoinRoom"
  <2>1. PICK r \in RoomIds : q.sent = Append(p.sent, Note("Accepted", r))
    BY <1>1, <1>6
  <2>2. /\ q.S = p.S /\ q.V = p.V /\ q.asked = p.asked /\ q.requests = p.requests
        /\ q.viewer = p.viewer /\ q.crashed = p.crashed /\ q.timers = p.timers \ {"Join"}
    BY <1>1, <1>6
  <2>3. Kept("Request", p.sent, q.sent) /\ Kept("Rejected", p.sent, q.sent)
    <3> DEFINE n == Note("Accepted", r)
    <3>1. n \in Commands
      BY NoteIs DEF Commands
    <3>2. n.type = "Accepted"
      BY DEF Note
    <3> HIDE DEF n, p
    <3> QED BY <1>0, <2>1, <3>1, <3>2, AppendNote DEF n
  <2>4. Calm(p, q)
    <3> HIDE DEF p
    <3> QED BY <1>4, <2>2, <2>3, KeptSame DEF Calm, Sound
  <2>5. CASE u = a
    BY <1>2, <2>4, <2>5, OneCalm
  <2>6. CASE u = Peer(a)
    <3>1. ~Without("JoinRoom", p.posted)
      BY <1>0, <1>1, <1>6, TakeNote
    <3>2. ph = "accepted"
      BY <2>6, <3>1 DEF At, Asked, Uninvited, Idle
    <3> QED BY <1>2, <2>2, <2>4, <2>6, <3>2, OtherCalm
  <2> QED BY <1>0, <2>5, <2>6
<1>7. CASE msg.type = "CreateRoom"
  <2>1. ~Without("CreateRoom", p.posted) /\ (AtMostOne("CreateRoom", p.posted) => Without("CreateRoom", q.posted))
    BY <1>0, <1>1, <1>7, TakeNote
  <2>2. u = a /\ ph = "posted"
    BY <1>0, <2>1 DEF At, Asking, Asked, Only
  <2>3. /\ Asking("posted", p, inbox'[e]) /\ Asked("posted", o) /\ Quiet("posted", a)'
    <3>1. Asking("posted", p, inbox'[e])
      BY <1>2, <2>2, CalmSame, CalmAsking DEF At, Undisturbed
    <3> QED BY <1>2, <2>2, <3>1 DEF At, Undisturbed
  <2>4. plugin'[a] = q /\ plugin'[Peer(a)] = o
    BY <1>0, <1>3, <2>2
  <2>5. Without("CreateRoom", q.posted)
    BY <2>1, <2>3 DEF Asking, Only
  <2>6. p.V.state # "NULL" /\ p.requests # 0
    BY <2>3 DEF Asking
  <2>7. CASE Plain(Popped(p), q)
    <3>1. Asking("posted", q, inbox'[e])
      <4>1. Calm(p, q)
        BY <1>4, <2>7
      <4> QED BY <2>3, <4>1, KeptSame, CalmAsking
    <3>2. Asking("none", q, inbox'[e])
      BY <2>5, <3>1 DEF Asking, Only
    <3>3. Asked("none", o) /\ Quiet("none", a)'
      <4> HIDE DEF o
      <4> QED BY <2>3 DEF Asked, Only, Quiet
    <3> QED BY <2>4, <3>2, <3>3 DEF OneRequest, At, Phases
  <2>8. CASE /\ q.V = p.V /\ q.asked = p.asked /\ q.requests = p.requests
             /\ q.viewer = p.viewer /\ q.crashed = p.crashed
             /\ q.timers = p.timers \ {"Create"}
             /\ \E r \in RoomIds : q.sent = Append(p.sent, Note("Request", r))
    <3>1. PICK r \in RoomIds : q.sent = Append(p.sent, Note("Request", r))
      BY <2>8
    <3>2. /\ Without("Request", p.sent) => AtMostOne("Request", q.sent)
          /\ Kept("Rejected", p.sent, q.sent)
      <4> DEFINE n == Note("Request", r)
      <4>1. n \in Commands
        BY NoteIs DEF Commands
      <4>2. n.type = "Request"
        BY DEF Note
      <4> HIDE DEF n, p
      <4> QED BY <1>0, <3>1, <4>1, <4>2, AppendNote DEF n
    <3>3. Asking("sent", q, inbox'[e])
      <4> HIDE DEF p, o, msg, e
      <4> QED BY <2>3, <2>5, <2>6, <2>8, <3>2 DEF Asking, Only, Kept, Sound
    <3>4. Asked("sent", o) /\ Quiet("sent", a)'
      <4> HIDE DEF o
      <4> QED BY <2>3 DEF Asked, Only, Quiet
    <3> QED BY <2>4, <3>3, <3>4 DEF OneRequest, At, Phases
  <2> QED BY <1>1, <1>7, <2>6, <2>7, <2>8
<1> QED BY <1>1, <1>5, <1>6, <1>7

LEMMA BothCalm ==
  ASSUME NEW a \in Users, NEW ph \in Phases, At(ph, a), NEW q, NEW r,
         plugin'[a] = q, plugin'[Peer(a)] = r, Calm(plugin[a], q), Calm(plugin[Peer(a)], r),
         Resting(plugin[Peer(a)].V) => Resting(r.V),
         ph # "accepted" /\ Uninvited(plugin[Peer(a)]) => Uninvited(r),
         Undisturbed(ph, a)
  PROVE  OneRequest(a)'
<1>1. Asking(ph, q, inbox'[<<a, "V">>])
  BY CalmAsking DEF At, Undisturbed
<1>2. Asked(ph, r)
  BY CalmAsked DEF At
<1> QED BY <1>1, <1>2 DEF OneRequest, At, Undisturbed

(* The sender of a command. *)
LEMMA SentCalm ==
  ASSUME NEW o \in Plugins, NEW r \in Plugins, o.sent # << >>, r.sent = Tail(o.sent),
         r.posted = o.posted, r.S = o.S, r.V = o.V, r.asked = o.asked,
         r.requests = o.requests, r.viewer = o.viewer, r.crashed = o.crashed,
         r.timers = o.timers
  PROVE  Calm(o, r) /\ (Uninvited(o) => Uninvited(r))
<1>1. /\ Kept("Request", o.sent, r.sent) /\ Kept("Rejected", o.sent, r.sent)
      /\ Kept("Accepted", o.sent, r.sent)
  BY TakeNote DEF Plugins
<1> QED BY <1>1, KeptSame DEF Calm, Sound, Uninvited, Idle, Kept

(* The requester handles a command of the other. *)
LEMMA AnswerMoves ==
  ASSUME Typed, NEW a \in Users, NEW ph \in Phases, At(ph, a), handleVncCmd(a)
  PROVE  OneRequest(a)'
<1> DEFINE p == plugin[a]
           o == plugin[Peer(a)]
           e == <<a, "V">>
           cmd == Head(plugin[Peer(a)].sent)
<1>1. PICK q \in Plugins, r \in Plugins :
        /\ plugin'[a] = q /\ plugin'[Peer(a)] = r /\ Leave(Gone(a, q))
        /\ o.sent # << >> /\ r.sent = Tail(o.sent)
        /\ r.posted = o.posted /\ r.S = o.S /\ r.V = o.V /\ r.asked = o.asked
        /\ r.requests = o.requests /\ r.viewer = o.viewer /\ r.crashed = o.crashed
        /\ r.timers = o.timers
        /\ \/ Plain(p, q)
           \/ /\ cmd.type \in {"Request", "Accepted"}
              /\ cmd.type = "Accepted" => q.asked = p.asked
              /\ q.posted = p.posted /\ q.V = p.V /\ q.timers = p.timers
              /\ q.requests = p.requests /\ q.crashed = p.crashed /\ q.sent = p.sent
           \/ /\ cmd.type = "Rejected"
              /\ q.V.state = "NULL" /\ q.V.queue = << >> /\ q.viewer = "Normal"
              /\ q.posted = p.posted /\ q.sent = p.sent /\ q.asked = p.asked
              /\ q.requests = p.requests /\ q.crashed = p.crashed /\ q.timers = p.timers
  BY CmdEffect
<1>2. o \in Plugins /\ o.sent \in Seq(Commands)
  BY PeerIs DEF Typed, Plugins
<1>3. Calm(o, r) /\ (Uninvited(o) => Uninvited(r)) /\ r.V = o.V
  <2> HIDE DEF o
  <2> QED BY <1>1, <1>2, SentCalm
<1>4. Undisturbed(ph, a) /\ \A f \in Gone(a, q) : inbox'[f] = << >>
  <2>1. Gone(a, q) \in SUBSET Ends /\ Leave(Gone(a, q))
    BY <1>1 DEF Gone
  <2> QED BY <2>1, LeaveUndisturbed
<1>5. CASE Plain(p, q)
  <2>1. Calm(p, q)
    BY <1>5, PlainIsCalm
  <2> QED BY <1>1, <1>3, <1>4, <2>1, BothCalm
<1>6. CASE cmd.type = "Request"
  BY <1>1, <1>2, <1>6, TakeNote DEF At, Asked
<1>7. CASE /\ cmd.type = "Accepted" /\ q.asked = p.asked
           /\ q.posted = p.posted /\ q.V = p.V /\ q.timers = p.timers
           /\ q.requests = p.requests /\ q.crashed = p.crashed /\ q.sent = p.sent
  <2>1. ~Without("Accepted", o.sent)
    BY <1>1, <1>2, <1>7, TakeNote
  <2>2. ph = "accepted"
    BY <2>1 DEF At, Asked, Uninvited, Idle
  <2>3. p.V.state # "NULL"
    BY <2>2 DEF At, Asking
  <2>4. Calm(p, q)
    BY <1>7, <2>3, KeptSame DEF Calm, Sound
  <2> QED BY <1>1, <1>3, <1>4, <2>4, BothCalm
<1>8. CASE /\ cmd.type = "Rejected"
           /\ q.V.state = "NULL" /\ q.V.queue = << >> /\ q.viewer = "Normal"
           /\ q.posted = p.posted /\ q.sent = p.sent /\ q.asked = p.asked
           /\ q.requests = p.requests /\ q.crashed = p.crashed /\ q.timers = p.timers
  <2>1. ~Without("Rejected", o.sent) /\ (AtMostOne("Rejected", o.sent) => Without("Rejected", r.sent))
    BY <1>1, <1>2, <1>8, TakeNote
  <2>2. ph = "rejected"
    BY <2>1 DEF At, Asked, Only
  <2>3. inbox'[e] = << >>
    <3>1. e \in Gone(a, q)
      BY <1>8, EndsOf DEF Gone
    <3> QED BY <1>4, <3>1
  <2>4. \A t : Without(t, << >>)
    BY KeptEmpty
  <2>5. Asking("rejected", p, inbox[e]) /\ Asked("rejected", o) /\ Quiet("rejected", a)'
    BY <1>4, <2>2 DEF At, Undisturbed
  <2>6. Asking("none", q, << >>)
    <3> HIDE DEF p
    <3> QED BY <1>8, <2>4, <2>5 DEF Asking, Only, Sound
  <2>7. Asked("rejected", r)
    BY <1>3, <2>5, CalmAsked
  <2>8. Without("Rejected", r.sent)
    BY <2>1, <2>5 DEF Asked, Only
  <2>9. Asked("none", r)
    BY <2>7, <2>8 DEF Asked, Only
  <2>10. Quiet("none", a)'
    BY <2>5 DEF Quiet
  <2> QED BY <1>1, <2>3, <2>6, <2>9, <2>10 DEF OneRequest, At, Phases
<1> QED BY <1>1, <1>5, <1>6, <1>7, <1>8

(* The other user handles a command of the requester. *)
LEMMA InvitationMoves ==
  ASSUME Typed, NEW a \in Users, NEW ph \in Phases, At(ph, a), handleVncCmd(Peer(a))
  PROVE  OneRequest(a)'
<1> DEFINE p == plugin[a]
           o == plugin[Peer(a)]
           e == <<a, "V">>
           cmd == Head(plugin[a].sent)
<1>0. Peer(a) \in Users /\ Peer(Peer(a)) = a
  BY PeerIs
<1>1. PICK q \in Plugins, r \in Plugins :
        /\ plugin'[Peer(a)] = q /\ plugin'[a] = r /\ Leave(Gone(Peer(a), q))
        /\ p.sent # << >> /\ r.sent = Tail(p.sent)
        /\ r.posted = p.posted /\ r.S = p.S /\ r.V = p.V /\ r.asked = p.asked
        /\ r.requests = p.requests /\ r.viewer = p.viewer /\ r.crashed = p.crashed
        /\ r.timers = p.timers
        /\ \/ Plain(o, q)
           \/ /\ cmd.type \in {"Request", "Accepted"}
              /\ cmd.type = "Accepted" => q.asked = o.asked
              /\ q.posted = o.posted /\ q.S = o.S /\ q.V = o.V /\ q.timers = o.timers
              /\ q.requests = o.requests /\ q.crashed = o.crashed /\ q.sent = o.sent
           \/ cmd.type = "Rejected"
  <2>1. handleVncCmd(Peer(a))
    OBVIOUS
  <2> DEFINE w == Peer(a)
  <2>2. PICK q \in Plugins, r \in Plugins :
        /\ plugin'[w] = q /\ plugin'[Peer(w)] = r /\ Leave(Gone(w, q))
        /\ plugin[Peer(w)].sent # << >> /\ r.sent = Tail(plugin[Peer(w)].sent)
        /\ r.posted = plugin[Peer(w)].posted /\ r.S = plugin[Peer(w)].S
        /\ r.V = plugin[Peer(w)].V /\ r.asked = plugin[Peer(w)].asked
        /\ r.requests = plugin[Peer(w)].requests /\ r.viewer = plugin[Peer(w)].viewer
        /\ r.crashed = plugin[Peer(w)].crashed /\ r.timers = plugin[Peer(w)].timers
        /\ \/ Plain(plugin[w], q)
           \/ /\ Head(plugin[Peer(w)].sent).type \in {"Request", "Accepted"}
              /\ Head(plugin[Peer(w)].sent).type = "Accepted" => q.asked = plugin[w].asked
              /\ q.posted = plugin[w].posted /\ q.S = plugin[w].S /\ q.V = plugin[w].V
              /\ q.timers = plugin[w].timers /\ q.requests = plugin[w].requests
              /\ q.crashed = plugin[w].crashed /\ q.sent = plugin[w].sent
           \/ Head(plugin[Peer(w)].sent).type = "Rejected"
    BY <1>0, <2>1, CmdEffect
  <2> QED BY <1>0, <2>2
<1>2. p \in Plugins /\ p.sent \in Seq(Commands)
  BY DEF Typed, Plugins
<1>3. Calm(p, r)
  <2> HIDE DEF p
  <2> QED BY <1>1, <1>2, SentCalm
<1>4. Undisturbed(ph, a)
  <2>1. Gone(Peer(a), q) \in SUBSET Ends /\ Leave(Gone(Peer(a), q))
    BY <1>1 DEF Gone
  <2> QED BY <2>1, LeaveUndisturbed
<1>5. CASE Plain(o, q)
  <2>1. Calm(o, q) /\ (Resting(o.V) => Resting(q.V)) /\ (Uninvited(o) => Uninvited(q))
    BY <1>5, PlainAsked
  <2> QED BY <1>1, <1>3, <1>4, <2>1, BothCalm
<1>6. CASE cmd.type = "Rejected"
  BY <1>1, <1>2, <1>6, TakeNote DEF At, Asking
<1>7. CASE /\ cmd.type = "Accepted" /\ q.asked = o.asked
           /\ q.posted = o.posted /\ q.S = o.S /\ q.V = o.V /\ q.timers = o.timers
           /\ q.requests = o.requests /\ q.crashed = o.crashed /\ q.sent = o.sent
  <2>1. o.V.state # "NULL"
    BY DEF At, Asked, Resting
  <2>2. Calm(o, q) /\ (Uninvited(o) => Uninvited(q))
    BY <1>7, <2>1, KeptSame DEF Calm, Sound, Uninvited, Idle
  <2> QED BY <1>1, <1>3, <1>4, <1>7, <2>2, BothCalm
<1>8. CASE /\ cmd.type = "Request"
           /\ q.posted = o.posted /\ q.S = o.S /\ q.V = o.V /\ q.timers = o.timers
           /\ q.requests = o.requests /\ q.crashed = o.crashed /\ q.sent = o.sent
  <2>1. ~Without("Request", p.sent) /\ (AtMostOne("Request", p.sent) => Without("Request", r.sent))
    BY <1>1, <1>2, <1>8, TakeNote
  <2>2. ph = "sent"
    BY <2>1 DEF At, Asking, Only
  <2>3. Asking("sent", p, inbox[e]) /\ Asked("sent", o) /\ Quiet("sent", a)'
    BY <1>4, <2>2 DEF At, Undisturbed
  <2>4. Asking("sent", r, inbox'[e])
    BY <1>3, <1>4, <2>3, CalmAsking DEF Undisturbed
  <2>5. Without("Request", r.sent)
    BY <2>1, <2>3 DEF Asking, Only
  <2>6. Asking("asked", r, inbox'[e]) /\ Quiet("asked", a)'
    BY <2>3, <2>4, <2>5 DEF Asking, Only, Quiet
  <2>7. Asked("asked", q)
    <3> HIDE DEF o
    <3> QED BY <1>8, <2>3 DEF Asked, Only, Uninvited, Idle
  <2> QED BY <1>1, <2>6, <2>7 DEF OneRequest, At, Phases
<1> QED BY <1>1, <1>5, <1>6, <1>7, <1>8

LEMMA SharerMoves ==
  ASSUME Typed, NEW a \in Users, NEW ph \in Phases, At(ph, a), NEW u \in Users, ServerHandles(u)
  PROVE  OneRequest(a)'
<1>1. PICK q \in Plugins :
        /\ plugin' = [plugin EXCEPT ![u] = q] /\ inbox[<<u, "S">>] # << >>
        /\ inbox' = [inbox EXCEPT ![<<u, "S">>] = Tail(@)] /\ members' = members
        /\ Calm(plugin[u], q) /\ (Resting(plugin[u].V) => Resting(q.V))
  BY ServerEffect
<1>2. Undisturbed(ph, a)
  BY <1>1, EndsOf, TakeUndisturbed
<1>3. CASE u = a
  BY <1>1, <1>2, <1>3, OneCalm
<1>4. CASE u = Peer(a)
  <2>1. ph = "accepted"
    BY <1>1, <1>4 DEF At, Quiet, Silent
  <2> QED BY <1>1, <1>2, <1>4, <2>1, OtherCalm
<1> QED BY <1>3, <1>4, PeerIs

LEMMA ViewerMoves ==
  ASSUME Typed, NEW a \in Users, NEW ph \in Phases, At(ph, a), NEW u \in Users, ViewerHandles(u)
  PROVE  OneRequest(a)'
<1> DEFINE p == plugin[a]
           o == plugin[Peer(a)]
           e == <<a, "V">>
<1>0. inbox[<<Peer(a), "V">>] = << >> /\ e \in Ends /\ inbox[e] \in Seq(Answers)
  BY EndsOf DEF At, Quiet, Silent, Typed
<1>1. u = a
  <2>1. inbox[<<u, "V">>] # << >>
    BY DEF ViewerHandles
  <2> QED BY <1>0, <2>1, PeerIs
<1>2. PICK q \in Plugins :
        /\ plugin' = [plugin EXCEPT ![a] = q] /\ inbox[e] # << >>
        /\ inbox' = [inbox EXCEPT ![e] = Tail(@)] /\ members' = members
        /\ \/ Calm(p, q)
           \/ /\ Head(inbox[e]).type = "Created"
              /\ q.requests = p.requests /\ q.asked = p.asked /\ q.timers = p.timers
              /\ q.V.state # "NULL" /\ q.crashed = p.crashed
              /\ q.V.queue = p.V.queue /\ q.sent = p.sent
              /\ Without("CreateRoom", p.posted) => AtMostOne("CreateRoom", q.posted)
  BY <1>1, ViewerEffect
<1>3. Undisturbed(ph, a)
  <2> HIDE DEF e
  <2> QED BY <1>0, <1>2, TakeUndisturbed
<1>4. CASE Calm(p, q)
  BY <1>2, <1>3, <1>4, OneCalm
<1>5. CASE /\ Head(inbox[e]).type = "Created"
           /\ q.requests = p.requests /\ q.asked = p.asked /\ q.timers = p.timers
           /\ q.V.state # "NULL" /\ q.crashed = p.crashed
           /\ q.V.queue = p.V.queue /\ q.sent = p.sent
           /\ Without("CreateRoom", p.posted) => AtMostOne("CreateRoom", q.posted)
  <2> DEFINE s == inbox[e]
  <2>1. ~Without("Created", s) /\ (AtMostOne("Created", s) => Without("Created", Tail(s)))
    <3>1. s \in Seq(Answers) /\ s # << >> /\ Head(s).type = "Created"
      BY <1>0, <1>2, <1>5
    <3> HIDE DEF s
    <3> QED BY <3>1, TakeNote
  <2>2. inbox'[e] = Tail(s)
    BY <1>0, <1>2 DEF Typed
  <2>3. ph = "answered"
    BY <2>1 DEF At, Asking, Only
  <2>4. Asking("answered", p, s) /\ Asked("answered", o) /\ Quiet("answered", a)'
    BY <1>3, <2>3 DEF At, Undisturbed
  <2>5. plugin'[a] = q /\ plugin'[Peer(a)] = o
    BY <1>2, PeerIs DEF Typed
  <2> HIDE DEF p, o, s, e
  <2>6. Asking("posted", q, Tail(s))
    BY <1>5, <2>1, <2>4 DEF Asking, Only, Sound
  <2>7. Asked("posted", o) /\ Quiet("posted", a)'
    BY <2>4 DEF Asked, Only, Quiet
  <2> QED BY <2>2, <2>5, <2>6, <2>7 DEF OneRequest, At, Phases, o, e
<1> QED BY <1>2, <1>4, <1>5

LEMMA ShareServerMoves ==
  ASSUME Typed, NEW a \in Users, NEW ph \in Phases, At(ph, a),
         NEW u \in Users, NEW x \in {"S", "V"}, ShareServer(<<u, x>>)
  PROVE  OneRequest(a)'
<1> DEFINE p == plugin[u]
           e == <<u, x>>
           m == Head(p[x].queue)
<1>0. e \in Ends /\ p \in Plugins
  BY DEF Ends, Typed
<1>1. PICK q \in Plugins :
        /\ plugin' = [plugin EXCEPT ![u] = q]
        /\ p[x].queue # << >> /\ (x = "S" => m.type # "CreateRoom")
        /\ Calm(p, q) /\ q.posted = p.posted /\ q.sent = p.sent
        /\ x = "S" => q.V = p.V
        /\ x = "V" => q.V.queue = Tail(p.V.queue)
        /\ \A y \in Ends \ {e} :
             /\ Kept("Created", inbox[y], inbox'[y]) /\ Echo(inbox[y], inbox'[y])
             /\ Outside(y) => Outside(y)' /\ inbox'[y] = inbox[y]
        /\ m.type # "CreateRoom" => Kept("Created", inbox[e], inbox'[e])
        /\ Without("Created", inbox[e]) => AtMostOne("Created", inbox'[e])
  BY ShareServerEffect
<1>2. \A y \in Ends \ {e} : Silent(y) => Silent(y)'
  BY <1>1 DEF Silent
<1>3. CASE u = Peer(a)
  <2>1. x = "S" /\ ph = "accepted"
    BY <1>1, <1>3 DEF At, Asked, Resting, Uninvited, Idle
  <2>2. e # <<a, "V">> /\ <<Peer(a), "V">> # e
    BY <1>3, <2>1
  <2>3. Quiet(ph, a) => Quiet(ph, a)'
    BY <1>2, <2>1, <2>2, EndsOf DEF Quiet
  <2>4. Undisturbed(ph, a)
    BY <1>1, <2>2, <2>3, EndsOf DEF Undisturbed
  <2> QED BY <1>1, <1>3, <2>1, <2>4, OtherCalm
<1>4. CASE u = a
  <2>1. e # <<Peer(a), "V">> /\ e # <<Peer(a), "S">>
    BY <1>4, PeerIs
  <2>2. Quiet(ph, a) => Quiet(ph, a)'
    BY <1>2, <2>1, EndsOf DEF Quiet
  <2>3. CASE m.type # "CreateRoom" \/ x = "S"
    <3>1. Kept("Created", inbox[<<a, "V">>], inbox'[<<a, "V">>])
      <4>1. CASE e = <<a, "V">>
        <5>1. m.type # "CreateRoom"
          BY <2>3, <4>1
        <5> QED BY <1>1, <4>1, <5>1
      <4>2. CASE e # <<a, "V">>
        BY <1>1, <4>2, EndsOf
      <4> QED BY <4>1, <4>2
    <3>2. Undisturbed(ph, a)
      BY <2>2, <3>1 DEF Undisturbed
    <3> QED BY <1>1, <1>4, <3>2, OneCalm
  <2>4. CASE m.type = "CreateRoom" /\ x = "V"
    <3>1. p[x] = p.V /\ p.V.queue \in Seq(Requests)
      BY <1>0, <2>4 DEF Plugins, ViewerEnds
    <3>2. /\ ~Without("CreateRoom", p.V.queue)
          /\ AtMostOne("CreateRoom", p.V.queue) => Without("CreateRoom", q.V.queue)
      <4> DEFINE s == p.V.queue
      <4>1. s \in Seq(Requests) /\ s # << >> /\ Head(s).type = "CreateRoom"
        BY <1>1, <2>4, <3>1
      <4>2. q.V.queue = Tail(s)
        BY <1>1, <2>4
      <4> HIDE DEF s
      <4>3. ~Without("CreateRoom", s) /\ (AtMostOne("CreateRoom", s) => Without("CreateRoom", Tail(s)))
        BY <4>1, TakeNote
      <4> QED BY <4>2, <4>3 DEF s
    <3>3. ph = "queued"
      BY <1>4, <3>2 DEF At, Asking, Only
    <3>4. Asking("queued", p, inbox[e]) /\ Asked("queued", plugin[Peer(a)]) /\ Quiet("queued", a)'
      BY <1>4, <2>2, <2>4, <3>3 DEF At
    <3>5. Asking("queued", q, inbox[e])
      BY <1>1, <3>4, KeptSame, CalmAsking
    <3>6. plugin'[a] = q /\ plugin'[Peer(a)] = plugin[Peer(a)]
      BY <1>1, <1>4, PeerIs DEF Typed
    <3>7. AtMostOne("Created", inbox'[e])
      BY <1>1, <3>4 DEF Asking, Only
    <3>8. Without("CreateRoom", q.V.queue)
      BY <3>2, <3>4 DEF Asking, Only
    <3>9. Asking("answered", q, inbox'[e])
      BY <3>5, <3>7, <3>8 DEF Asking, Only
    <3>10. Asked("answered", plugin[Peer(a)]) /\ Quiet("answered", a)'
      BY <3>4 DEF Asked, Only, Quiet
    <3> QED BY <1>4, <2>4, <3>6, <3>9, <3>10 DEF OneRequest, At, Phases
  <2> QED BY <2>3, <2>4
<1> QED BY <1>3, <1>4, PeerIs

LEMMA ReconnectMoves ==
  ASSUME Typed, NEW a \in Users, NEW ph \in Phases, At(ph, a),
         NEW u \in Users, NEW x \in {"S", "V"}, Reconnects(<<u, x>>)
  PROVE  OneRequest(a)'
<1>1. PICK q \in Plugins :
        /\ plugin' = [plugin EXCEPT ![u] = q] /\ Leave({<<u, x>>})
        /\ plugin[u][x].state \notin {"UnInit", "NULL"} /\ Calm(plugin[u], q)
        /\ x = "S" => q.V = plugin[u].V
  BY ReconnectEffect
<1>2. Undisturbed(ph, a)
  <2>1. {<<u, x>>} \in SUBSET Ends
    BY DEF Ends
  <2> QED BY <1>1, <2>1, LeaveUndisturbed
<1>3. CASE u = a
  BY <1>1, <1>2, <1>3, OneCalm
<1>4. CASE u = Peer(a)
  <2>1. x = "S" /\ ph = "accepted"
    BY <1>1, <1>4 DEF At, Asked, Resting, Uninvited, Idle
  <2> QED BY <1>1, <1>2, <1>4, <2>1, OtherCalm
<1> QED BY <1>3, <1>4, PeerIs

LEMMA RoomCloseMoves ==
  ASSUME Typed, NEW a \in Users, NEW ph \in Phases, At(ph, a), RoomCloses
  PROVE  OneRequest(a)'
<1>1. /\ plugin' = plugin
      /\ \A e \in Ends :
           /\ Kept("Created", inbox[e], inbox'[e])
           /\ Outside(e) => Outside(e)' /\ inbox'[e] = inbox[e]
  BY RoomClosesEffect
<1>2. \A e \in Ends : Silent(e) => Silent(e)'
  BY <1>1 DEF Silent
<1>3. Undisturbed(ph, a)
  BY <1>1, <1>2, EndsOf DEF Undisturbed, Quiet
<1> QED BY <1>1, <1>3, CalmSame, BothCalm

LEMMA OneRequestStep ==
  ASSUME NEW a \in Users, Requesters \subseteq {a}, MaxRequests \leq 1,
         Typed, OneRequest(a), [Next]_vars
  PROVE  OneRequest(a)'
<1>1. PICK ph \in Phases : At(ph, a)
  BY DEF OneRequest
<1>2. ASSUME NEW u \in Requesters, RequestShareDesktop(u) PROVE OneRequest(a)'
  <2>1. u = a
    BY <1>2
  <2> QED BY <1>1, <1>2, <2>1, RequestMoves
<1>3. ASSUME NEW u \in Users, StopShareDesktop(u) PROVE OneRequest(a)'
  <2>1. PICK q \in Plugins : Becomes(u, q) /\ Plain(plugin[u], q)
    BY <1>3, StopEffect
  <2> QED BY <1>1, <2>1, BecomesUndisturbed, PlainStep
<1>4. ASSUME NEW u \in Users, handleVncCmd(u) PROVE OneRequest(a)'
  BY <1>1, <1>4, PeerIs, AnswerMoves, InvitationMoves
<1>5. CASE UNCHANGED vars
  <2>1. plugin' = plugin /\ inbox' = inbox /\ members' = members
    BY <1>5 DEF vars
  <2> QED BY <1>1, <2>1 DEF OneRequest, At, Quiet, Silent, Outside
<1> QED
  BY <1>1, <1>2, <1>3, <1>4, <1>5, Steps, AcceptMoves, RejectMoves, TimerMoves,
     CallbackMoves, SharerMoves, ViewerMoves, ShareServerMoves, ReconnectMoves, RoomCloseMoves

(* A page that asks once, of a peer that does not ask, never makes its own  *)
(* plugin or the other use the NULL pointer of a viewer that was deleted:   *)
(* no callback, stop or timer of the request is left when one of the three  *)
(* places deletes it.                                                       *)
THEOREM OneRequestIsSafe ==
  ASSUME NEW a \in Users, Requesters \subseteq {a}, MaxRequests \leq 1
  PROVE  Spec => []NeverNull
<1>1. Init => OneRequest(a)
  BY InitOneRequest
<1>2. Steady /\ OneRequest(a) /\ [Next]_vars => OneRequest(a)'
  BY OneRequestStep DEF Steady
<1>3. OneRequest(a) => NeverNull
  BY PeerIs DEF OneRequest, At, Asking, Asked, Sound, NeverNull, Crashed
<1> QED BY <1>1, <1>2, <1>3, SessionInvariance, PTL DEF Spec

-----------------------------------------------------------------------------
(* A desktop that is shared is known to be: what becomes of the share of p, *)
(* which has s in its sharer's inbox, after n connections broke.  The end   *)
(* of the share is under way, or its callback is, or the plugin counts it.  *)
Pending(p, s) == ~Without("QuitRoom", p.S.queue) \/ ~Without("Quit", s)
Joins(p, s)   == ~Without("JoinRoom", p.S.queue) \/ ~Without("Joined", s)

Heard(p, s, n) ==
  p.S.state = "Sharing" =>
    \/ ~Without("JoinRoom", p.posted) \/ Pending(p, s)
    \/ p.server = "Sharing" /\ (n = 0 => p.told)

(* Unless a connection breaks, a sharer joins once: no quit of an earlier   *)
(* session can then take the page's word back.                              *)
JoinsOnce(p, s) ==
  /\ AtMostOne("JoinRoom", p.S.queue) /\ AtMostOne("Joined", s)
  /\ Without("JoinRoom", p.S.queue) \/ Without("Joined", s)
  /\ Joins(p, s) =>
       /\ p.S.state # "Sharing" /\ ~Pending(p, s)
       /\ "Quit" \notin p.timers /\ Without("QuitRoom", p.posted)
  /\ p.S.state = "Sharing" =>
       Without("QuitRoom", p.posted) /\ ("Quit" \in p.timers => Pending(p, s))

Fate(p, s, n) == Heard(p, s, n) /\ (n = 0 => JoinsOnce(p, s))

(* The sharer is let go, or loses its messages with its connection. *)
LEMMA FateResting == \A p, n : Resting(p.S) => Fate(p, << >>, n)
<1>1. \A t : Without(t, << >>) /\ AtMostOne(t, << >>)
  BY KeptEmpty DEF AtMostOne
<1> QED BY <1>1 DEF Resting, Fate, Heard, JoinsOnce, Joins

LEMMA FateEmptied ==
  ASSUME NEW p, NEW s, NEW n, Fate(p, s, n), p.S.state # "Sharing"
  PROVE  Fate(p, << >>, n)
<1>1. \A t : Without(t, << >>) /\ AtMostOne(t, << >>)
  BY KeptEmpty DEF AtMostOne
<1> QED BY <1>1 DEF Fate, Heard, JoinsOnce, Joins, Pending

LEMMA FateEcho ==
  ASSUME NEW p, NEW s, NEW n, Fate(p, s, n), NEW s2, Echo(s, s2), NEW m, m = 0 => n = 0
  PROVE  Fate(p, s2, m)
BY DEF Fate, Heard, JoinsOnce, Joins, Pending, Echo, Kept

(* The plugin's other fields change. *)
LEMMA JoinsOnceSame ==
  ASSUME NEW p, NEW q, NEW s, JoinsOnce(p, s), q.S = p.S,
         Without("QuitRoom", p.posted) => Without("QuitRoom", q.posted),
         "Quit" \in q.timers => "Quit" \in p.timers
  PROVE  JoinsOnce(q, s)
BY DEF JoinsOnce, Joins, Pending

(* While it shares, a sharer asks to quit. *)
Quits(p, q) ==
  /\ p.S.state = "Sharing" /\ q.S.state = "Sharing"
  /\ Kept("JoinRoom", p.S.queue, q.S.queue) /\ ~Without("QuitRoom", q.S.queue)

(* A stop: of a sharer that shares, or one that changes what is known of    *)
(* the share when the plugin does not count it, or there is none.           *)
Stops(p, q) ==
  /\ q.posted = p.posted
  /\ \/ Quits(p, q)
     \/ /\ q.S = p.S /\ ("Quit" \in q.timers => "Quit" \in p.timers)
        /\ \/ p.S.state # "Sharing" \/ p.server # "Sharing"
           \/ q.server = p.server /\ q.told = p.told

LEMMA FateStops ==
  ASSUME NEW p, NEW s, NEW n, Fate(p, s, n), NEW q, Stops(p, q)
  PROVE  Fate(q, s, n)
<1>1. CASE Quits(p, q)
  BY <1>1 DEF Stops, Quits, Fate, Heard, JoinsOnce, Joins, Pending, Kept
<1>2. CASE /\ q.S = p.S /\ ("Quit" \in q.timers => "Quit" \in p.timers)
           /\ \/ p.S.state # "Sharing" \/ p.server # "Sharing"
              \/ q.server = p.server /\ q.told = p.told
  <2>1. n = 0 => JoinsOnce(q, s)
    BY <1>2, JoinsOnceSame DEF Stops, Fate
  <2>2. Heard(q, s, n)
    BY <1>2 DEF Stops, Fate, Heard, Pending
  <2> QED BY <2>1, <2>2 DEF Fate
<1> QED BY <1>1, <1>2 DEF Stops

(* What the helpers do to the fields that Fate speaks of. *)
Keeps(p, q) ==
  /\ q.S = p.S /\ q.server = p.server /\ q.told = p.told /\ q.posted = p.posted
  /\ "Quit" \in q.timers => "Quit" \in p.timers

LEMMA KeepsStops ==
  ASSUME NEW p, NEW q, Keeps(p, q)
  PROVE  Stops(p, q)
BY DEF Keeps, Stops

LEMMA SendKeeps ==
  ASSUME NEW p \in Plugins, NEW t, NEW r
  PROVE  Keeps(p, Send(p, t, r)) /\ Send(p, t, r).V = p.V
BY DEF Keeps, Send, Plugins

LEMMA serverQuits ==
  ASSUME NEW p \in Plugins, p.S.state = "Sharing"
  PROVE  /\ serverQuit(p) \in Plugins /\ Quits(p, serverQuit(p))
         /\ serverQuit(p).posted = p.posted /\ serverQuit(p).V = p.V
<1> DEFINE n == Note("QuitRoom", p.S.room)
           queue == Append(p.S.queue, n)
           end == [p.S EXCEPT !.queue = queue]
<1>1. p.S \in ServerEnds /\ p.S.room \in RoomIds /\ p.S.queue \in Seq(SharerRequests)
  BY DEF Plugins, ServerEnds
<1>2. n \in SharerRequests /\ n.type = "QuitRoom"
  BY <1>1, NoteIs DEF SharerRequests
<1>3. serverQuit(p) = [p EXCEPT !.S = end]
  BY DEF serverQuit, Ask, Plugins
<1>4. end.state = "Sharing" /\ end.queue = queue
  BY <1>1 DEF ServerEnds
<1> HIDE DEF n, end
<1>5. Kept("JoinRoom", p.S.queue, queue) /\ ~Without("QuitRoom", queue)
  BY <1>1, <1>2, AppendNote
<1>6. /\ [p EXCEPT !.S = end].S = end /\ [p EXCEPT !.S = end].posted = p.posted
      /\ [p EXCEPT !.S = end].V = p.V
  BY DEF Plugins
<1>7. serverQuit(p) \in Plugins
  BY serverQuitPlain DEF Plain
<1> HIDE DEF queue
<1> QED BY <1>3, <1>4, <1>5, <1>6, <1>7 DEF Quits

LEMMA StopServerStops ==
  ASSUME NEW p \in Plugins, NEW ts \in {{}, {"Quit"}}
  PROVE  LET q == StopServer(p, ts) IN
         q \in Plugins /\ Stops(p, q) /\ q.server # "Sharing" /\ q.V = p.V
<1> DEFINE q == StopServer(p, ts)
<1>1. q \in Plugins
  BY StopServerPlain DEF Plain
<1>2. CASE p.S.state = "Sharing"
  <2> DEFINE r == serverQuit(p)
             x == [r EXCEPT !.server = "Quiting"]
  <2>1. r \in Plugins /\ Quits(p, r) /\ r.posted = p.posted /\ r.V = p.V
    BY <1>2, serverQuits
  <2>2. q = SetTimer(x, ts)
    BY <1>2 DEF StopServer
  <2> HIDE DEF r
  <2>3. x \in Plugins /\ x.S = r.S /\ x.posted = r.posted /\ x.V = r.V /\ x.server = "Quiting"
    BY <2>1 DEF Plugins
  <2> HIDE DEF x, q
  <2>4. q.S = x.S /\ q.posted = x.posted /\ q.V = x.V /\ q.server = x.server
    BY <2>2, <2>3 DEF SetTimer, Plugins
  <2> QED BY <1>1, <2>1, <2>3, <2>4 DEF Stops, Quits, q
<1>3. CASE p.S.state # "Sharing"
  <2>1. q = [p EXCEPT !.server = "Normal", !.told = FALSE]
    BY <1>3 DEF StopServer
  <2> HIDE DEF q
  <2>2. q.S = p.S /\ q.posted = p.posted /\ q.V = p.V /\ q.timers = p.timers /\ q.server = "Normal"
    BY <2>1 DEF Plugins
  <2> QED BY <1>1, <1>3, <2>2 DEF Stops, q
<1> QED BY <1>2, <1>3

LEMMA StopViewerStops ==
  ASSUME NEW p \in Plugins, NEW ts, Resting(p.V), p.server # "Sharing"
  PROVE  Stops(p, StopViewer(p, ts))
<1> DEFINE q == StopViewer(p, ts)
<1>1. q = [p EXCEPT !.viewer = "Normal", !.told = FALSE]
  BY DEF StopViewer, Resting
<1> HIDE DEF q
<1>2. q.S = p.S /\ q.posted = p.posted /\ q.timers = p.timers
  BY <1>1 DEF Plugins
<1> QED BY <1>2 DEF Stops, q

LEMMA OnStopStops ==
  ASSUME NEW p \in Plugins, Resting(p.V)
  PROVE  Stops(p, OnStop(p))
<1> DEFINE q == CASE p.server = "Sharing" ->
                       IF p.S.state = "Sharing" THEN [serverQuit(p) EXCEPT !.server = "Quiting"] ELSE p
                  [] p.server # "Sharing" /\ p.viewer = "Sharing" ->
                       (CASE p.V.state = "NULL"    -> [p EXCEPT !.crashed = TRUE]
                          [] p.V.state = "Sharing" -> [viewerQuit(p) EXCEPT !.viewer = "Quiting"]
                          [] OTHER                 -> p)
                  [] OTHER -> p
           x == [q EXCEPT !.room = 0, !.told = (q.viewer = "Reqing" /\ q.told)]
<1>1. OnStop(p) = x
  BY DEF OnStop
<1>2. p.V.state = "UnInit"
  BY DEF Resting
<1>3. CASE p.server = "Sharing" /\ p.S.state = "Sharing"
  <2> DEFINE r == serverQuit(p)
  <2>1. r \in Plugins /\ Quits(p, r) /\ r.posted = p.posted
    BY <1>3, serverQuits
  <2>2. q = [r EXCEPT !.server = "Quiting"]
    BY <1>3
  <2> HIDE DEF r, q
  <2>3. q \in Plugins /\ q.S = r.S /\ q.posted = r.posted
    BY <2>1, <2>2 DEF Plugins
  <2>4. x.S = q.S /\ x.posted = q.posted
    BY <2>3 DEF Plugins
  <2> HIDE DEF x
  <2> QED BY <1>1, <2>1, <2>3, <2>4 DEF Stops, Quits
<1>4. CASE ~(p.server = "Sharing" /\ p.S.state = "Sharing")
  <2>1. q = p
    BY <1>2, <1>4
  <2> HIDE DEF q
  <2>2. x.S = p.S /\ x.posted = p.posted /\ x.timers = p.timers
    BY <2>1 DEF Plugins
  <2> HIDE DEF x
  <2> QED BY <1>1, <1>4, <2>2 DEF Stops
<1> QED BY <1>3, <1>4

LEMMA EndedIs ==
  ASSUME NEW p \in Plugins, Resting(p.V)
  PROVE  LET q == Ended(p) IN
         /\ q \in Plugins /\ q.posted = p.posted /\ q.timers = p.timers
         /\ Resting(q.S) \/ (q.S = p.S /\ q.server = p.server)
<1>1. CASE p.server = "Quiting"
  <2> DEFINE r == uninitServer(p)
             end == [p.S EXCEPT !.state = "UnInit", !.queue = << >>]
             x == [r EXCEPT !.server = "Normal"]
             q == [x EXCEPT !.room = 0, !.told = FALSE]
  <2>1. r = [p EXCEPT !.S = end]
    BY DEF uninitServer, Plugins, ServerEnds
  <2>2. Resting(end)
    BY DEF Resting, Plugins, ServerEnds
  <2>3. r \in Plugins
    BY uninitServerPlain
  <2>4. Ended(p) = q
    BY <1>1 DEF Ended
  <2> HIDE DEF r, end
  <2>5. r.S = end /\ r.posted = p.posted /\ r.timers = p.timers
    BY <2>1 DEF Plugins
  <2>6. x \in Plugins /\ x.S = r.S /\ x.posted = r.posted /\ x.timers = r.timers
    BY <2>3 DEF Plugins
  <2> HIDE DEF x
  <2>7. q \in Plugins /\ q.S = x.S /\ q.posted = x.posted /\ q.timers = x.timers
    BY <2>6 DEF Plugins, RoomIds
  <2> HIDE DEF q
  <2> QED BY <2>2, <2>4, <2>5, <2>6, <2>7
<1>2. CASE p.server # "Quiting"
  <2> DEFINE r == IF p.viewer = "Quiting" THEN [uninitViewer(p) EXCEPT !.viewer = "Normal"] ELSE p
             q == [r EXCEPT !.room = 0, !.told = FALSE]
  <2>1. Ended(p) = q
    BY <1>2 DEF Ended
  <2>2. /\ r \in Plugins /\ r.posted = p.posted /\ r.timers = p.timers /\ r.S = p.S
        /\ r.server = p.server
    <3> DEFINE end == [p.V EXCEPT !.state = "UnInit", !.queue = << >>]
    <3>1. p.V \in ViewerEnds /\ p.V.state = "UnInit" /\ p.V.queue = << >>
      BY DEF Plugins, Resting
    <3>2. uninitViewer(p) = [p EXCEPT !.V = end]
      BY <3>1 DEF uninitViewer, Plugins, ViewerEnds
    <3>3. end = p.V
      BY <3>1 DEF ViewerEnds
    <3> HIDE DEF end
    <3>4. uninitViewer(p) = p
      BY <3>2, <3>3 DEF Plugins
    <3> QED BY <3>4 DEF Plugins
  <2> HIDE DEF r
  <2>3. q \in Plugins /\ q.posted = r.posted /\ q.timers = r.timers /\ q.S = r.S /\ q.server = r.server
    BY <2>2 DEF Plugins, RoomIds
  <2> HIDE DEF q
  <2> QED BY <2>1, <2>2, <2>3
<1> QED BY <1>1, <1>2

(* The page's stop of a plugin whose viewer rests. *)
LEMMA PageStopFate ==
  ASSUME NEW p \in Plugins, Resting(p.V), NEW inb, NEW n, Fate(p, inb, n), NEW s, NEW v,
         s = IF p.server = "Normal" THEN p
             ELSE Send(StopServer(p, {"Quit"}), "Stop", p.room),
         v = IF s.viewer = "Normal" THEN s
             ELSE Send(StopViewer(s, {"Quit"}), "Stop", s.room)
  PROVE  Fate(v, inb, n)
<1>1. s \in Plugins /\ Fate(s, inb, n) /\ s.V = p.V /\ s.server # "Sharing"
  <2>1. CASE p.server = "Normal"
    BY <2>1
  <2>2. CASE p.server # "Normal"
    <3> DEFINE q == StopServer(p, {"Quit"})
    <3>1. q \in Plugins /\ Stops(p, q) /\ q.server # "Sharing" /\ q.V = p.V /\ p.room \in RoomIds
      BY StopServerStops DEF Plugins
    <3>2. s = Send(q, "Stop", p.room)
      BY <2>2
    <3> HIDE DEF q
    <3>3. Fate(q, inb, n)
      BY <3>1, FateStops
    <3>4. Keeps(q, s) /\ s.V = q.V /\ s \in Plugins
      BY <3>1, <3>2, SendKeeps, SendPlain DEF Plain
    <3>5. Fate(s, inb, n)
      BY <3>3, <3>4, KeepsStops, FateStops
    <3> QED BY <3>1, <3>4, <3>5 DEF Keeps
  <2> QED BY <2>1, <2>2
<1>2. CASE s.viewer = "Normal"
  BY <1>1, <1>2
<1>3. CASE s.viewer # "Normal"
  <2> DEFINE q == StopViewer(s, {"Quit"})
  <2>1. q \in Plugins /\ Stops(s, q)
    BY <1>1, <1>3, StopViewerStops, StopViewerPlain DEF Plain
  <2>2. v = Send(q, "Stop", s.room)
    BY <1>3
  <2> HIDE DEF q
  <2>3. Fate(q, inb, n)
    BY <1>1, <2>1, FateStops
  <2>4. Keeps(q, v)
    BY <2>1, <2>2, SendKeeps
  <2> QED BY <2>3, <2>4, KeepsStops, FateStops
<1> QED BY <1>2, <1>3

-----------------------------------------------------------------------------
(* The share of u in a step: of another, or one of its own that ends with   *)
(* the endpoints that are let go.                                           *)
Fates(u) == Fate(plugin[u], inbox[<<u, "S">>], breaks)

LEMMA FateAside ==
  ASSUME NEW u \in Users, Fates(u), Keeps(plugin[u], plugin'[u]),
         Echo(inbox[<<u, "S">>], inbox'[<<u, "S">>]), breaks' = 0 => breaks = 0
  PROVE  Fates(u)'
<1>1. Fate(plugin'[u], inbox[<<u, "S">>], breaks)
  BY KeepsStops, FateStops DEF Fates
<1> QED BY <1>1, FateEcho DEF Fates

LEMMA FateLeaves ==
  ASSUME Typed, NEW u \in Users, NEW q \in Plugins, plugin'[u] = q, breaks' = breaks,
         Leave(Gone(u, q)),
         Resting(q.S) \/ Fate(q, inbox[<<u, "S">>], breaks)
  PROVE  Fates(u)'
<1> DEFINE e == <<u, "S">>
<1>1. e \in Ends /\ Gone(u, q) \in SUBSET Ends
  BY EndsOf DEF Gone
<1>2. e \in Gone(u, q) <=> q.S.state = "UnInit"
  <2>1. q.S.state # "NULL"
    BY DEF Plugins, ServerEnds, ServerStates
  <2> QED BY <1>1, <2>1 DEF Gone
<1>3. CASE e \in Gone(u, q)
  <2>1. inbox'[e] = << >>
    BY <1>1, <1>3, LeaveFacts
  <2>2. Fate(q, << >>, breaks)
    BY <1>2, <1>3, FateResting, FateEmptied
  <2> QED BY <2>1, <2>2 DEF Fates
<1>4. CASE e \notin Gone(u, q)
  <2>1. Echo(inbox[e], inbox'[e])
    BY <1>1, <1>4, LeaveFacts
  <2>2. Fate(q, inbox[e], breaks)
    BY <1>2, <1>4 DEF Resting
  <2> QED BY <2>1, <2>2, FateEcho DEF Fates
<1> QED BY <1>3, <1>4

LEMMA FateBecomes ==
  ASSUME Typed, NEW u \in Users, NEW q \in Plugins, Becomes(u, q),
         Resting(q.S) \/ Fate(q, inbox[<<u, "S">>], breaks)
  PROVE  Fates(u)'
<1>1. plugin'[u] = q /\ breaks' = breaks /\ Leave(Gone(u, q))
  BY DEF Becomes, Typed
<1> QED BY <1>1, FateLeaves

(* The page's answers to an invitation, and its stop. *)
LEMMA AcceptFate ==
  ASSUME Typed, NEW u \in Users, AcceptShareDesktop(u), Uninvited(plugin[u]),
         inbox[<<u, "S">>] = << >>
  PROVE  Fates(u)'
<1>1. PICK q \in Plugins :
        /\ Becomes(u, q) /\ q.posted = plugin[u].posted
        /\ "Quit" \in q.timers => "Quit" \in plugin[u].timers
        /\ q.S.state # "Sharing"
        /\ Resting(plugin[u].S) => Resting(q.S) \/ \E r \in RoomIds : q.S.queue = <<Note("JoinRoom", r)>>
  BY AcceptEffect
<1>2. Without("QuitRoom", q.posted) /\ "Quit" \notin q.timers /\ Resting(plugin[u].S)
  BY <1>1 DEF Uninvited, Idle
<1>3. ASSUME NEW r \in RoomIds, q.S.queue = <<Note("JoinRoom", r)>>
      PROVE  Fate(q, << >>, breaks)
  <2> DEFINE n == Note("JoinRoom", r)
  <2>1. n.type = "JoinRoom"
    BY DEF Note
  <2> HIDE DEF n
  <2>2. AtMostOne("JoinRoom", <<n>>) /\ Without("QuitRoom", <<n>>)
    BY <2>1 DEF AtMostOne, Without
  <2>3. \A t : Without(t, << >>) /\ AtMostOne(t, << >>)
    BY KeptEmpty DEF AtMostOne
  <2>4. q.S.queue = <<n>>
    BY <1>3 DEF n
  <2> QED BY <1>1, <1>2, <2>2, <2>3, <2>4 DEF Fate, Heard, JoinsOnce, Joins, Pending
<1> QED BY <1>1, <1>2, <1>3, FateBecomes

LEMMA RejectFate ==
  ASSUME Typed, NEW u \in Users, mediaTerminalRejectShareDesktop(u), Resting(plugin[u].S)
  PROVE  Fates(u)'
<1>1. PICK q \in Plugins : Becomes(u, q) /\ q.S = plugin[u].S
  BY RejectEffect
<1> QED BY <1>1, FateBecomes

LEMMA StopFate ==
  ASSUME Typed, NEW u \in Users, Fates(u), Resting(plugin[u].V), StopShareDesktop(u)
  PROVE  Fates(u)'
<1> DEFINE p == plugin[u]
           s == IF p.server = "Normal" THEN p
                ELSE Send(StopServer(p, {"Quit"}), "Stop", p.room)
           v == IF s.viewer = "Normal" THEN s
                ELSE Send(StopViewer(s, {"Quit"}), "Stop", s.room)
<1>1. p \in Plugins /\ Becomes(u, v)
  BY DEF Typed, StopShareDesktop
<1>2. v \in Plugins
  BY <1>1, PageStopPlain DEF Plain
<1>3. Fate(v, inbox[<<u, "S">>], breaks)
  <2> DEFINE inb == inbox[<<u, "S">>]
  <2>1. Fate(p, inb, breaks)
    BY DEF Fates
  <2> HIDE DEF inb
  <2>2. Fate(v, inb, breaks)
    BY <1>1, <2>1, PageStopFate
  <2> QED BY <2>2 DEF inb
<1> HIDE DEF v
<1> QED BY <1>1, <1>2, <1>3, FateBecomes

(* The timers and the callbacks. *)
LEMMA uninitServerRests ==
  ASSUME NEW p \in Plugins
  PROVE  uninitServer(p) \in Plugins /\ Resting(uninitServer(p).S)
<1> DEFINE end == [p.S EXCEPT !.state = "UnInit", !.queue = << >>]
<1>1. Resting(end)
  BY DEF Plugins, ServerEnds, Resting
<1>2. uninitServer(p) = [p EXCEPT !.S = end]
  BY DEF uninitServer, Plugins, ServerEnds
<1> HIDE DEF end
<1>3. [p EXCEPT !.S = end].S = end
  BY DEF Plugins
<1> QED BY <1>1, <1>2, <1>3, uninitServerPlain

LEMMA JoinTimerRests ==
  ASSUME NEW p \in Plugins
  PROVE  JoinTimer(p) \in Plugins /\ Resting(JoinTimer(p).S)
<1> DEFINE r == uninitServer(p)
           x == Send(r, "Failed", p.room)
           y == [x EXCEPT !.server = "Normal", !.room = 0, !.told = FALSE]
           q == KillTimer(y, "Join")
<1>1. r \in Plugins /\ Resting(r.S) /\ p.room \in RoomIds
  BY uninitServerRests DEF Plugins
<1>2. JoinTimer(p) = q /\ JoinTimer(p) \in Plugins
  BY JoinTimerPlain DEF JoinTimer, Plain
<1> HIDE DEF r
<1>3. x \in Plugins /\ x.S = r.S
  BY <1>1, SendKeeps, SendPlain DEF Keeps, Plain
<1> HIDE DEF x
<1>4. y \in Plugins /\ y.S = x.S
  BY <1>3 DEF Plugins, RoomIds
<1> HIDE DEF y
<1>5. q.S = y.S
  BY <1>4 DEF KillTimer, Plugins
<1> QED BY <1>1, <1>2, <1>3, <1>4, <1>5

LEMMA KillKeeps ==
  ASSUME NEW p \in Plugins, NEW t
  PROVE  /\ Keeps(p, KillTimer(p, t)) /\ KillTimer(p, t) \in Plugins
         /\ KillTimer(p, t).timers = p.timers \ {t}
BY DEF Keeps, KillTimer, Plugins

LEMMA TimerFate ==
  ASSUME Typed, NEW u \in Users, Fates(u), Resting(plugin[u].V), "Create" \notin plugin[u].timers,
         OnTimer(u)
  PROVE  Fates(u)'
<1> DEFINE p == plugin[u]
           inb == inbox[<<u, "S">>]
<1>1. p \in Plugins /\ p.posted = << >> /\ Fate(p, inb, breaks) /\ Resting(p.V)
  BY DEF Typed, OnTimer, Fates
<1>2. CASE "Join" \in p.timers /\ Becomes(u, JoinTimer(p))
  BY <1>1, <1>2, JoinTimerRests, FateBecomes
<1>3. CASE "Quit" \in p.timers /\ Becomes(u, QuitTimer(p))
  <2> DEFINE x == Ended(p)
             q == QuitTimer(p)
  <2>1. /\ x \in Plugins /\ x.posted = p.posted /\ x.timers = p.timers
        /\ Resting(x.S) \/ (x.S = p.S /\ x.server = p.server)
    BY <1>1, EndedIs
  <2>2. q = KillTimer(x, "Quit")
    BY DEF QuitTimer
  <2> HIDE DEF x, q, inb, p
  <2>3. Keeps(x, q) /\ q \in Plugins
    BY <2>1, <2>2, KillKeeps
  <2>4. ASSUME x.S = p.S, x.server = p.server
        PROVE  Fate(q, inb, breaks)
    <3>1. q.S = p.S /\ q.server = p.server /\ q.posted = p.posted
          /\ ("Quit" \in q.timers => "Quit" \in p.timers)
      BY <2>1, <2>3, <2>4 DEF Keeps
    <3>2. breaks = 0 => JoinsOnce(q, inb)
      BY <1>1, <3>1, JoinsOnceSame DEF Fate
    <3>3. Heard(q, inb, breaks)
      BY <1>1, <1>3, <3>1 DEF Fate, Heard, JoinsOnce, Pending
    <3> QED BY <3>2, <3>3 DEF Fate
  <2>5. Resting(q.S) \/ Fate(q, inb, breaks)
    BY <2>1, <2>3, <2>4 DEF Keeps
  <2> QED BY <1>3, <2>3, <2>5, FateBecomes DEF inb, q, p
<1> QED BY <1>2, <1>3 DEF OnTimer

LEMMA PoppedKeeps ==
  ASSUME NEW p \in Plugins, p.posted # << >>
  PROVE  LET q == Popped(p) IN
         /\ q \in Plugins /\ q.posted = Tail(p.posted) /\ q.S = p.S /\ q.V = p.V
         /\ q.server = p.server /\ q.told = p.told /\ q.timers = p.timers
<1>1. Tail(p.posted) \in Seq(Callbacks)
  BY TakeNote DEF Plugins
<1> QED BY <1>1 DEF Popped, Plugins

LEMMA CallbackFate ==
  ASSUME Typed, NEW u \in Users, Fates(u), Resting(plugin[u].V),
         Without("CreateRoom", plugin[u].posted), onVncViewerCallBack(u)
  PROVE  Fates(u)'
<1> DEFINE o == plugin[u]
           p == Popped(o)
           inb == inbox[<<u, "S">>]
           msg == Head(plugin[u].posted)
           q == CASE msg.type = "CreateRoom" /\ msg.room = 0 ->
                       [uninitViewer(p) EXCEPT !.viewer = "Normal", !.room = 0]
                  [] msg.type = "CreateRoom" /\ msg.room # 0 ->
                       Send(KillTimer([p EXCEPT !.room = msg.room], "Create"), "Request", msg.room)
                  [] msg.type = "RoomClosed" ->
                       [uninitServer(p) EXCEPT !.server = "Normal", !.room = 0, !.told = FALSE]
                  [] msg.type = "JoinRoom" -> OnJoined(p)
                  [] msg.type = "QuitRoom" -> KillTimer(Ended(p), "Quit")
<1>1. /\ o \in Plugins /\ o.posted # << >> /\ Becomes(u, q) /\ Fate(o, inb, breaks)
      /\ o.posted \in Seq(Callbacks)
  BY DEF Typed, onVncViewerCallBack, Popped, Fates, Plugins
<1>2. /\ p \in Plugins /\ p.posted = Tail(o.posted) /\ p.S = o.S /\ p.V = o.V
      /\ p.server = o.server /\ p.told = o.told /\ p.timers = o.timers
  BY <1>1, PoppedKeeps
<1>3. msg.type \in {"JoinRoom", "QuitRoom", "RoomClosed"}
  <2>1. msg \in Callbacks /\ msg.type # "CreateRoom"
    BY <1>1, TakeNote
  <2> HIDE DEF msg
  <2> QED BY <2>1 DEF Callbacks, Notes
<1>4. \A t : Without(t, o.posted) => Without(t, p.posted)
  BY <1>1, <1>2, TakeNote DEF Kept
<1>5. /\ msg.type # "JoinRoom" /\ ~Without("JoinRoom", o.posted) => ~Without("JoinRoom", p.posted)
      /\ msg.type = "QuitRoom" => ~Without("QuitRoom", o.posted)
  BY <1>1, <1>2, TakeNote
<1>6. CASE msg.type = "RoomClosed"
  <2> DEFINE r == uninitServer(p)
  <2>1. r \in Plugins /\ Resting(r.S)
    BY <1>2, uninitServerRests
  <2>2. q = [r EXCEPT !.server = "Normal", !.room = 0, !.told = FALSE]
    BY <1>6
  <2> HIDE DEF r, q
  <2>3. q \in Plugins /\ q.S = r.S
    BY <2>1, <2>2 DEF Plugins, RoomIds
  <2> QED BY <1>1, <2>1, <2>3, FateBecomes
<1>7. CASE msg.type = "JoinRoom"
  <2> DEFINE r == [p EXCEPT !.server = "Sharing", !.told = TRUE]
             k == KillTimer(r, "Join")
  <2>1. q = Send(k, "Accepted", p.room)
    BY <1>7 DEF OnJoined
  <2> HIDE DEF q, p, msg, o, inb
  <2>2. /\ r \in Plugins /\ r.S = p.S /\ r.server = "Sharing" /\ r.told = TRUE
        /\ r.posted = p.posted /\ r.timers = p.timers
    BY <1>2 DEF Plugins
  <2> HIDE DEF r
  <2>3. Keeps(r, k) /\ k \in Plugins
    BY <2>2, KillKeeps
  <2> HIDE DEF k
  <2>4. Keeps(k, q) /\ q \in Plugins
    <3>1. p.room \in RoomIds
      BY <1>2 DEF Plugins
    <3>2. Note("Accepted", p.room) \in Commands
      BY <3>1, NoteIs DEF Commands
    <3> DEFINE n == Note("Accepted", p.room)
    <3>3. q = [k EXCEPT !.sent = Append(k.sent, n)]
      BY <2>1 DEF Send
    <3> HIDE DEF n
    <3>4. Append(k.sent, n) \in Seq(Commands)
      BY <2>3, <3>2 DEF n, Plugins
    <3>5. q \in Plugins
      BY <2>3, <3>3, <3>4 DEF Plugins
    <3> QED BY <2>1, <2>3, <3>5, SendKeeps
  <2>5. /\ q.S = o.S /\ q.server = "Sharing" /\ q.told = TRUE /\ q.posted = p.posted
        /\ "Quit" \in q.timers => "Quit" \in o.timers
    BY <1>2, <2>2, <2>3, <2>4 DEF Keeps
  <2>6. breaks = 0 => JoinsOnce(q, inb)
    BY <1>1, <1>4, <2>5, JoinsOnceSame DEF Fate
  <2>7. Heard(q, inb, breaks)
    BY <2>5 DEF Heard
  <2> QED BY <1>1, <2>4, <2>6, <2>7, FateBecomes DEF Fate, inb
<1>8. CASE msg.type = "QuitRoom"
  <2> DEFINE x == Ended(p)
  <2>1. /\ x \in Plugins /\ x.posted = p.posted /\ x.timers = p.timers
        /\ Resting(x.S) \/ (x.S = p.S /\ x.server = p.server)
    BY <1>2, EndedIs
  <2>2. q = KillTimer(x, "Quit")
    BY <1>8
  <2> HIDE DEF x, q, inb, p, o, msg
  <2>3. Keeps(x, q) /\ q \in Plugins
    BY <2>1, <2>2, KillKeeps
  <2>4. ASSUME x.S = p.S, x.server = p.server
        PROVE  Fate(q, inb, breaks)
    <3>1. q.S = o.S /\ q.server = o.server /\ q.posted = p.posted
          /\ ("Quit" \in q.timers => "Quit" \in o.timers)
      BY <1>2, <2>1, <2>3, <2>4 DEF Keeps
    <3>2. breaks = 0 => JoinsOnce(q, inb)
      BY <1>1, <1>4, <3>1, JoinsOnceSame DEF Fate
    <3>3. Heard(q, inb, breaks)
      BY <1>1, <1>5, <1>8, <3>1 DEF Fate, Heard, JoinsOnce, Pending
    <3> QED BY <3>2, <3>3 DEF Fate
  <2>5. Resting(q.S) \/ Fate(q, inb, breaks)
    BY <2>1, <2>3, <2>4 DEF Keeps
  <2> QED BY <1>1, <2>3, <2>5, FateBecomes DEF inb
<1> QED BY <1>3, <1>6, <1>7, <1>8

(* A command of the peer. *)
LEMMA CommandFate ==
  ASSUME Typed, NEW u \in Users, Fates(u), Resting(plugin[u].V), handleVncCmd(u),
         Head(plugin[Peer(u)].sent).type = "Request" => Resting(plugin[u].S),
         Head(plugin[Peer(u)].sent).type # "Rejected"
  PROVE  Fates(u)'
<1> DEFINE p == plugin[u]
           o == plugin[Peer(u)]
           cmd == Head(plugin[Peer(u)].sent)
           inb == inbox[<<u, "S">>]
           q == CASE cmd.type = "Stop"     -> OnStop(p)
                  [] cmd.type = "Request"  -> [p EXCEPT !.room = cmd.room, !.server = "RecvReqing",
                                                        !.asked = TRUE]
                  [] cmd.type = "Accepted" -> [p EXCEPT !.viewer = "Sharing"]
                  [] cmd.type = "Rejected" -> [deleteViewer(p) EXCEPT !.viewer = "Normal", !.room = 0]
                  [] cmd.type = "Failed"   -> p
<1>1. /\ p \in Plugins /\ Fate(p, inb, breaks) /\ o.sent # << >> /\ o.sent \in Seq(Commands)
      /\ Peer(u) # u /\ Resting(p.V)
  BY PeerIs DEF Typed, Plugins, Fates, handleVncCmd
<1>2. plugin'[u] = q /\ Leave(Gone(u, q)) /\ breaks' = breaks
  <2>1. plugin' = [plugin EXCEPT ![u] = q, ![Peer(u)].sent = Tail(@)] /\ Leave(Gone(u, q)) /\ breaks' = breaks
    BY DEF handleVncCmd
  <2> HIDE DEF q
  <2> QED BY <1>1, <2>1 DEF Typed
<1>3. cmd.type \in {"Request", "Stop", "Accepted", "Failed"} /\ cmd.room \in RoomIds
  <2>1. cmd \in Commands
    BY <1>1, TakeNote
  <2>2. cmd.type # "Rejected"
    OBVIOUS
  <2> HIDE DEF cmd
  <2> QED BY <2>1, <2>2 DEF Commands, Notes, RoomIds
<1>4. q \in Plugins /\ (Resting(q.S) \/ Fate(q, inb, breaks))
  <2> HIDE DEF inb
  <2>1. CASE cmd.type = "Stop"
    <3>1. q = OnStop(p)
      BY <2>1
    <3> HIDE DEF q, p
    <3>2. q \in Plugins /\ Stops(p, q)
      BY <1>1, <3>1, OnStopPlain, OnStopStops DEF Plain
    <3> QED BY <1>1, <3>2, FateStops
  <2>2. CASE cmd.type = "Request"
    <3>1. q = [p EXCEPT !.room = cmd.room, !.server = "RecvReqing", !.asked = TRUE]
      BY <2>2
    <3>2. Resting(p.S)
      BY <2>2
    <3> HIDE DEF q, p, cmd
    <3> QED BY <1>1, <1>3, <3>1, <3>2 DEF Plugins
  <2>3. CASE cmd.type = "Accepted"
    <3>1. q = [p EXCEPT !.viewer = "Sharing"]
      BY <2>3
    <3> HIDE DEF q, p, cmd
    <3>2. q \in Plugins /\ Keeps(p, q)
      BY <1>1, <3>1 DEF Plugins, Keeps
    <3> QED BY <1>1, <3>2, KeepsStops, FateStops
  <2>4. CASE cmd.type = "Failed"
    <3>1. q = p
      BY <2>4
    <3> HIDE DEF q, p, cmd
    <3> QED BY <1>1, <3>1
  <2> QED BY <1>3, <2>1, <2>2, <2>3, <2>4
<1> HIDE DEF q
<1> QED BY <1>2, <1>4, FateLeaves

(* What the share server tells the sharer. *)
Posts(p, q, state, type) ==
  /\ q.S.state = state /\ q.S.queue = p.S.queue /\ q.timers = p.timers
  /\ \A t : Without(t, p.posted) /\ t # type => Without(t, q.posted)
  /\ ~Without(type, q.posted)

LEMMA PostsIs ==
  ASSUME NEW p \in Plugins, NEW state \in {"Init", "Sharing"}, NEW room \in RoomIds,
         NEW type \in {"JoinRoom", "QuitRoom", "RoomClosed"}
  PROVE  Posts(p, Post([p EXCEPT !.S.state = state, !.S.room = room], type, p.S.room), state, type)
<1> DEFINE end == [p.S EXCEPT !.state = state, !.room = room]
           n == Note(type, p.S.room)
           r == [p EXCEPT !.S = end]
           q == Post([p EXCEPT !.S.state = state, !.S.room = room], type, p.S.room)
<1>1. p.S.room \in RoomIds /\ end \in ServerEnds /\ end.state = state /\ end.queue = p.S.queue
  BY DEF Plugins, ServerEnds, ServerStates
<1>2. n \in Callbacks /\ n.type = type
  <2>1. type \in {"CreateRoom", "JoinRoom", "QuitRoom", "RoomClosed"}
    OBVIOUS
  <2> HIDE DEF end, r, q
  <2> QED BY <1>1, <2>1, NoteIs DEF Callbacks
<1>3. q = Post(r, type, p.S.room)
  BY DEF Plugins
<1> HIDE DEF end, q
<1>4. r \in Plugins /\ r.S = end /\ r.timers = p.timers /\ r.posted = p.posted
  BY <1>1 DEF Plugins
<1> HIDE DEF r
<1>5. q.S = r.S /\ q.timers = r.timers /\ q.posted = Append(r.posted, n)
  BY <1>3, <1>4 DEF Post, Plugins
<1>6. p.posted \in Seq(Callbacks)
  BY DEF Plugins
<1> HIDE DEF n
<1>7. /\ \A t : Without(t, p.posted) /\ t # type => Without(t, Append(p.posted, n))
      /\ ~Without(type, Append(p.posted, n))
  BY <1>2, <1>6, AppendNote DEF Kept
<1> QED BY <1>1, <1>4, <1>5, <1>7 DEF Posts, q

LEMMA PostsFate ==
  ASSUME NEW p \in Plugins, NEW s \in Seq(SharerAnswers), s # << >>, NEW n, Fate(p, s, n),
         NEW q, NEW state, NEW type, Posts(p, q, state, type),
         \/ Head(s).type = "Joined" /\ p.S.state # "Sharing" /\ state = "Sharing" /\ type = "JoinRoom"
         \/ Head(s).type \in {"JoinFailed", "RoomClosed"} /\ state = "Init" /\ type # "QuitRoom"
         \/ Head(s).type = "Quit" /\ state = "Init"
  PROVE  Fate(q, Tail(s), n)
<1>1. Heard(q, Tail(s), n)
  BY DEF Posts, Heard
<1>2. \A t : /\ Kept(t, s, Tail(s))
             /\ Without(t, s) => Head(s).type # t
             /\ AtMostOne(t, s) /\ Head(s).type = t => Without(t, Tail(s))
  BY TakeNote
<1>3. ASSUME n = 0 PROVE JoinsOnce(q, Tail(s))
  <2>1. JoinsOnce(p, s)
    BY <1>3 DEF Fate
  <2>2. /\ q.S.queue = p.S.queue /\ q.timers = p.timers /\ q.S.state = state
        /\ Without("QuitRoom", p.posted) /\ type # "QuitRoom" => Without("QuitRoom", q.posted)
    BY DEF Posts
  <2>3. /\ Without("Joined", s) => Without("Joined", Tail(s))
        /\ AtMostOne("Joined", s) => AtMostOne("Joined", Tail(s))
        /\ Without("Quit", s) => Without("Quit", Tail(s))
    BY <1>2 DEF Kept
  <2>4. /\ Head(s).type = "Joined" => ~Without("Joined", s)
        /\ Head(s).type = "Quit" => ~Without("Quit", s)
        /\ Head(s).type = "Joined" /\ AtMostOne("Joined", s) => Without("Joined", Tail(s))
    BY <1>2
  <2> HIDE DEF Posts
  <2>5. CASE Head(s).type = "Joined" /\ p.S.state # "Sharing" /\ state = "Sharing" /\ type = "JoinRoom"
    BY <2>1, <2>2, <2>3, <2>4, <2>5 DEF JoinsOnce, Joins, Pending
  <2>6. CASE Head(s).type \in {"JoinFailed", "RoomClosed"} /\ state = "Init" /\ type # "QuitRoom"
    BY <2>1, <2>2, <2>3, <2>6 DEF JoinsOnce, Joins, Pending
  <2>7. CASE Head(s).type = "Quit" /\ state = "Init"
    BY <2>1, <2>2, <2>3, <2>4, <2>7 DEF JoinsOnce, Joins, Pending
  <2> QED BY <2>5, <2>6, <2>7
<1> QED BY <1>1, <1>3 DEF Fate

LEMMA SharerFate ==
  ASSUME Typed, NEW u \in Users, Fates(u), ServerHandles(u)
  PROVE  Fates(u)'
<1> DEFINE e == <<u, "S">>
           s == inbox[<<u, "S">>]
           p == plugin[u]
           m == Head(inbox[<<u, "S">>])
           post(state, room, type) == Post([p EXCEPT !.S.state = state, !.S.room = room], type, p.S.room)
           q == CASE m.type = "Joined"     -> IF p.S.state = "Sharing" THEN p
                                              ELSE post("Sharing", p.S.room, "JoinRoom")
                  [] m.type = "JoinFailed" -> post("Init", p.S.room, "JoinRoom")
                  [] m.type = "Quit"       -> post("Init", 0, "QuitRoom")
                  [] m.type = "RoomClosed" -> post("Init", 0, "RoomClosed")
                  [] m.type = "ExitRoom"   -> IF p.S.room = 0 \/ p.server = "Normal" THEN p
                                              ELSE StopServer(p, {})
<1>1. /\ plugin' = [plugin EXCEPT ![u] = q] /\ s # << >>
      /\ inbox' = [inbox EXCEPT ![e] = Tail(@)] /\ breaks' = breaks
  BY DEF ServerHandles
<1>2. p \in Plugins /\ s \in Seq(SharerAnswers) /\ Fate(p, s, breaks) /\ m = Head(s)
  BY DEF Typed, Fates
<1>3. plugin'[u] = q /\ inbox'[e] = Tail(s)
  <2> HIDE DEF q
  <2> QED BY <1>1, EndsOf DEF Typed
<1>4. m.type \in {"Joined", "JoinFailed", "Quit", "ExitRoom", "RoomClosed"}
  <2>1. m \in SharerAnswers
    BY <1>1, <1>2, TakeNote
  <2> HIDE DEF m, q
  <2> QED BY <2>1 DEF SharerAnswers, Notes
<1>5. p.S.room \in RoomIds /\ 0 \in RoomIds
  BY <1>2 DEF Plugins, ServerEnds, RoomIds
<1> HIDE DEF p, m, s
<1>6. ASSUME NEW state \in {"Init", "Sharing"}, NEW room \in RoomIds,
             NEW type \in {"JoinRoom", "QuitRoom", "RoomClosed"}
      PROVE  Posts(p, post(state, room, type), state, type)
  BY <1>2, PostsIs
<1> HIDE DEF post
<1>7. CASE m.type = "Joined" /\ p.S.state # "Sharing"
  <2>1. Posts(p, q, "Sharing", "JoinRoom")
    BY <1>5, <1>6, <1>7
  <2> HIDE DEF q
  <2> QED BY <1>1, <1>2, <1>3, <1>7, <2>1, PostsFate DEF Fates
<1>8. CASE m.type \in {"JoinFailed", "RoomClosed", "Quit"}
  <2>1. CASE m.type = "JoinFailed"
    <3>1. Posts(p, q, "Init", "JoinRoom")
      BY <1>5, <1>6, <2>1
    <3> HIDE DEF q
    <3> QED BY <1>1, <1>2, <1>3, <2>1, <3>1, PostsFate DEF Fates
  <2>2. CASE m.type = "RoomClosed"
    <3>1. Posts(p, q, "Init", "RoomClosed")
      BY <1>5, <1>6, <2>2
    <3> HIDE DEF q
    <3> QED BY <1>1, <1>2, <1>3, <2>2, <3>1, PostsFate DEF Fates
  <2>3. CASE m.type = "Quit"
    <3>1. Posts(p, q, "Init", "QuitRoom")
      BY <1>5, <1>6, <2>3
    <3> HIDE DEF q
    <3> QED BY <1>1, <1>2, <1>3, <2>3, <3>1, PostsFate DEF Fates
  <2> QED BY <1>8, <2>1, <2>2, <2>3
<1>9. CASE m.type = "Joined" /\ p.S.state = "Sharing"
  <2>1. q = p
    BY <1>9
  <2> HIDE DEF q
  <2>2. /\ ~Without("Joined", s)
        /\ ~Without("Quit", s) => ~Without("Quit", Tail(s))
    BY <1>1, <1>2, <1>9, TakeNote
  <2>3. breaks # 0
    BY <1>2, <1>9, <2>2 DEF Fate, JoinsOnce, Joins
  <2>4. Fate(p, Tail(s), breaks)
    BY <1>2, <2>2, <2>3 DEF Fate, Heard, Pending
  <2> QED BY <1>1, <1>3, <2>1, <2>4 DEF Fates
<1>10. CASE m.type = "ExitRoom"
  <2>1. q = p \/ q = StopServer(p, {})
    BY <1>10
  <2> HIDE DEF q
  <2>2. Fate(q, s, breaks)
    BY <1>2, <2>1, StopServerStops, FateStops
  <2>3. Echo(s, Tail(s))
    BY <1>1, <1>2, <1>10, EchoTail
  <2>4. Fate(q, Tail(s), breaks)
    BY <2>2, <2>3, FateEcho
  <2> QED BY <1>1, <1>3, <2>4 DEF Fates
<1> QED BY <1>4, <1>7, <1>8, <1>9, <1>10

(* Its connection breaks: it does not share until it has joined again. *)
LEMMA SharerReconnectFate ==
  ASSUME Typed, NEW u \in Users, Reconnects(<<u, "S">>)
  PROVE  Fates(u)'
<1> DEFINE p == plugin[u]
           end == p.S
           joins == end.state \in {"Init", "Sharing"}
           join == IF joins THEN <<Note("JoinRoom", end.room)>> ELSE << >>
           waits == joins
           new(left) == End(IF waits THEN "Joining" ELSE end.state, end.room, left \o join)
<1>1. breaks' = breaks + 1 /\ breaks \in Nat
  BY SessionAssumption DEF Reconnects, Typed
<1>2. PICK left \in {<< >>, end.queue} : plugin' = [plugin EXCEPT ![u]["S"] = new(left)]
  BY DEF Reconnects
<1>3. new(left).state # "Sharing"
  BY DEF End
<1> HIDE DEF new
<1>4. plugin'[u].S = new(left)
  BY <1>2 DEF Typed, Plugins
<1>5. breaks' # 0
  BY <1>1
<1> QED BY <1>3, <1>4, <1>5 DEF Fates, Fate, Heard

(* The share server answers it. *)
LEMMA AnswerFate ==
  ASSUME Typed, NEW u \in Users, Fates(u), ShareServer(<<u, "S">>)
  PROVE  Fates(u)'
<1> DEFINE e == <<u, "S">>
           s == inbox[<<u, "S">>]
           p == plugin[u]
           m == Head(plugin[u].S.queue)
<1>1. PICK q \in Plugins :
        /\ plugin' = [plugin EXCEPT ![u] = q] /\ breaks' = breaks
        /\ p.S.queue # << >> /\ m.type # "CreateRoom"
        /\ q.posted = p.posted
        /\ q.server = p.server /\ q.told = p.told /\ q.timers = p.timers
        /\ q.S.state = p.S.state /\ q.S.queue = Tail(p.S.queue)
        /\ \E n \in Answers : n.type \in AnswerTo(m.type) /\ inbox'[e] = Append(inbox[e], n)
  BY ShareServerEffect
<1>2. PICK n \in Answers : n.type \in AnswerTo(m.type) /\ inbox'[e] = Append(s, n)
  BY <1>1
<1>3. /\ p \in Plugins /\ Fate(p, s, breaks) /\ s \in Seq(Answers)
      /\ p.S.queue \in Seq(SharerRequests) /\ plugin'[u] = q
  BY <1>1, EndsOf DEF Typed, Fates, Plugins, ServerEnds
<1>4. m.type \in {"JoinRoom", "QuitRoom"}
  <2>1. m \in SharerRequests
    BY <1>1, <1>3, TakeNote
  <2> HIDE DEF m
  <2> QED BY <2>1 DEF SharerRequests, Notes
<1> DEFINE s2 == Append(s, n)
<1>5. /\ m.type = "JoinRoom" => n.type \in {"Joined", "JoinFailed"}
      /\ m.type = "QuitRoom" => n.type = "Quit"
  BY <1>2 DEF AnswerTo
<1>6. \A t : /\ Kept(t, p.S.queue, q.S.queue)
             /\ Without(t, p.S.queue) => m.type # t
             /\ AtMostOne(t, p.S.queue) /\ m.type = t => Without(t, q.S.queue)
             /\ ~Without(t, p.S.queue) /\ m.type # t => ~Without(t, q.S.queue)
  <2> DEFINE queue == p.S.queue
  <2>1. queue # << >> /\ m = Head(queue) /\ q.S.queue = Tail(queue) /\ queue \in Seq(SharerRequests)
    BY <1>1, <1>3
  <2> HIDE DEF queue, m, p
  <2>2. \A t : /\ Kept(t, queue, Tail(queue))
               /\ Without(t, queue) => m.type # t
               /\ AtMostOne(t, queue) /\ m.type = t => Without(t, Tail(queue))
               /\ ~Without(t, queue) /\ m.type # t => ~Without(t, Tail(queue))
    BY <2>1, TakeNote
  <2> QED BY <2>1, <2>2 DEF queue
<1>7. \A t : /\ n.type # t => Kept(t, s, s2)
             /\ Without(t, s) => AtMostOne(t, s2)
             /\ n.type = t \/ ~Without(t, s) => ~Without(t, s2)
  BY <1>3, AppendNote
<1> HIDE DEF p, m, s, s2
<1>8. CASE m.type = "JoinRoom"
  <2>1. Pending(p, s) <=> Pending(q, s2)
    BY <1>5, <1>6, <1>7, <1>8 DEF Pending, Kept
  <2>2. Heard(q, s2, breaks)
    BY <1>1, <1>3, <2>1 DEF Fate, Heard
  <2>3. ASSUME breaks = 0 PROVE JoinsOnce(q, s2)
    <3>1. JoinsOnce(p, s)
      BY <1>3, <2>3 DEF Fate
    <3>2. ~Without("JoinRoom", p.S.queue) /\ Without("Joined", s) /\ Without("JoinRoom", q.S.queue)
      BY <1>6, <1>8, <3>1 DEF JoinsOnce
    <3>3. AtMostOne("JoinRoom", q.S.queue) /\ AtMostOne("Joined", s2)
      BY <1>6, <1>7, <3>1, <3>2 DEF Kept, JoinsOnce
    <3> QED BY <1>1, <2>1, <3>1, <3>2, <3>3 DEF JoinsOnce, Joins
  <2>4. Fate(q, s2, breaks)
    BY <2>2, <2>3 DEF Fate
  <2> QED BY <1>1, <1>2, <1>3, <2>4 DEF Fates, s2
<1>9. CASE m.type = "QuitRoom"
  <2>1. Pending(p, s) /\ Pending(q, s2)
    BY <1>5, <1>6, <1>7, <1>9 DEF Pending
  <2>2. Heard(q, s2, breaks)
    BY <2>1 DEF Heard
  <2>3. ASSUME breaks = 0 PROVE JoinsOnce(q, s2)
    <3>1. JoinsOnce(p, s)
      BY <1>3, <2>3 DEF Fate
    <3>2. ~Joins(q, s2) /\ AtMostOne("JoinRoom", q.S.queue) /\ AtMostOne("Joined", s2)
      BY <1>5, <1>6, <1>7, <1>9, <2>1, <3>1 DEF JoinsOnce, Joins, Kept
    <3> QED BY <1>1, <2>1, <3>1, <3>2 DEF JoinsOnce, Joins
  <2>4. Fate(q, s2, breaks)
    BY <2>2, <2>3 DEF Fate
  <2> QED BY <1>1, <1>2, <1>3, <2>4 DEF Fates, s2
<1> QED BY <1>4, <1>8, <1>9

-----------------------------------------------------------------------------
(* The one user who asks shares nothing: its sharer is never in use.        *)
AskerRests(a) == Resting(plugin[a].S) /\ Silent(<<a, "S">>)

LEMMA RestsChange ==
  ASSUME Typed, NEW a \in Users, NEW u \in Users, NEW q, plugin' = [plugin EXCEPT ![u] = q],
         Resting(plugin[a].S), u = a => Resting(q.S)
  PROVE  Resting(plugin'[a].S)
BY DEF Typed

LEMMA LeaveSilent ==
  ASSUME Typed, NEW e \in Ends, Silent(e), NEW gone \in SUBSET Ends, Leave(gone)
  PROVE  Silent(e)'
BY LeaveFacts DEF Silent

LEMMA AskerBecomes ==
  ASSUME Typed, NEW a \in Users, NEW u \in Users, AskerRests(a), NEW q, Becomes(u, q),
         u = a => Resting(q.S)
  PROVE  AskerRests(a)'
<1>1. plugin' = [plugin EXCEPT ![u] = q] /\ Leave(Gone(u, q)) /\ Gone(u, q) \in SUBSET Ends
  BY DEF Becomes, Gone
<1>2. Resting(plugin'[a].S)
  BY <1>1, RestsChange DEF AskerRests
<1>3. Silent(<<a, "S">>)'
  BY <1>1, EndsOf, LeaveSilent DEF AskerRests
<1> QED BY <1>2, <1>3 DEF AskerRests

LEMMA AskerTakes ==
  ASSUME Typed, NEW a \in Users, NEW u \in Users, AskerRests(a), NEW q,
         plugin' = [plugin EXCEPT ![u] = q], u = a => Resting(q.S),
         NEW e \in Ends, inbox[e] # << >>, inbox' = [inbox EXCEPT ![e] = Tail(@)],
         members' = members
  PROVE  AskerRests(a)'
<1>1. Resting(plugin'[a].S)
  BY RestsChange DEF AskerRests
<1>2. \A f \in Ends : f # e => inbox'[f] = inbox[f]
  BY DEF Typed
<1>3. Silent(<<a, "S">>)'
  BY <1>2, EndsOf DEF AskerRests, Silent, Outside
<1> QED BY <1>1, <1>3 DEF AskerRests

LEMMA AskerPage ==
  ASSUME Typed, NEW a \in Users, AskerRests(a), ~plugin[a].asked, NEW u \in Users,
         \/ AcceptShareDesktop(u) \/ mediaTerminalRejectShareDesktop(u)
         \/ StopShareDesktop(u) \/ OnTimer(u)
  PROVE  AskerRests(a)'
<1>1. CASE AcceptShareDesktop(u)
  <2>1. PICK q \in Plugins : Becomes(u, q) /\ plugin[u].asked
    BY <1>1, AcceptEffect
  <2> QED BY <2>1, AskerBecomes
<1>2. CASE mediaTerminalRejectShareDesktop(u)
  <2>1. PICK q \in Plugins : Becomes(u, q) /\ plugin[u].asked
    BY <1>2, RejectEffect
  <2> QED BY <2>1, AskerBecomes
<1>3. CASE StopShareDesktop(u)
  <2>1. PICK q \in Plugins : Becomes(u, q) /\ Plain(plugin[u], q)
    BY <1>3, StopEffect
  <2> QED BY <2>1, AskerBecomes DEF Plain, AskerRests
<1>4. CASE OnTimer(u)
  <2>1. PICK q \in Plugins : Becomes(u, q) /\ (Plain(plugin[u], q) \/ q.S = plugin[u].S)
    BY <1>4, TimerEffect
  <2> QED BY <2>1, AskerBecomes DEF Plain, AskerRests
<1> QED BY <1>1, <1>2, <1>3, <1>4

LEMMA AskerCallback ==
  ASSUME Typed, NEW a \in Users, AskerRests(a), NEW u \in Users, onVncViewerCallBack(u)
  PROVE  AskerRests(a)'
<1> DEFINE p == plugin[u]
<1>1. PICK q \in Plugins : Becomes(u, q) /\ p.posted # << >> /\ (q.S = p.S \/ Plain(Popped(p), q))
  BY CallbackEffect
<1>2. p \in Plugins
  BY DEF Typed
<1>3. Popped(p).S = p.S
  BY <1>1, <1>2, PoppedKeeps
<1> QED BY <1>1, <1>3, AskerBecomes DEF Plain, AskerRests

LEMMA AskerCommand ==
  ASSUME Typed, NEW a \in Users, AskerRests(a), NEW u \in Users, handleVncCmd(u)
  PROVE  AskerRests(a)'
<1>1. PICK q \in Plugins, r \in Plugins :
        /\ plugin'[u] = q /\ plugin'[Peer(u)] = r /\ Leave(Gone(u, q))
        /\ r.S = plugin[Peer(u)].S
        /\ Plain(plugin[u], q) \/ q.S = plugin[u].S
  BY CmdEffect
<1>2. a = u \/ a = Peer(u)
  BY PeerIs
<1>3. Resting(plugin'[a].S)
  BY <1>1, <1>2 DEF AskerRests, Plain
<1>4. Gone(u, q) \in SUBSET Ends /\ Leave(Gone(u, q))
  BY <1>1 DEF Gone
<1>5. Silent(<<a, "S">>)'
  BY <1>4, EndsOf, LeaveSilent DEF AskerRests
<1> QED BY <1>3, <1>5 DEF AskerRests

LEMMA AskerServer ==
  ASSUME Typed, NEW a \in Users, AskerRests(a), NEW u \in Users, NEW x \in {"S", "V"},
         ShareServer(<<u, x>>) \/ Reconnects(<<u, x>>)
  PROVE  AskerRests(a)'
<1> DEFINE e == <<u, x>>
<1>1. CASE ShareServer(e)
  <2>1. PICK q \in Plugins :
          /\ plugin' = [plugin EXCEPT ![u] = q] /\ plugin[u][x].queue # << >>
          /\ x = "V" => q.S = plugin[u].S
          /\ \A y \in Ends \ {e} :
               /\ Kept("Created", inbox[y], inbox'[y]) /\ Echo(inbox[y], inbox'[y])
               /\ Outside(y) => Outside(y)' /\ inbox'[y] = inbox[y]
    BY <1>1, ShareServerEffect
  <2>2. u = a => x = "V"
    BY <2>1 DEF AskerRests, Resting
  <2>3. Resting(plugin'[a].S)
    BY <2>1, <2>2, RestsChange DEF AskerRests
  <2>4. <<a, "S">> \in Ends \ {e}
    BY <2>2, EndsOf
  <2>5. Silent(<<a, "S">>)'
    BY <2>1, <2>4 DEF AskerRests, Silent
  <2> QED BY <2>3, <2>5 DEF AskerRests
<1>2. CASE Reconnects(e)
  <2>1. PICK q \in Plugins :
          /\ plugin' = [plugin EXCEPT ![u] = q] /\ Leave({e})
          /\ plugin[u][x].state \notin {"UnInit", "NULL"}
          /\ x = "V" => q.S = plugin[u].S
    BY <1>2, ReconnectEffect
  <2>2. u = a => x = "V"
    BY <2>1 DEF AskerRests, Resting
  <2>3. Resting(plugin'[a].S)
    BY <2>1, <2>2, RestsChange DEF AskerRests
  <2>4. {e} \in SUBSET Ends
    BY DEF Ends
  <2>5. Silent(<<a, "S">>)'
    BY <2>1, <2>4, EndsOf, LeaveSilent DEF AskerRests
  <2> QED BY <2>3, <2>5 DEF AskerRests
<1> QED BY <1>1, <1>2

LEMMA AskerStep ==
  ASSUME Typed, NEW a \in Users, AskerRests(a), ~plugin[a].asked, [Next]_vars
  PROVE  AskerRests(a)'
<1>1. ASSUME NEW u \in Users, RequestShareDesktop(u) PROVE AskerRests(a)'
  <2>1. PICK q \in Plugins :
          plugin' = [plugin EXCEPT ![u] = q] /\ Leave({<<u, "V">>}) /\ q.S = plugin[u].S
    BY <1>1, RequestEffect
  <2>2. Resting(plugin'[a].S)
    BY <2>1, RestsChange DEF AskerRests
  <2>3. Silent(<<a, "S">>)'
    BY <2>1, EndsOf, LeaveSilent DEF AskerRests
  <2> QED BY <2>2, <2>3 DEF AskerRests
<1>2. ASSUME NEW u \in Users, ServerHandles(u) PROVE AskerRests(a)'
  <2>1. PICK q \in Plugins :
          /\ plugin' = [plugin EXCEPT ![u] = q] /\ inbox[<<u, "S">>] # << >>
          /\ inbox' = [inbox EXCEPT ![<<u, "S">>] = Tail(@)] /\ members' = members
    BY <1>2, ServerEffect
  <2>2. u # a
    BY <2>1 DEF AskerRests, Silent
  <2> QED BY <2>1, <2>2, EndsOf, AskerTakes
<1>3. ASSUME NEW u \in Users, ViewerHandles(u) PROVE AskerRests(a)'
  <2>1. PICK q \in Plugins :
          /\ plugin' = [plugin EXCEPT ![u] = q] /\ inbox[<<u, "V">>] # << >>
          /\ inbox' = [inbox EXCEPT ![<<u, "V">>] = Tail(@)] /\ members' = members
          /\ Resting(plugin[u].S) => Resting(q.S)
    BY <1>3, ViewerEffect
  <2>2. u = a => Resting(q.S)
    BY <2>1 DEF AskerRests
  <2> QED BY <2>1, <2>2, EndsOf, AskerTakes
<1>4. CASE RoomCloses
  <2>1. /\ plugin' = plugin
        /\ \A e \in Ends :
             /\ Kept("Created", inbox[e], inbox'[e]) /\ Echo(inbox[e], inbox'[e])
             /\ Outside(e) => Outside(e)' /\ inbox'[e] = inbox[e]
    BY <1>4, RoomClosesEffect
  <2> QED BY <2>1, EndsOf DEF AskerRests, Silent
<1>5. CASE UNCHANGED vars
  BY <1>5 DEF vars, AskerRests, Silent, Outside
<1> QED
  BY <1>1, <1>2, <1>3, <1>4, <1>5, Steps, AskerPage, AskerCallback, AskerCommand, AskerServer

-----------------------------------------------------------------------------
(* The share of the peer of the user who asks, in every step.               *)
LEMMA SteppedAside ==
  ASSUME Typed, NEW u \in Users, Fates(u), NEW w \in Users, w # u, NEW q,
         plugin' = [plugin EXCEPT ![w] = q], NEW gone \in SUBSET Ends, Leave(gone),
         <<u, "S">> \notin gone, breaks' = 0 => breaks = 0
  PROVE  Fates(u)'
<1>1. plugin'[u] = plugin[u]
  BY DEF Typed
<1>2. Keeps(plugin[u], plugin'[u])
  BY <1>1 DEF Keeps
<1>3. Echo(inbox[<<u, "S">>], inbox'[<<u, "S">>])
  BY EndsOf, LeaveFacts
<1> QED BY <1>2, <1>3, FateAside

LEMMA BecameAside ==
  ASSUME Typed, NEW u \in Users, Fates(u), NEW w \in Users, w # u, NEW q, Becomes(w, q)
  PROVE  Fates(u)'
<1>1. /\ plugin' = [plugin EXCEPT ![w] = q] /\ Leave(Gone(w, q)) /\ Gone(w, q) \in SUBSET Ends
      /\ <<u, "S">> \notin Gone(w, q) /\ breaks' = breaks
  BY DEF Becomes, Gone
<1> QED BY <1>1, SteppedAside

LEMMA EchoedAside ==
  ASSUME Typed, NEW u \in Users, Fates(u), plugin'[u] = plugin[u], breaks' = breaks,
         Echo(inbox[<<u, "S">>], inbox'[<<u, "S">>])
  PROVE  Fates(u)'
<1>1. Keeps(plugin[u], plugin'[u])
  BY DEF Keeps
<1> QED BY <1>1, FateAside

(* What the other page and window do. *)
LEMMA PageAside ==
  ASSUME Typed, NEW u \in Users, Fates(u), NEW w \in Users, w # u,
         \/ AcceptShareDesktop(w) \/ mediaTerminalRejectShareDesktop(w)
         \/ StopShareDesktop(w) \/ OnTimer(w) \/ onVncViewerCallBack(w)
  PROVE  Fates(u)'
<1>1. \E q \in Plugins : Becomes(w, q)
  BY AcceptEffect, RejectEffect, StopEffect, TimerEffect, CallbackEffect
<1> QED BY <1>1, BecameAside

LEMMA RequestAside ==
  ASSUME Typed, NEW u \in Users, Fates(u), NEW w \in Users, w # u, RequestShareDesktop(w)
  PROVE  Fates(u)'
<1>1. PICK q \in Plugins :
        plugin' = [plugin EXCEPT ![w] = q] /\ Leave({<<w, "V">>}) /\ breaks' = breaks
  BY RequestEffect
<1>2. {<<w, "V">>} \in SUBSET Ends /\ <<u, "S">> \notin {<<w, "V">>}
  BY DEF Ends
<1> QED BY <1>1, <1>2, SteppedAside

LEMMA CommandAside ==
  ASSUME Typed, NEW u \in Users, Fates(u), handleVncCmd(Peer(u))
  PROVE  Fates(u)'
<1> DEFINE w == Peer(u)
           r == [plugin[u] EXCEPT !.sent = Tail(plugin[u].sent)]
<1>1. w \in Users /\ w # u /\ Peer(w) = u /\ plugin[u] \in Plugins
  BY PeerIs DEF Typed
<1>2. PICK q : /\ plugin' = [plugin EXCEPT ![w] = q, ![u].sent = Tail(@)]
               /\ Leave(Gone(w, q)) /\ breaks' = breaks
  BY <1>1 DEF handleVncCmd
<1>3. plugin'[u] = r
  BY <1>1, <1>2 DEF Typed
<1>4. Keeps(plugin[u], r)
  BY <1>1 DEF Keeps, Plugins
<1>5. Echo(inbox[<<u, "S">>], inbox'[<<u, "S">>])
  <2>1. Gone(w, q) \in SUBSET Ends /\ <<u, "S">> \notin Gone(w, q)
    BY <1>1 DEF Gone
  <2> QED BY <1>2, <2>1, EndsOf, LeaveFacts
<1> QED BY <1>2, <1>3, <1>4, <1>5, FateAside

LEMMA MessageAside ==
  ASSUME Typed, NEW u \in Users, Fates(u), NEW w \in Users, w # u,
         ServerHandles(w) \/ ViewerHandles(w)
  PROVE  Fates(u)'
<1>1. PICK x \in {"S", "V"} : \E q \in Plugins :
        /\ plugin' = [plugin EXCEPT ![w] = q] /\ inbox' = [inbox EXCEPT ![<<w, x>>] = Tail(@)]
        /\ breaks' = breaks
  BY ServerEffect, ViewerEffect
<1>2. plugin'[u] = plugin[u] /\ inbox'[<<u, "S">>] = inbox[<<u, "S">>]
  BY <1>1, EndsOf DEF Typed
<1> QED BY <1>1, <1>2, EchoSame, EchoedAside

(* The share server and the connections. *)
LEMMA ServerAside ==
  ASSUME Typed, NEW u \in Users, Fates(u), NEW w \in Users, w # u, NEW x \in {"S", "V"},
         ShareServer(<<w, x>>) \/ Reconnects(<<w, x>>)
  PROVE  Fates(u)'
<1> DEFINE e == <<w, x>>
<1>0. <<u, "S">> \in Ends \ {e}
  BY EndsOf
<1>1. CASE ShareServer(e)
  <2>1. PICK q \in Plugins :
          /\ plugin' = [plugin EXCEPT ![w] = q] /\ breaks' = breaks
          /\ \A y \in Ends \ {e} :
               /\ Kept("Created", inbox[y], inbox'[y]) /\ Echo(inbox[y], inbox'[y])
               /\ Outside(y) => Outside(y)' /\ inbox'[y] = inbox[y]
    BY <1>1, ShareServerEffect
  <2>2. plugin'[u] = plugin[u]
    BY <2>1 DEF Typed
  <2> QED BY <1>0, <2>1, <2>2, EchoedAside
<1>2. CASE Reconnects(e)
  <2>1. PICK q \in Plugins : plugin' = [plugin EXCEPT ![w] = q] /\ Leave({e})
    BY <1>2, ReconnectEffect
  <2>2. breaks' = breaks + 1 /\ breaks \in Nat
    BY <1>2, SessionAssumption DEF Reconnects, Typed
  <2>3. breaks' = 0 => breaks = 0
    BY <2>2
  <2>4. {e} \in SUBSET Ends /\ <<u, "S">> \notin {e}
    BY <1>0 DEF Ends
  <2> QED BY <2>1, <2>3, <2>4, SteppedAside
<1> QED BY <1>1, <1>2

LEMMA CloseAside ==
  ASSUME Typed, NEW u \in Users, Fates(u), RoomCloses
  PROVE  Fates(u)'
<1>1. /\ UNCHANGED <<plugin, used, breaks>>
      /\ \A e \in Ends :
           /\ Kept("Created", inbox[e], inbox'[e]) /\ Echo(inbox[e], inbox'[e])
           /\ Outside(e) => Outside(e)' /\ inbox'[e] = inbox[e]
  BY RoomClosesEffect
<1> QED BY <1>1, EndsOf, EchoedAside

(* The peer of the user who asks never asks itself. *)
LEMMA SharerOwnStep ==
  ASSUME Typed, NEW a \in Users, NEW ph \in Phases, At(ph, a), NEW u, u = Peer(a), Fates(u),
         \/ AcceptShareDesktop(u) \/ mediaTerminalRejectShareDesktop(u) \/ StopShareDesktop(u)
         \/ OnTimer(u) \/ onVncViewerCallBack(u) \/ handleVncCmd(u)
         \/ ServerHandles(u) \/ ViewerHandles(u)
  PROVE  Fates(u)'
<1>1. u \in Users /\ Peer(u) = a
  BY PeerIs
<1>2. /\ Resting(plugin[u].V) /\ "Create" \notin plugin[u].timers
      /\ Without("CreateRoom", plugin[u].posted)
      /\ plugin[u].asked => ph = "asked"
      /\ ph # "accepted" => Uninvited(plugin[u]) /\ inbox[<<u, "S">>] = << >>
      /\ inbox[<<u, "V">>] = << >>
  BY DEF At, Asked, Quiet, Silent
<1>3. CASE AcceptShareDesktop(u)
  <2>1. plugin[u].asked
    BY <1>3 DEF AcceptShareDesktop
  <2> QED BY <1>1, <1>2, <1>3, <2>1, AcceptFate
<1>4. CASE mediaTerminalRejectShareDesktop(u)
  <2>1. plugin[u].asked
    BY <1>4 DEF mediaTerminalRejectShareDesktop
  <2>2. Resting(plugin[u].S)
    BY <1>2, <2>1 DEF Uninvited, Idle
  <2> QED BY <1>1, <1>4, <2>2, RejectFate
<1>5. CASE StopShareDesktop(u)
  BY <1>1, <1>2, <1>5, StopFate
<1>6. CASE OnTimer(u)
  BY <1>1, <1>2, <1>6, TimerFate
<1>7. CASE onVncViewerCallBack(u)
  BY <1>1, <1>2, <1>7, CallbackFate
<1>8. CASE handleVncCmd(u)
  <2> DEFINE s == plugin[a].sent
  <2>1. s # << >>
    BY <1>1, <1>8 DEF handleVncCmd
  <2>2. s \in Seq(Commands) /\ Without("Rejected", s) /\ Only(ph, "sent", "Request", s)
    BY DEF Typed, Plugins, At, Asking
  <2>3. /\ Without("Rejected", s) => Head(s).type # "Rejected"
        /\ Without("Request", s) => Head(s).type # "Request"
    <3> HIDE DEF s
    <3> QED BY <2>1, <2>2, TakeNote
  <2>4. Head(s).type = "Request" => ph = "sent"
    BY <2>2, <2>3 DEF Only
  <2>5. Head(s).type = "Request" => Resting(plugin[u].S)
    BY <1>2, <2>4 DEF Uninvited, Idle
  <2> QED BY <1>1, <1>2, <1>8, <2>2, <2>3, <2>5, CommandFate
<1>9. CASE ServerHandles(u)
  BY <1>1, <1>9, SharerFate
<1>10. CASE ViewerHandles(u)
  BY <1>2, <1>10 DEF ViewerHandles
<1> QED BY <1>3, <1>4, <1>5, <1>6, <1>7, <1>8, <1>9, <1>10

LEMMA ShareStep ==
  ASSUME Typed, NEW a \in Users, Requesters \subseteq {a}, NEW ph \in Phases, At(ph, a),
         NEW u, u = Peer(a), Fates(u), [Next]_vars
  PROVE  Fates(u)'
<1>1. u \in Users /\ Peer(u) = a /\ Users = {u, a} /\ u # a
  BY PeerIs
<1>2. ASSUME NEW w \in Requesters, RequestShareDesktop(w) PROVE Fates(u)'
  <2>1. w = a
    BY <1>2
  <2> QED BY <1>1, <1>2, <2>1, RequestAside
<1>3. ASSUME NEW w \in Users,
             \/ AcceptShareDesktop(w) \/ mediaTerminalRejectShareDesktop(w) \/ StopShareDesktop(w)
             \/ OnTimer(w) \/ onVncViewerCallBack(w) \/ handleVncCmd(w)
             \/ ServerHandles(w) \/ ViewerHandles(w)
      PROVE  Fates(u)'
  <2>1. CASE w = u
    BY <1>3, <2>1, SharerOwnStep
  <2>2. CASE w = a
    BY <1>1, <1>3, <2>2, PageAside, CommandAside, MessageAside
  <2> QED BY <1>1, <2>1, <2>2
<1>4. ASSUME NEW w \in Users, NEW x \in {"S", "V"}, ShareServer(<<w, x>>) \/ Reconnects(<<w, x>>)
      PROVE  Fates(u)'
  <2>1. CASE w = a
    BY <1>1, <1>4, <2>1, ServerAside
  <2>2. CASE w = u /\ x = "S"
    BY <1>1, <1>4, <2>2, AnswerFate, SharerReconnectFate
  <2>3. CASE w = u /\ x = "V"
    <3>1. plugin[u].V.state = "UnInit" /\ plugin[u].V.queue = << >>
      BY DEF At, Asked, Resting
    <3> QED BY <1>4, <2>3, <3>1 DEF ShareServer, Reconnects
  <2> QED BY <1>1, <2>1, <2>2, <2>3
<1>5. CASE RoomCloses
  BY <1>1, <1>5, CloseAside
<1>6. CASE UNCHANGED vars
  BY <1>6 DEF vars, Fates
<1> QED BY <1>2, <1>3, <1>4, <1>5, <1>6, Steps

LEMMA InitShare ==
  ASSUME Init, NEW a \in Users
  PROVE  AskerRests(a) /\ Fates(Peer(a))
<1>1. plugin[a] = Fresh /\ plugin[Peer(a)] = Fresh /\ \A e \in Ends : inbox[e] = << >> /\ Outside(e)
  BY PeerIs DEF Init, Outside
<1>2. Resting(Fresh.S)
  BY DEF Fresh, End, Resting
<1>3. inbox[<<a, "S">>] = << >> /\ Outside(<<a, "S">>) /\ inbox[<<Peer(a), "S">>] = << >>
  BY <1>1, EndsOf
<1> HIDE DEF Fresh
<1> QED BY <1>1, <1>2, <1>3, FateResting DEF AskerRests, Silent, Fates

(* When nothing is under way the share has nothing left to hang on but what *)
(* the plugin says of it.                                                   *)
LEMMA RestIsKnown ==
  ASSUME NEW a \in Users, AskerRests(a), Fates(Peer(a))
  PROVE  SharedIsKnown
<1>1. ASSUME AtRest, NEW u \in Users, plugin[u].S.state = "Sharing"
      PROVE  plugin[u].server = "Sharing" /\ (breaks = 0 => plugin[u].told)
  <2>1. u = Peer(a)
    BY <1>1, PeerIs DEF AskerRests, Resting
  <2>2. /\ plugin[u].posted = << >> /\ plugin[u].S.queue = << >>
        /\ inbox[<<u, "S">>] = << >>
    BY <1>1, EndsOf DEF AtRest
  <2>3. \A t : Without(t, << >>)
    BY KeptEmpty
  <2> QED BY <1>1, <2>1, <2>2, <2>3 DEF Fates, Fate, Heard, Pending
<1> QED BY <1>1 DEF SharedIsKnown

(* However a page's one request of a peer that does not ask goes on: when   *)
(* nothing is under way any more, a desktop that is still shared counts as  *)
(* shared in the plugin, and its page was told so last unless a connection  *)
(* broke.  No stop, answer, callback or timer that crosses the share loses  *)
(* sight of it.                                                             *)
THEOREM SharedKnown ==
  ASSUME NEW a \in Users, Requesters \subseteq {a}, MaxRequests \leq 1
  PROVE  Spec => []SharedIsKnown
<1> DEFINE Inv == OneRequest(a) /\ AskerRests(a) /\ Fates(Peer(a))
<1>1. Init => Inv
  BY InitOneRequest, InitShare
<1>2. ASSUME Steady, Inv, [Next]_vars PROVE Inv'
  <2>1. Typed
    BY <1>2 DEF Steady
  <2>2. PICK ph \in Phases : At(ph, a)
    BY <1>2 DEF OneRequest
  <2>3. OneRequest(a)'
    BY <1>2, <2>1, OneRequestStep
  <2>4. AskerRests(a)'
    BY <1>2, <2>1, <2>2, AskerStep DEF At, Asking
  <2>5. Fates(Peer(a))'
    BY <1>2, <2>1, <2>2, ShareStep
  <2> QED BY <2>3, <2>4, <2>5
<1>3. Inv => SharedIsKnown
  BY RestIsKnown
<1> HIDE DEF Inv
<1> QED BY <1>1, <1>2, <1>3, SessionInvariance, PTL DEF Spec
=============================================================================
