--------------------------- MODULE RoomFeedProofs ---------------------------
(***************************************************************************)
(* Rooms, their messages and what is shown of them, for any number of      *)
(* clients, rooms, lines, operations, overlaps and restarts: a room shows  *)
(* only messages that were posted in it, also after restarts that lost     *)
(* rows, and a viewer is shown only messages of the room on the screen.    *)
(* As long as operations do not overlap, a restart brings back every room, *)
(* and everybody online is shown the room they are in once nothing is in   *)
(* progress: its topic, its members if their list fits in a frame, the     *)
(* sizes of all rooms and its last messages.                               *)
(*                                                                         *)
(* The invariant behind the last of these looks ahead: it speaks of the    *)
(* screens as they will be when the busy thread has taken the steps in its *)
(* queue.  A step then changes nothing, and what remains is to show that   *)
(* every operation, taken as a whole, leads from screens that follow to    *)
(* screens that do.                                                        *)
(***************************************************************************)
EXTENDS RoomFeed, FiniteSetTheorems, SequenceTheorems, WellFoundedInduction, TLAPS

-----------------------------------------------------------------------------
(***************************************************************************)
(* Types of the writes, the frames and the steps.                          *)
(***************************************************************************)
TopicVals == Topics \cup {Lobby, Absent}
CountVals ==
    {<<>>} \cup UNION {[D -> Nat \cup {Cardinality(S) : S \in SUBSET Viewers}] :
                           D \in SUBSET RoomIds}

WriteType ==
    [kind : {"room"}, id : RoomIds, val : RoomRow]
      \cup [kind : {"topic"}, id : RoomIds, val : TopicVals]
      \cup [kind : {"message"}, id : RoomIds, val : Message]

FrameType ==
    [kind : {"users"}, room : RoomIds, val : SUBSET Viewers]
      \cup [kind : {"topic", "joined"}, room : RoomIds, val : TopicVals]
      \cup [kind : {"text"}, room : RoomIds, val : Seq(Message)]
      \cup [kind : {"rooms"}, room : {0}, val : CountVals]
      \cup [kind : {"private"}, room : {0}, val : {Absent}]

StepType ==
    [op : {"deliver"}, to : SUBSET Viewers, frame : FrameType]
      \cup [op : {"deliverAll"}, frame : [kind : {"rooms"}, room : {0}, val : CountVals]]
      \cup [op : {"store"}, write : WriteType]
      \cup [op : {"post", "users", "persist"}, room : RoomIds]
      \cup [op : {"lists"}]
      \cup [op : {"move"}, who : Viewers, room : RoomIds, tell : BOOLEAN]

DbType ==
    [rooms : [RoomIds -> RoomRow \cup {Absent}], messages : [RoomIds -> Seq(Message)],
     keys : {[n \in {} |-> Absent]}, bans : {{}}]

-----------------------------------------------------------------------------
(***************************************************************************)
(* The inductive invariant of the rooms.                                   *)
(***************************************************************************)

\* The messages that were posted in room r, and those posted in the room that
\* has the id among the rooms rs.
LinesOf(r)       == {m \in Message : m.room = r}
GoodLines(rs, r) == {m \in Message : m.room = r /\ m.born = rs[r].born}

\* A write is of a room of rs.
WriteOK(rs, w) ==
    /\ rs[w.id] # Absent
    /\ w.kind # "topic" => w.val.born = rs[w.id].born
    /\ w.kind = "message" => w.val.room = w.id
GoodWrites(rs) == {w \in WriteType : WriteOK(rs, w)}

\* So is the step that makes it; a text has the lines of its room.
StepOK(rs, c) ==
    /\ c.op \in {"post", "persist", "move"} => rs[c.room] # Absent
    /\ c.op = "store" => c.write \in GoodWrites(rs)
    /\ c.op = "deliver" => (c.frame.kind = "text" => c.frame.val \in Seq(LinesOf(c.frame.room)))
GoodSteps(rs) == {c \in StepType : StepOK(rs, c)}

\* A row that is in the database is of the room in memory that has its id, and
\* so are the messages; there are none without a row.
Fits(d, rs) ==
    /\ d \in DbType /\ d.rooms[DefaultRoom] # Absent
    /\ \A r \in RoomIds :
          /\ d.rooms[r] # Absent => rs[r] # Absent /\ d.rooms[r].born = rs[r].born
          /\ d.rooms[r] = Absent => d.messages[r] = <<>>
          /\ d.messages[r] \in Seq(GoodLines(rs, r))

RoomsInv ==
    /\ rooms \in [RoomIds -> Room \cup {Absent}] /\ rooms[DefaultRoom] # Absent
    /\ \A r \in RoomIds : rooms[r] # Absent => rooms[r].recent \in Seq(GoodLines(rooms, r))

PlacesInv ==
    /\ at \in [Viewers -> {0} \cup RoomIds]
    /\ \A v \in Viewers : at[v] # 0 => rooms[at[v]] # Absent

QueuesInv == todo \in [Threads -> Seq(GoodSteps(rooms))] /\ offered \in Seq(GoodWrites(rooms))

FeedInv ==
    /\ RoomsInv /\ PlacesInv /\ QueuesInv /\ Fits(db, rooms)
    /\ posts \in Nat /\ ops \in Nat

-----------------------------------------------------------------------------
(***************************************************************************)
(* The inductive invariant of the screens.                                 *)
(***************************************************************************)
ViewType ==
    [room : 0 .. Gone, topic : TopicVals, users : SUBSET Viewers, lines : Seq(Message),
     rooms : CountVals]

\* The lines that may be on a screen that shows room r.
ShownLines(r) == {m \in Message : m.room \in {0, r}}

\* What puts messages on the host's screen, and what changes its room.
HostText(c) == c.op = "deliver" /\ Host \in c.to /\ c.frame.kind = "text"
HostJoin(c) == c.op = "deliver" /\ Host \in c.to /\ c.frame.kind = "joined"

\* A step shows the host no message of room h, and leads to none.
Harmless(c, h) == ~HostText(c) /\ (c.op = "post" => c.room # h)

\* A step shows the host nothing but room h.
ShowsOnly(c, h) == HostText(c) \/ HostJoin(c) => c.frame.room = h

\* No step of a queue shows the host anything but room h, and nobody moves
\* before its last step.
QueueShowsOnly(q, h) ==
    \A i \in 1 .. Len(q) : ShowsOnly(q[i], h) /\ (q[i].op = "move" => i = Len(q))

\* The frame that brings the host to its room is before any message of room h.
JoinFirst(q, h) ==
    \E j \in 1 .. Len(q) : HostJoin(q[j]) /\ \A i \in 1 .. j - 1 : Harmless(q[i], h)

\* The host is in a room that its screen does not show yet.
HostBehind == at[Host] # 0 /\ view[Host].room # at[Host]

\* While the threads do not overlap.
OneBusy      == \A t, u \in Threads : ~Idle(t) /\ ~Idle(u) => t = u
HostQueues   == \A t \in Threads : QueueShowsOnly(todo[t], at[Host])
HostCatchesUp == HostBehind => \E t \in Threads : JoinFirst(todo[t], at[Host])

HostInv ==
    /\ OneBusy /\ HostQueues /\ HostCatchesUp
    /\ view[Host].lines \in Seq(ShownLines(view[Host].room))

ViewsInv ==
    /\ view \in [Viewers -> ViewType] /\ view[Host].room # Gone
    /\ \A c \in Clients : view[c].lines \in Seq(ShownLines(view[c].room))

ScreensInv == ViewsInv /\ overlaps \in Nat /\ (~Raced => HostInv)

-----------------------------------------------------------------------------
(***************************************************************************)
(* Sequences.                                                              *)
(***************************************************************************)

\* The constants.
LEMMA FeedFacts ==
    /\ Host \in Viewers /\ Clients \subseteq Viewers /\ Host \notin Clients
    /\ MaxRooms \in Nat /\ MaxRooms >= 1 /\ HistoryLimit \in Nat /\ MaxLines \in Nat
    /\ DefaultRoom \in RoomIds /\ DefaultRoom # 0
    /\ RoomIds \subseteq Nat /\ 0 \notin RoomIds /\ Gone \notin RoomIds /\ Gone # 0
    /\ Absent \notin RoomRow /\ Absent \notin Room
BY FeedAssumption, AbsentAssumption DEF Viewers, DefaultRoom, RoomIds, Gone

\* A sequence is a sequence over every set that holds its elements.
LEMMA SeqOver ==
    ASSUME NEW S, NEW T, NEW s \in Seq(S), \A i \in 1 .. Len(s) : s[i] \in T
    PROVE  s \in Seq(T)
<1>1. Len(s) \in Nat /\ s \in [1 .. Len(s) -> T]
  OBVIOUS
<1>. QED BY <1>1

\* A larger set has more sequences.
LEMMA SeqGrows ==
    ASSUME NEW S, NEW T, S \subseteq T, NEW s \in Seq(S)
    PROVE  s \in Seq(T)
<1>1. \A i \in 1 .. Len(s) : s[i] \in S
  OBVIOUS
<1>. QED BY <1>1, SeqOver

\* Keep leaves a part of a sequence.
LEMMA KeepIn ==
    ASSUME NEW S, NEW s \in Seq(S), NEW n \in Nat
    PROVE  Keep(s, n) \in Seq(S)
<1>1. CASE Len(s) <= n
  BY <1>1 DEF Keep
<1>2. CASE ~(Len(s) <= n)
  <2>1. Len(s) - n + 1 \in Nat /\ Len(s) - n + 1 >= 1 /\ Len(s) \in Nat
    BY <1>2
  <2>2. SubSeq(s, Len(s) - n + 1, Len(s)) \in Seq(S)
    BY <2>1
  <2>. QED BY <1>2, <2>2 DEF Keep, Latest
<1>. QED BY <1>1, <1>2

\* Concatenation, and the first elements and the rest.
LEMMA Joined ==
    ASSUME NEW S, NEW a \in Seq(S), NEW b \in Seq(S)
    PROVE  /\ a \o b \in Seq(S) /\ Len(a \o b) = Len(a) + Len(b)
           /\ Len(a) \in Nat /\ Len(b) \in Nat
           /\ \A i \in 1 .. Len(a) : (a \o b)[i] = a[i]
           /\ \A i \in 1 .. Len(b) : (a \o b)[Len(a) + i] = b[i]
OBVIOUS

\* A non-empty queue has a head and a rest.
LEMMA QueueParts ==
    ASSUME NEW S, NEW q \in Seq(S), q # <<>>
    PROVE  /\ Head(q) \in S /\ Head(q) = q[1] /\ Tail(q) \in Seq(S)
           /\ Len(q) \in Nat /\ Len(q) >= 1 /\ Len(Tail(q)) = Len(q) - 1
           /\ \A i \in 1 .. Len(Tail(q)) : Tail(q)[i] = q[i + 1]
OBVIOUS

\* Short sequences.
LEMMA Short ==
    ASSUME NEW S
    PROVE  /\ <<>> \in Seq(S)
           /\ \A a \in S : <<a>> \in Seq(S)
           /\ \A a, b \in S : <<a, b>> \in Seq(S)
           /\ \A a, b, c \in S : <<a, b, c>> \in Seq(S)
           /\ \A a, b, c, d \in S : <<a, b, c, d>> \in Seq(S)
OBVIOUS

\* Two steps, one after the other.
LEMMA PairJoined ==
    ASSUME NEW a, NEW b
    PROVE  <<a>> \o <<b>> = <<a, b>>
<1>1. <<a>> \in Seq({a, b}) /\ <<b>> \in Seq({a, b}) /\ <<a, b>> \in Seq({a, b})
  BY Short
<1>2. <<a>> \o <<b>> \in Seq({a, b})
  BY <1>1
<1>3. Len(<<a>> \o <<b>>) = 2 /\ Len(<<a, b>>) = 2
  BY <1>1
<1>4. \A i \in 1 .. 2 : (<<a>> \o <<b>>)[i] = <<a, b>>[i]
  BY <1>1
<1>. QED BY <1>1, <1>2, <1>3, <1>4, SeqEqual

\* An empty sequence adds nothing.
LEMMA NothingJoined ==
    ASSUME NEW S, NEW a \in Seq(S), NEW b \in Seq(S), Len(b) = 0
    PROVE  a \o b = a
<1>1. b = <<>>
  OBVIOUS
<1>. QED BY <1>1

\* SetToSeq enumerates a finite set.
LEMMA EnumeratedIn ==
    ASSUME NEW S, IsFiniteSet(S)
    PROVE  SetToSeq(S) \in Seq(S)
<1>1. Cardinality(S) \in Nat /\ ExistsBijection(1 .. Cardinality(S), S)
  BY FS_CardinalityType
<1>2. \E g \in [1 .. Cardinality(S) -> S] : IsInjective(g)
  BY <1>1 DEF ExistsBijection, Bijection, Injection
<1>3. SetToSeq(S) \in [1 .. Cardinality(S) -> S]
  BY <1>2 DEF SetToSeq
<1>. QED BY <1>1, <1>3

-----------------------------------------------------------------------------
(***************************************************************************)
(* Steps and writes.                                                       *)
(***************************************************************************)

\* The fields of a pending step.
LEMMA StepFields ==
    ASSUME NEW c \in StepType
    PROVE  /\ c.op = "deliver" => c.to \in SUBSET Viewers /\ c.frame \in FrameType
           /\ c.op = "deliverAll" =>
                 c.frame \in [kind : {"rooms"}, room : {0}, val : CountVals]
           /\ c.op = "store" => c.write \in WriteType
           /\ c.op \in {"post", "users", "persist"} => c.room \in RoomIds
           /\ c.op = "move" => c.who \in Viewers /\ c.room \in RoomIds /\ c.tell \in BOOLEAN
BY DEF StepType

\* The fields of a write.
LEMMA WriteFields ==
    ASSUME NEW w \in WriteType
    PROVE  /\ w.id \in RoomIds /\ w.kind \in {"room", "topic", "message"}
           /\ w.kind = "room" => w.val \in RoomRow
           /\ w.kind = "topic" => w.val \in TopicVals
           /\ w.kind = "message" => w.val \in Message
BY DEF WriteType

\* The steps of the operations.
LEMMA RoomSteps ==
    ASSUME NEW rs, NEW r \in RoomIds
    PROVE  /\ Users(r) \in GoodSteps(rs) /\ Lists \in GoodSteps(rs)
           /\ rs[r] # Absent => Post(r) \in GoodSteps(rs) /\ Persist(r) \in GoodSteps(rs)
           /\ rs[r] # Absent => \A v \in Viewers, b \in BOOLEAN : Move(v, r, b) \in GoodSteps(rs)
<1>1. /\ Users(r) \in StepType /\ Lists \in StepType
      /\ Post(r) \in StepType /\ Persist(r) \in StepType
  BY DEF StepType, Users, Lists, Post, Persist
<1>2. \A v \in Viewers, b \in BOOLEAN : Move(v, r, b) \in StepType
  BY DEF StepType, Move
<1>3. /\ Users(r).op = "users" /\ Lists.op = "lists" /\ Post(r).op = "post" /\ Post(r).room = r
      /\ Persist(r).op = "persist" /\ Persist(r).room = r
  BY DEF Users, Lists, Post, Persist
<1>4. \A v \in Viewers, b \in BOOLEAN : Move(v, r, b).op = "move" /\ Move(v, r, b).room = r
  BY DEF Move
<1>. QED BY <1>1, <1>2, <1>3, <1>4 DEF GoodSteps, StepOK

\* A write is queued.
LEMMA StoreSteps ==
    ASSUME NEW rs, NEW w \in GoodWrites(rs)
    PROVE  Store(w) \in GoodSteps(rs)
<1>1. w \in WriteType
  BY DEF GoodWrites
<1>2. Store(w) \in StepType
  BY <1>1 DEF StepType, Store
<1>3. Store(w).op = "store" /\ Store(w).write = w
  BY DEF Store
<1>. QED BY <1>2, <1>3 DEF GoodSteps, StepOK

\* A frame is delivered.
LEMMA DeliverSteps ==
    ASSUME NEW rs, NEW to \in SUBSET Viewers, NEW f \in FrameType,
           f.kind = "text" => f.val \in Seq(LinesOf(f.room))
    PROVE  Deliver(to, f) \in GoodSteps(rs)
<1>1. Deliver(to, f) \in StepType
  BY DEF StepType, Deliver
<1>2. Deliver(to, f).op = "deliver" /\ Deliver(to, f).frame = f
  BY DEF Deliver
<1>. QED BY <1>1, <1>2 DEF GoodSteps, StepOK

\* The frames.
LEMMA Frames ==
    ASSUME NEW r \in RoomIds
    PROVE  /\ \A users \in SUBSET Viewers : /\ UserList(r, users) \in FrameType
                                             /\ UserList(r, users).kind = "users"
           /\ \A topic \in TopicVals : /\ RoomTopic(r, topic) \in FrameType
                                       /\ RoomTopic(r, topic).kind = "topic"
                                       /\ RoomJoined(r, topic) \in FrameType
                                       /\ RoomJoined(r, topic).kind = "joined"
                                       /\ RoomJoined(r, topic).room = r
           /\ \A lines \in Seq(Message) : /\ RoomText(r, lines) \in FrameType
                                          /\ RoomText(r, lines).kind = "text"
                                          /\ RoomText(r, lines).room = r
                                          /\ RoomText(r, lines).val = lines
BY DEF FrameType, UserList, RoomTopic, RoomJoined, RoomText

\* Frames that are of no room.
LEMMA PlainFrames ==
    /\ Whisper \in FrameType /\ Whisper.kind = "private"
    /\ Counts \in CountVals /\ RoomList(Counts) \in FrameType /\ RoomList(Counts).kind = "rooms"
    /\ RoomList(Counts) \in [kind : {"rooms"}, room : {0}, val : CountVals]
<1>1. Counts \in CountVals
  <2>. DEFINE D == {i \in RoomIds : Exists(i)}
  <2>1. D \in SUBSET RoomIds
    OBVIOUS
  <2>2. \A r \in D : Members(r) \in SUBSET Viewers
    BY DEF Members
  <2>3. Counts \in [D -> {Cardinality(S) : S \in SUBSET Viewers}]
    BY <2>2 DEF Counts
  <2>4. Counts \in [D -> Nat \cup {Cardinality(S) : S \in SUBSET Viewers}]
    BY <2>3
  <2>. QED BY <2>1, <2>4 DEF CountVals
<1>. QED BY <1>1 DEF FrameType, Whisper, RoomList

\* Writes of the room that is in memory.
LEMMA RoomWrites ==
    ASSUME NEW rs, NEW r \in RoomIds, rs[r] # Absent
    PROVE  /\ \A row \in RoomRow : row.born = rs[r].born => RoomWrite(r, row) \in GoodWrites(rs)
           /\ \A topic \in TopicVals : TopicWrite(r, topic) \in GoodWrites(rs)
           /\ \A m \in GoodLines(rs, r) : MessageWrite(r, m) \in GoodWrites(rs)
<1>1. ASSUME NEW row \in RoomRow, row.born = rs[r].born
      PROVE  RoomWrite(r, row) \in GoodWrites(rs)
  <2>1. RoomWrite(r, row) \in WriteType
    BY DEF RoomWrite, WriteType
  <2>2. RoomWrite(r, row).kind = "room" /\ RoomWrite(r, row).id = r /\ RoomWrite(r, row).val = row
    BY DEF RoomWrite
  <2>. QED BY <1>1, <2>1, <2>2 DEF GoodWrites, WriteOK
<1>2. ASSUME NEW topic \in TopicVals
      PROVE  TopicWrite(r, topic) \in GoodWrites(rs)
  <2>1. TopicWrite(r, topic) \in WriteType
    BY DEF TopicWrite, WriteType
  <2>2. TopicWrite(r, topic).kind = "topic" /\ TopicWrite(r, topic).id = r
    BY DEF TopicWrite
  <2>. QED BY <1>2, <2>1, <2>2 DEF GoodWrites, WriteOK
<1>3. ASSUME NEW m \in GoodLines(rs, r)
      PROVE  MessageWrite(r, m) \in GoodWrites(rs)
  <2>1. m \in Message /\ m.room = r /\ m.born = rs[r].born
    BY DEF GoodLines
  <2>2. MessageWrite(r, m) \in WriteType
    BY <2>1 DEF MessageWrite, WriteType
  <2>3. /\ MessageWrite(r, m).kind = "message" /\ MessageWrite(r, m).id = r
        /\ MessageWrite(r, m).val = m
    BY DEF MessageWrite
  <2>. QED BY <2>1, <2>2, <2>3 DEF GoodWrites, WriteOK
<1>. QED BY <1>1, <1>2, <1>3

-----------------------------------------------------------------------------
(***************************************************************************)
(* Rooms are added and never removed.                                      *)
(***************************************************************************)

\* What is right for some rooms is right when they keep their birth.
LEMMA Grown ==
    ASSUME NEW rs, NEW ns,
           \A r \in RoomIds : rs[r] # Absent => ns[r] # Absent /\ ns[r].born = rs[r].born
    PROVE  /\ GoodWrites(rs) \subseteq GoodWrites(ns) /\ GoodSteps(rs) \subseteq GoodSteps(ns)
           /\ \A d : Fits(d, rs) => Fits(d, ns)
           /\ \A r \in RoomIds : rs[r] # Absent => GoodLines(ns, r) = GoodLines(rs, r)
<1>1. ASSUME NEW w \in GoodWrites(rs) PROVE w \in GoodWrites(ns)
  <2>1. w \in WriteType /\ WriteOK(rs, w) /\ w.id \in RoomIds
    BY WriteFields DEF GoodWrites
  <2>2. WriteOK(ns, w)
    BY <2>1 DEF WriteOK
  <2>. QED BY <2>1, <2>2 DEF GoodWrites
<1>2. ASSUME NEW c \in GoodSteps(rs) PROVE c \in GoodSteps(ns)
  <2>1. c \in StepType /\ StepOK(rs, c)
    BY DEF GoodSteps
  <2>2. c.op \in {"post", "persist", "move"} => c.room \in RoomIds
    BY <2>1, StepFields
  <2>3. StepOK(ns, c)
    BY <1>1, <2>1, <2>2 DEF StepOK
  <2>. QED BY <2>1, <2>3 DEF GoodSteps
<1>3. \A r \in RoomIds : rs[r] # Absent => GoodLines(ns, r) = GoodLines(rs, r)
  BY DEF GoodLines
<1>4. ASSUME NEW d, Fits(d, rs) PROVE Fits(d, ns)
  <2>1. d \in DbType /\ d.rooms[DefaultRoom] # Absent
    BY <1>4 DEF Fits
  <2>2. ASSUME NEW r \in RoomIds
        PROVE  /\ d.rooms[r] # Absent => ns[r] # Absent /\ d.rooms[r].born = ns[r].born
               /\ d.rooms[r] = Absent => d.messages[r] = <<>>
               /\ d.messages[r] \in Seq(GoodLines(ns, r))
    <3>1. CASE d.rooms[r] = Absent
      <4>1. d.messages[r] = <<>>
        BY <1>4, <3>1 DEF Fits
      <4>. QED BY <3>1, <4>1, Short
    <3>2. CASE d.rooms[r] # Absent
      <4>1. rs[r] # Absent /\ d.rooms[r].born = rs[r].born
            /\ d.messages[r] \in Seq(GoodLines(rs, r))
        BY <1>4, <3>2 DEF Fits
      <4>. QED BY <1>3, <3>2, <4>1
    <3>. QED BY <3>1, <3>2
  <2>. QED BY <2>1, <2>2 DEF Fits
<1>. QED BY <1>1, <1>2, <1>3, <1>4

\* A thread goes on: the queue keeps its steps and gets good ones.
LEMMA ContinueOK ==
    ASSUME NEW G, NEW H, G \subseteq H, todo \in [Threads -> Seq(G)], NEW t \in Threads,
           todo[t] # <<>>, NEW steps \in Seq(H), Continue(t, steps)
    PROVE  todo' \in [Threads -> Seq(H)]
<1>1. \A u \in Threads : todo[u] \in Seq(H)
  BY SeqGrows
<1>2. Tail(todo[t]) \in Seq(H)
  BY <1>1, QueueParts
<1>3. steps \o Tail(todo[t]) \in Seq(H)
  BY <1>2, Joined
<1>4. todo' = [u \in Threads |-> IF u = t THEN steps \o Tail(todo[t]) ELSE todo[u]]
  BY DEF Continue
<1>. QED BY <1>1, <1>3, <1>4

\* A thread begins.
LEMMA BeginOK ==
    ASSUME NEW G, NEW H, G \subseteq H, todo \in [Threads -> Seq(G)], NEW t \in Threads,
           NEW steps \in Seq(H), todo' = [todo EXCEPT ![t] = steps]
    PROVE  todo' \in [Threads -> Seq(H)]
<1>1. \A u \in Threads : todo[u] \in Seq(H)
  BY SeqGrows
<1>. QED BY <1>1

\* The step at the head of a queue.
LEMMA CurGood ==
    ASSUME FeedInv, NEW t \in Threads, todo[t] # <<>>
    PROVE  Cur(t) \in StepType /\ StepOK(rooms, Cur(t))
<1>1. todo[t] \in Seq(GoodSteps(rooms))
  BY DEF FeedInv, QueuesInv
<1>2. Head(todo[t]) \in GoodSteps(rooms)
  BY <1>1, QueueParts
<1>. QED BY <1>2 DEF Cur, GoodSteps

\* A step that leaves the rooms and the places alone.
LEMMA QueueStep ==
    ASSUME FeedInv, NEW t \in Threads, todo[t] # <<>>, NEW steps \in Seq(GoodSteps(rooms)),
           Continue(t, steps), UNCHANGED <<rooms, at, db, posts, ops>>,
           offered' \in Seq(GoodWrites(rooms))
    PROVE  FeedInv'
<1>1. todo' \in [Threads -> Seq(GoodSteps(rooms))]
  BY ContinueOK DEF FeedInv, QueuesInv
<1>2. QueuesInv'
  BY <1>1 DEF QueuesInv
<1>3. RoomsInv' /\ PlacesInv' /\ Fits(db', rooms') /\ posts' \in Nat /\ ops' \in Nat
  BY DEF FeedInv, RoomsInv, PlacesInv
<1>. QED BY <1>2, <1>3 DEF FeedInv

\* A room as a record.
LEMMA RoomFields ==
    ASSUME FeedInv, NEW r \in RoomIds, rooms[r] # Absent
    PROVE  /\ rooms[r] \in Room /\ rooms[r].born \in Nat /\ rooms[r].topic \in TopicVals
           /\ rooms[r].name \in Names \cup {Lobby} /\ rooms[r].owner \in Viewers \cup {Absent}
           /\ rooms[r].recent \in Seq(Message) /\ rooms[r].recent \in Seq(GoodLines(rooms, r))
           /\ rooms[r].recent \in Seq(LinesOf(r))
<1>1. rooms[r] \in Room /\ rooms[r].recent \in Seq(GoodLines(rooms, r))
  BY DEF FeedInv, RoomsInv
<1>2. GoodLines(rooms, r) \subseteq LinesOf(r)
  BY DEF GoodLines, LinesOf
<1>3. rooms[r].recent \in Seq(LinesOf(r))
  BY <1>1, <1>2, SeqGrows
<1>. QED BY <1>1, <1>3 DEF Room, TopicVals

\* Reading a list of users, of rooms, delivering, and queueing a write.
LEMMA FeedQuiet ==
    ASSUME FeedInv, NEW t \in Threads,
           UsersStep(t) \/ ListsStep(t) \/ DeliverStep(t) \/ StoreStep(t) \/ PersistStep(t)
    PROVE  FeedInv'
<1>1. todo[t] # <<>>
  BY DEF UsersStep, ListsStep, DeliverStep, StoreStep, PersistStep, AtOp
<1>2. Cur(t) \in StepType /\ StepOK(rooms, Cur(t))
  BY <1>1, CurGood
<1>3. offered \in Seq(GoodWrites(rooms))
  BY DEF FeedInv, QueuesInv
<1>4. CASE UsersStep(t)
  <2>. DEFINE r == Cur(t).room
              f == UserList(r, Members(r))
  <2>1. r \in RoomIds
    BY <1>2, <1>4, StepFields DEF UsersStep, AtOp, Cur
  <2>2. Members(r) \in SUBSET Viewers
    BY DEF Members
  <2>3. f \in FrameType /\ f.kind = "users"
    BY <2>1, <2>2, Frames
  <2>4. Deliver(Members(r), f) \in GoodSteps(rooms)
    BY <2>2, <2>3, DeliverSteps
  <2>5. <<Deliver(Members(r), f)>> \in Seq(GoodSteps(rooms))
    BY <2>4, Short
  <2>. QED BY <1>1, <1>3, <1>4, <2>5, QueueStep DEF UsersStep, memory
<1>5. CASE ListsStep(t)
  <2>. DEFINE f == RoomList(Counts)
  <2>1. f \in [kind : {"rooms"}, room : {0}, val : CountVals]
    BY PlainFrames
  <2>2. DeliverAll(f) \in StepType /\ DeliverAll(f).op = "deliverAll"
    BY <2>1 DEF StepType, DeliverAll
  <2>3. DeliverAll(f) \in GoodSteps(rooms)
    BY <2>2 DEF GoodSteps, StepOK
  <2>4. <<DeliverAll(f)>> \in Seq(GoodSteps(rooms))
    BY <2>3, Short
  <2>. QED BY <1>1, <1>3, <1>5, <2>4, QueueStep DEF ListsStep, memory
<1>6. CASE DeliverStep(t)
  <2>1. <<>> \in Seq(GoodSteps(rooms))
    BY Short
  <2>. QED BY <1>1, <1>3, <1>6, <2>1, QueueStep DEF DeliverStep, memory
<1>7. CASE StoreStep(t)
  <2>1. <<>> \in Seq(GoodSteps(rooms))
    BY Short
  <2>2. Cur(t).write \in GoodWrites(rooms)
    BY <1>2, <1>7 DEF StoreStep, AtOp, Cur, StepOK
  <2>3. offered' \in Seq(GoodWrites(rooms))
    BY <1>3, <1>7, <2>2 DEF StoreStep
  <2>. QED BY <1>1, <1>7, <2>1, <2>3, QueueStep DEF StoreStep, memory
<1>8. CASE PersistStep(t)
  <2>. DEFINE r == Cur(t).room
  <2>1. r \in RoomIds /\ rooms[r] # Absent
    BY <1>2, <1>8, StepFields DEF PersistStep, AtOp, Cur, StepOK
  <2>2. Row(r) \in RoomRow /\ Row(r).born = rooms[r].born
    BY <2>1, RoomFields DEF Row, RoomRow, TopicVals
  <2>3. RoomWrite(r, Row(r)) \in GoodWrites(rooms)
    BY <2>1, <2>2, RoomWrites
  <2>4. <<Store(RoomWrite(r, Row(r)))>> \in Seq(GoodSteps(rooms))
    BY <2>3, StoreSteps, Short
  <2>. QED BY <1>1, <1>3, <1>8, <2>4, QueueStep DEF PersistStep, memory
<1>. QED BY <1>4, <1>5, <1>6, <1>7, <1>8

\* A room changes and keeps its birth; the rest stays or gets what is good.
LEMMA RoomStep ==
    ASSUME FeedInv, NEW r \in RoomIds, NEW n \in Room,
           rooms' = [rooms EXCEPT ![r] = n],
           rooms[r] # Absent => n.born = rooms[r].born,
           n.recent \in Seq(GoodLines(rooms', r)),
           todo' \in [Threads -> Seq(GoodSteps(rooms'))],
           UNCHANGED <<at, db, offered>>, posts' \in Nat, ops' \in Nat
    PROVE  FeedInv'
<1>1. n # Absent /\ DefaultRoom \in RoomIds
  BY FeedFacts
<1>2. /\ rooms' \in [RoomIds -> Room \cup {Absent}] /\ rooms'[r] = n
      /\ \A q \in RoomIds : q # r => rooms'[q] = rooms[q]
  BY DEF FeedInv, RoomsInv
<1>3. \A q \in RoomIds : rooms[q] # Absent => rooms'[q] # Absent /\ rooms'[q].born = rooms[q].born
  BY <1>1, <1>2
<1>4. /\ GoodWrites(rooms) \subseteq GoodWrites(rooms')
      /\ \A d : Fits(d, rooms) => Fits(d, rooms')
      /\ \A q \in RoomIds : rooms[q] # Absent => GoodLines(rooms', q) = GoodLines(rooms, q)
  BY <1>3, Grown
<1>5. RoomsInv'
  <2>1. ASSUME NEW q \in RoomIds, rooms'[q] # Absent
        PROVE  rooms'[q].recent \in Seq(GoodLines(rooms', q))
    <3>1. CASE q = r
      BY <1>2, <3>1
    <3>2. CASE q # r
      BY <1>2, <1>4, <2>1, <3>2 DEF FeedInv, RoomsInv
    <3>. QED BY <3>1, <3>2
  <2>2. rooms'[DefaultRoom] # Absent
    BY <1>1, <1>3 DEF FeedInv, RoomsInv
  <2>. QED BY <1>2, <2>1, <2>2 DEF RoomsInv
<1>6. PlacesInv'
  BY <1>3 DEF FeedInv, PlacesInv
<1>7. QueuesInv'
  <2>1. offered' \in Seq(GoodWrites(rooms'))
    BY <1>4, SeqGrows DEF FeedInv, QueuesInv
  <2>. QED BY <2>1 DEF QueuesInv
<1>8. Fits(db', rooms')
  BY <1>4 DEF FeedInv
<1>. QED BY <1>5, <1>6, <1>7, <1>8 DEF FeedInv

\* broadcast_room adds the message to the room.
LEMMA FeedPost ==
    ASSUME FeedInv, NEW t \in Threads, PostStep(t)
    PROVE  FeedInv'
<1>. DEFINE r == Cur(t).room
            m == [n |-> posts + 1, room |-> r, born |-> rooms[r].born]
            recent == Keep(Append(rooms[r].recent, m), HistoryLimit)
            n == [rooms[r] EXCEPT !.recent = recent]
            text == Deliver(Members(r), RoomText(r, <<m>>))
            store == Store(MessageWrite(r, m))
<1>1. todo[t] # <<>>
  BY DEF PostStep, AtOp
<1>2. Cur(t) \in StepType /\ StepOK(rooms, Cur(t)) /\ Cur(t).op = "post"
  BY <1>1, CurGood DEF PostStep, AtOp, Cur
<1>3. r \in RoomIds /\ rooms[r] # Absent
  BY <1>2, StepFields DEF StepOK
<1>4. /\ rooms[r] \in Room /\ rooms[r].born \in Nat
      /\ rooms[r].recent \in Seq(GoodLines(rooms, r))
  BY <1>3, RoomFields
<1>5. /\ m \in Message /\ m.room = r /\ m.born = rooms[r].born
  <2>1. posts + 1 \in Nat
    BY DEF FeedInv
  <2>2. r \in Nat
    BY <1>3, FeedFacts
  <2>. QED BY <1>4, <2>1, <2>2 DEF Message
<1>6. /\ rooms' = [rooms EXCEPT ![r] = n] /\ posts' = posts + 1
      /\ Continue(t, <<text, store>>) /\ UNCHANGED <<at, db, offered, ops>>
  BY <1>3 DEF PostStep, FeedInv, RoomsInv
<1>. HIDE DEF m
<1>7. m \in GoodLines(rooms, r) /\ m \in LinesOf(r)
  BY <1>5 DEF GoodLines, LinesOf
<1>8. recent \in Seq(GoodLines(rooms, r))
  <2>1. Append(rooms[r].recent, m) \in Seq(GoodLines(rooms, r))
    BY <1>4, <1>7
  <2>. QED BY <2>1, KeepIn, FeedFacts
<1>9. recent \in Seq(Message)
  <2>1. GoodLines(rooms, r) \subseteq Message
    BY DEF GoodLines
  <2>. QED BY <1>8, <2>1, SeqGrows
<1>. HIDE DEF recent
<1>10. n \in Room /\ n.born = rooms[r].born /\ n.recent = recent
  BY <1>4, <1>9 DEF Room
<1>. HIDE DEF n
<1>11. \A q \in RoomIds : rooms[q] # Absent => rooms'[q] # Absent /\ rooms'[q].born = rooms[q].born
  BY <1>3, <1>6, <1>10, FeedFacts DEF FeedInv, RoomsInv
<1>12. /\ GoodSteps(rooms) \subseteq GoodSteps(rooms')
       /\ GoodLines(rooms', r) = GoodLines(rooms, r)
  BY <1>3, <1>11, Grown
<1>13. text \in GoodSteps(rooms)
  <2>1. <<m>> \in Seq(Message) /\ <<m>> \in Seq(LinesOf(r))
    BY <1>5, <1>7, Short
  <2>2. /\ RoomText(r, <<m>>) \in FrameType /\ RoomText(r, <<m>>).val = <<m>>
        /\ RoomText(r, <<m>>).room = r
    BY <1>3, <2>1, Frames
  <2>3. Members(r) \in SUBSET Viewers
    BY DEF Members
  <2>. QED BY <2>1, <2>2, <2>3, DeliverSteps
<1>14. store \in GoodSteps(rooms)
  BY <1>3, <1>7, RoomWrites, StoreSteps
<1>. HIDE DEF text, store
<1>15. <<text, store>> \in Seq(GoodSteps(rooms'))
  BY <1>12, <1>13, <1>14, Short
<1>16. todo' \in [Threads -> Seq(GoodSteps(rooms'))]
  <2>1. todo \in [Threads -> Seq(GoodSteps(rooms))]
    BY DEF FeedInv, QueuesInv
  <2>. QED BY <1>1, <1>6, <1>12, <1>15, <2>1, ContinueOK
<1>17. posts' \in Nat /\ ops' \in Nat
  BY <1>6 DEF FeedInv
<1>. HIDE DEF r
<1>. QED BY <1>3, <1>6, <1>8, <1>10, <1>12, <1>16, <1>17, RoomStep

\* What a user who enters a room is told.
LEMMA EnterSteps ==
    ASSUME FeedInv, NEW v \in Viewers, NEW r \in RoomIds, rooms[r] # Absent
    PROVE  Enter(v, r) \in Seq(GoodSteps(rooms))
<1>1. /\ rooms[r].topic \in TopicVals /\ rooms[r].recent \in Seq(Message)
      /\ rooms[r].recent \in Seq(LinesOf(r)) /\ {v} \in SUBSET Viewers
  BY RoomFields
<1>2. /\ RoomJoined(r, rooms[r].topic) \in FrameType
      /\ RoomJoined(r, rooms[r].topic).kind = "joined"
  BY <1>1, Frames
<1>3. /\ RoomText(r, rooms[r].recent) \in FrameType
      /\ RoomText(r, rooms[r].recent).room = r
      /\ RoomText(r, rooms[r].recent).val = rooms[r].recent
  BY <1>1, Frames
<1>4. Deliver({v}, RoomJoined(r, rooms[r].topic)) \in GoodSteps(rooms)
  BY <1>1, <1>2, DeliverSteps
<1>5. Deliver({v}, RoomText(r, rooms[r].recent)) \in GoodSteps(rooms)
  BY <1>1, <1>3, DeliverSteps
<1>6. Post(r) \in GoodSteps(rooms)
  BY RoomSteps
<1>. QED BY <1>4, <1>5, <1>6, Short DEF Enter

\* The steps of a move, given the room it leaves.
Told(c, old) == IF c.tell /\ old # 0 THEN <<Post(old), Users(old)>> ELSE <<>>
MoveSteps(c) ==
    Told(c, at[c.who]) \o Enter(c.who, c.room) \o <<Users(c.room), Lists>>

\* They are good steps.
LEMMA MoveGood ==
    ASSUME FeedInv, NEW c \in StepType, StepOK(rooms, c), c.op = "move"
    PROVE  /\ c.who \in Viewers /\ c.room \in RoomIds /\ rooms[c.room] # Absent
           /\ Told(c, at[c.who]) \in Seq(GoodSteps(rooms))
           /\ Enter(c.who, c.room) \in Seq(GoodSteps(rooms))
           /\ <<Users(c.room), Lists>> \in Seq(GoodSteps(rooms))
           /\ MoveSteps(c) \in Seq(GoodSteps(rooms))
<1>1. c.who \in Viewers /\ c.room \in RoomIds /\ rooms[c.room] # Absent
  BY StepFields DEF StepOK
<1>2. Told(c, at[c.who]) \in Seq(GoodSteps(rooms))
  <2>1. CASE at[c.who] # 0
    <3>1. at[c.who] \in RoomIds /\ rooms[at[c.who]] # Absent
      BY <1>1, <2>1 DEF FeedInv, PlacesInv
    <3>2. Post(at[c.who]) \in GoodSteps(rooms) /\ Users(at[c.who]) \in GoodSteps(rooms)
      BY <3>1, RoomSteps
    <3>. QED BY <3>2, Short DEF Told
  <2>2. CASE at[c.who] = 0
    BY <2>2, Short DEF Told
  <2>. QED BY <2>1, <2>2
<1>3. Enter(c.who, c.room) \in Seq(GoodSteps(rooms))
  BY <1>1, EnterSteps
<1>4. <<Users(c.room), Lists>> \in Seq(GoodSteps(rooms))
  BY <1>1, RoomSteps, Short
<1>5. MoveSteps(c) \in Seq(GoodSteps(rooms))
  BY <1>2, <1>3, <1>4, Joined DEF MoveSteps
<1>. QED BY <1>1, <1>2, <1>3, <1>4, <1>5

\* move_session_to_room and move_local_to_room.
LEMMA FeedMove ==
    ASSUME FeedInv, NEW t \in Threads, MoveStep(t)
    PROVE  FeedInv'
<1>. DEFINE c == Cur(t)
<1>1. todo[t] # <<>>
  BY DEF MoveStep, AtOp
<1>2. c \in StepType /\ StepOK(rooms, c) /\ c.op = "move"
  BY <1>1, CurGood DEF MoveStep, AtOp, Cur
<1>3. /\ c.who \in Viewers /\ c.room \in RoomIds /\ rooms[c.room] # Absent
      /\ MoveSteps(c) \in Seq(GoodSteps(rooms))
  BY <1>2, MoveGood
<1>4. /\ at' = [at EXCEPT ![c.who] = c.room] /\ Continue(t, MoveSteps(c))
      /\ UNCHANGED <<rooms, offered, db, posts, ops>>
  BY DEF MoveStep, MoveSteps, Told
<1>. HIDE DEF c
<1>5. todo' \in [Threads -> Seq(GoodSteps(rooms))]
  BY <1>1, <1>3, <1>4, ContinueOK DEF FeedInv, QueuesInv
<1>6. PlacesInv'
  BY <1>3, <1>4 DEF FeedInv, PlacesInv
<1>7. RoomsInv' /\ QueuesInv' /\ Fits(db', rooms') /\ posts' \in Nat /\ ops' \in Nat
  BY <1>4, <1>5 DEF FeedInv, RoomsInv, QueuesInv
<1>. QED BY <1>6, <1>7 DEF FeedInv

-----------------------------------------------------------------------------
(***************************************************************************)
(* Operations.                                                             *)
(***************************************************************************)

\* The naturals below one another.
Below == {p \in Nat \X Nat : p[1] < p[2]}

\* They are well founded.
LEMMA BelowWellFounded == IsWellFoundedOn(Below, Nat)
<1>1. Below = OpToRel(<, Nat)
  BY DEF Below, OpToRel
<1>. QED BY <1>1, NatLessThanWellFounded

\* A set of naturals with a bound has a greatest element.
LEMMA Greatest ==
    ASSUME NEW S \in SUBSET Nat, NEW b \in Nat, \A x \in S : x <= b, NEW e \in S
    PROVE  Max(S) \in S /\ \A x \in S : x <= Max(S)
<1>. DEFINE U == {u \in Nat : \A x \in S : x <= u}
<1>1. U \subseteq Nat /\ U # {}
  OBVIOUS
<1>2. PICK u \in U : \A y \in U : <<y, u>> \notin Below
  BY <1>1, BelowWellFounded, WFMin
<1>3. u \in S
  <2>1. SUFFICES ASSUME u \notin S PROVE FALSE
    OBVIOUS
  <2>2. \A x \in S : x < u
    BY <1>2, <2>1
  <2>3. u - 1 \in Nat
    BY <1>2, <2>2
  <2>4. u - 1 \in U
    BY <1>2, <2>2, <2>3
  <2>5. <<u - 1, u>> \in Below
    BY <1>2, <2>3 DEF Below
  <2>. QED BY <1>2, <2>4, <2>5
<1>4. \A y \in S : u >= y
  BY <1>2
<1>5. Max(S) \in S /\ \A y \in S : Max(S) >= y
  BY <1>3, <1>4 DEF Max
<1>. QED BY <1>5

\* The next id is free.
LEMMA NextIsFree ==
    ASSUME FeedInv, NextRoomId \in RoomIds
    PROVE  rooms[NextRoomId] = Absent
<1>. DEFINE S == {r \in RoomIds : Exists(r)}
<1>1. S \in SUBSET Nat /\ DefaultRoom \in S /\ MaxRooms \in Nat
  BY FeedFacts DEF FeedInv, RoomsInv, Exists
<1>2. \A x \in S : x <= MaxRooms
  BY DEF RoomIds
<1>. HIDE DEF S
<1>3. Max(S) \in S /\ \A x \in S : x <= Max(S)
  BY <1>1, <1>2, Greatest
<1>4. NextRoomId = Max(S) + 1
  BY DEF NextRoomId, S
<1>5. NextRoomId \notin S
  <2>1. \A x \in Nat : ~(x + 1 <= x)
    OBVIOUS
  <2>2. Max(S) \in Nat
    BY <1>1, <1>3
  <2>. QED BY <1>3, <1>4, <2>1, <2>2
<1>. QED BY <1>5 DEF S, Exists

\* An operation that changes no room.
LEMMA FeedBegin ==
    ASSUME FeedInv, NEW t \in Threads, NEW steps \in Seq(GoodSteps(rooms)), BeginOnly(t, steps)
    PROVE  FeedInv'
<1>1. /\ todo' = [todo EXCEPT ![t] = steps] /\ ops' = ops + 1
      /\ UNCHANGED <<rooms, at, offered, db, posts>>
  BY DEF BeginOnly, Begin, memory
<1>2. todo' \in [Threads -> Seq(GoodSteps(rooms))]
  BY <1>1, BeginOK DEF FeedInv, QueuesInv
<1>3. RoomsInv' /\ PlacesInv' /\ QueuesInv' /\ Fits(db', rooms')
  BY <1>1, <1>2 DEF FeedInv, RoomsInv, PlacesInv, QueuesInv
<1>4. posts' \in Nat /\ ops' \in Nat
  BY <1>1 DEF FeedInv
<1>. QED BY <1>3, <1>4 DEF FeedInv

\* What a creation queues: the row, and then the owner's move or the lists.
CreateSteps(r, owner) ==
    PersistFirst(r, IF owner = Absent THEN <<Lists>> ELSE <<Move(owner, r, TRUE)>>)

\* It is good once the room is there.
LEMMA CreateGood ==
    ASSUME NEW rs, NEW r \in RoomIds, rs[r] # Absent, NEW owner \in Viewers \cup {Absent}
    PROVE  /\ CreateSteps(r, owner) \in Seq(GoodSteps(rs))
           /\ \/ owner = Absent /\ CreateSteps(r, owner) = <<Persist(r), Lists>>
              \/ owner \in Viewers /\ CreateSteps(r, owner) = <<Persist(r), Move(owner, r, TRUE)>>
<1>1. CASE owner = Absent
  <2>1. CreateSteps(r, owner) = <<Persist(r), Lists>>
    BY <1>1, PairJoined DEF CreateSteps, PersistFirst
  <2>. QED BY <1>1, <2>1, RoomSteps, Short
<1>2. CASE owner # Absent
  <2>1. CreateSteps(r, owner) = <<Persist(r), Move(owner, r, TRUE)>>
    BY <1>2, PairJoined DEF CreateSteps, PersistFirst
  <2>2. Move(owner, r, TRUE) \in GoodSteps(rs) /\ Persist(r) \in GoodSteps(rs)
    BY <1>2, RoomSteps
  <2>. QED BY <1>2, <2>1, <2>2, Short
<1>. QED BY <1>1, <1>2

\* create_room, create_local_room, create_admin_room.
LEMMA FeedCreate ==
    ASSUME FeedInv, NEW t \in Threads, NEW nm \in Names, NEW owner \in Viewers \cup {Absent},
           Create(t, nm, owner)
    PROVE  FeedInv'
<1>. DEFINE r == NextRoomId
            n == [name |-> nm, topic |-> Absent, owner |-> owner, born |-> ops + 1,
                  recent |-> <<>>]
<1>1. /\ r \in RoomIds /\ rooms' = [rooms EXCEPT ![r] = n] /\ UNCHANGED at
      /\ Begin(t, CreateSteps(r, owner))
  BY DEF Create, CreateSteps
<1>2. rooms[r] = Absent
  BY <1>1, NextIsFree
<1>3. n \in Room /\ n.recent = <<>>
  <2>1. ops + 1 \in Nat
    BY DEF FeedInv
  <2>. QED BY <2>1 DEF Room
<1>. HIDE DEF n, r
<1>4. rooms'[r] = n /\ n # Absent /\ \A q \in RoomIds : q # r => rooms'[q] = rooms[q]
  BY <1>1, <1>3, FeedFacts DEF FeedInv, RoomsInv
<1>5. \A q \in RoomIds : rooms[q] # Absent => rooms'[q] # Absent /\ rooms'[q].born = rooms[q].born
  BY <1>2, <1>4
<1>6. CreateSteps(r, owner) \in Seq(GoodSteps(rooms'))
  BY <1>1, <1>4, CreateGood
<1>7. todo' = [todo EXCEPT ![t] = CreateSteps(r, owner)] /\ ops' = ops + 1
      /\ UNCHANGED <<offered, db, posts>>
  BY <1>1 DEF Begin
<1>8. todo' \in [Threads -> Seq(GoodSteps(rooms'))]
  <2>1. GoodSteps(rooms) \subseteq GoodSteps(rooms')
    BY <1>5, Grown
  <2>2. todo \in [Threads -> Seq(GoodSteps(rooms))]
    BY DEF FeedInv, QueuesInv
  <2>. QED BY <1>6, <1>7, <2>1, <2>2, BeginOK
<1>9. posts' \in Nat /\ ops' \in Nat
  BY <1>7 DEF FeedInv
<1>10. n.recent \in Seq(GoodLines(rooms', r))
  BY <1>3, Short
<1>. QED BY <1>1, <1>2, <1>3, <1>7, <1>8, <1>9, <1>10, RoomStep

\* set_topic_for_room.
TopicSteps(r, topic) ==
    <<Store(TopicWrite(r, topic)), Deliver(Members(r), RoomTopic(r, topic)), Post(r)>>

\* Its steps are good.
LEMMA TopicGood ==
    ASSUME NEW rs, NEW r \in RoomIds, rs[r] # Absent, NEW topic \in Topics
    PROVE  TopicSteps(r, topic) \in Seq(GoodSteps(rs))
<1>1. topic \in TopicVals /\ Members(r) \in SUBSET Viewers
  BY DEF TopicVals, Members
<1>2. Store(TopicWrite(r, topic)) \in GoodSteps(rs)
  BY <1>1, RoomWrites, StoreSteps
<1>3. RoomTopic(r, topic) \in FrameType /\ RoomTopic(r, topic).kind = "topic"
  BY <1>1, Frames
<1>4. Deliver(Members(r), RoomTopic(r, topic)) \in GoodSteps(rs)
  BY <1>1, <1>3, DeliverSteps
<1>5. Post(r) \in GoodSteps(rs)
  BY RoomSteps
<1>. QED BY <1>2, <1>4, <1>5, Short DEF TopicSteps

\* The topic of a room changes.
LEMMA FeedTopic ==
    ASSUME FeedInv, NEW t \in Threads, NEW r \in RoomIds, rooms[r] # Absent,
           NEW topic \in Topics, SetTopic(t, r, topic)
    PROVE  FeedInv'
<1>. DEFINE n == [rooms[r] EXCEPT !.topic = topic]
<1>1. /\ rooms' = [rooms EXCEPT ![r] = n] /\ UNCHANGED at /\ Begin(t, TopicSteps(r, topic))
  BY DEF SetTopic, TopicSteps, FeedInv, RoomsInv
<1>2. rooms[r] \in Room /\ rooms[r].recent \in Seq(GoodLines(rooms, r))
  BY RoomFields
<1>3. n \in Room /\ n.recent = rooms[r].recent /\ n.born = rooms[r].born
  BY <1>2 DEF Room
<1>. HIDE DEF n
<1>4. rooms'[r] = n /\ n # Absent /\ \A q \in RoomIds : q # r => rooms'[q] = rooms[q]
  BY <1>1, <1>3, FeedFacts DEF FeedInv, RoomsInv
<1>5. \A q \in RoomIds : rooms[q] # Absent => rooms'[q] # Absent /\ rooms'[q].born = rooms[q].born
  BY <1>3, <1>4
<1>6. TopicSteps(r, topic) \in Seq(GoodSteps(rooms'))
  BY <1>4, TopicGood
<1>7. todo' = [todo EXCEPT ![t] = TopicSteps(r, topic)] /\ ops' = ops + 1
      /\ UNCHANGED <<offered, db, posts>>
  BY <1>1 DEF Begin
<1>8. /\ GoodSteps(rooms) \subseteq GoodSteps(rooms')
      /\ GoodLines(rooms', r) = GoodLines(rooms, r)
  BY <1>5, Grown
<1>9. todo' \in [Threads -> Seq(GoodSteps(rooms'))]
  <2>1. todo \in [Threads -> Seq(GoodSteps(rooms))]
    BY DEF FeedInv, QueuesInv
  <2>. QED BY <1>6, <1>7, <1>8, <2>1, BeginOK
<1>10. posts' \in Nat /\ ops' \in Nat
  BY <1>7 DEF FeedInv
<1>. QED BY <1>1, <1>2, <1>3, <1>7, <1>8, <1>9, <1>10, RoomStep

\* The session of a client ends: the client left, or was kicked or banned.
LeftSteps(r)   == <<Post(r), Users(r), Lists>>
KickedSteps(r) == <<Users(r), Lists, Post(r), Users(r)>>
Leaves(t, c, s) == Depart(t, c, s) /\ s \in {LeftSteps(at[c]), KickedSteps(at[c])}

\* The steps that follow, none of which is for a single user.
LEMMA LeaveSteps ==
    ASSUME NEW r \in RoomIds, rooms[r] # Absent, NEW s \in {LeftSteps(r), KickedSteps(r)}
    PROVE  /\ s \in Seq(GoodSteps(rooms))
           /\ \A i \in 1 .. Len(s) : s[i].op \in {"post", "users", "lists"}
<1>. DEFINE x == Post(r)
            y == Users(r)
<1>1. x \in GoodSteps(rooms) /\ y \in GoodSteps(rooms) /\ Lists \in GoodSteps(rooms)
  BY RoomSteps
<1>2. x.op = "post" /\ y.op = "users" /\ Lists.op = "lists"
  BY DEF Post, Users, Lists
<1>3. s = <<x, y, Lists>> \/ s = <<y, Lists, x, y>>
  BY DEF LeftSteps, KickedSteps
<1>. HIDE DEF x, y
<1>4. CASE s = <<x, y, Lists>>
  <2>1. \A i \in 1 .. Len(<<x, y, Lists>>) : <<x, y, Lists>>[i] \in {x, y, Lists}
    OBVIOUS
  <2>. QED BY <1>1, <1>2, <1>4, <2>1, Short
<1>5. CASE s = <<y, Lists, x, y>>
  <2>1. \A i \in 1 .. Len(<<y, Lists, x, y>>) : <<y, Lists, x, y>>[i] \in {x, y, Lists}
    OBVIOUS
  <2>. QED BY <1>1, <1>2, <1>5, <2>1, Short
<1>. QED BY <1>3, <1>4, <1>5

\* Every frame and every command that ends a session does it like this.
LEMMA AllLeave ==
    ASSUME NEW t, NEW c
    PROVE  /\ HandleDisconnect(c) => \E s : Leaves("io", c, s)
           /\ Kick(t, c) => \E s : Leaves(t, c, s)
           /\ \A v : OwnerKick(v, c) => \E s : Leaves("io", c, s)
BY DEF HandleDisconnect, Kick, OwnerKick, Leaves, LeftSteps, KickedSteps

\* The rooms when a session ends.
LEMMA FeedLeave ==
    ASSUME FeedInv, NEW t \in Threads, NEW c \in Clients, NEW s, Leaves(t, c, s)
    PROVE  FeedInv'
<1>1. /\ at[c] # 0 /\ ops' = ops + 1 /\ at' = [at EXCEPT ![c] = 0]
      /\ todo' = [todo EXCEPT ![t] = s]
      /\ UNCHANGED <<rooms, offered, db, posts>>
      /\ s \in {LeftSteps(at[c]), KickedSteps(at[c])}
  BY DEF Leaves, Depart
<1>2. c \in Viewers /\ at[c] \in RoomIds /\ rooms[at[c]] # Absent
  BY <1>1, FeedFacts DEF FeedInv, PlacesInv
<1>3. s \in Seq(GoodSteps(rooms))
  BY <1>1, <1>2, LeaveSteps
<1>4. todo' \in [Threads -> Seq(GoodSteps(rooms))]
  BY <1>1, <1>3, BeginOK DEF FeedInv, QueuesInv
<1>5. PlacesInv'
  BY <1>1, <1>2 DEF FeedInv, PlacesInv
<1>6. RoomsInv' /\ QueuesInv' /\ Fits(db', rooms')
  BY <1>1, <1>4 DEF FeedInv, RoomsInv, QueuesInv
<1>7. posts' \in Nat /\ ops' \in Nat
  BY <1>1 DEF FeedInv
<1>. QED BY <1>5, <1>6, <1>7 DEF FeedInv

\* The frames of a client.
LEMMA FeedFrame ==
    ASSUME FeedInv, NEW c \in Clients, Frame(c)
    PROVE  FeedInv'
<1>1. c \in Viewers /\ "io" \in Threads /\ DefaultRoom \in RoomIds /\ rooms[DefaultRoom] # Absent
  BY FeedFacts DEF Threads, FeedInv, RoomsInv
<1>2. at[c] # 0 => at[c] \in RoomIds /\ rooms[at[c]] # Absent
  BY <1>1 DEF FeedInv, PlacesInv
<1>3. CASE Admit(c)
  <2>1. <<Move(c, DefaultRoom, FALSE)>> \in Seq(GoodSteps(rooms))
    BY <1>1, RoomSteps, Short
  <2>. QED BY <1>1, <1>3, <2>1, FeedBegin DEF Admit
<1>4. CASE HandleChat(c)
  <2>1. <<Post(at[c])>> \in Seq(GoodSteps(rooms))
    BY <1>2, <1>4, RoomSteps, Short DEF HandleChat
  <2>. QED BY <1>1, <1>4, <2>1, FeedBegin DEF HandleChat
<1>5. CASE HandleQuestion(c)
  <2>1. {c} \in SUBSET Viewers /\ at[c] # 0
    BY <1>1, <1>5 DEF HandleQuestion
  <2>2. rooms[at[c]].topic \in TopicVals
    BY <1>2, <2>1, RoomFields
  <2>3. /\ RoomTopic(at[c], rooms[at[c]].topic) \in FrameType
        /\ RoomTopic(at[c], rooms[at[c]].topic).kind = "topic"
    BY <1>2, <2>1, <2>2, Frames
  <2>4. <<Deliver({c}, RoomTopic(at[c], rooms[at[c]].topic))>> \in Seq(GoodSteps(rooms))
    BY <2>1, <2>3, DeliverSteps, Short
  <2>5. <<Deliver({c}, RoomList(Counts))>> \in Seq(GoodSteps(rooms))
    BY <2>1, PlainFrames, DeliverSteps, Short
  <2>. QED BY <1>1, <1>5, <2>4, <2>5, FeedBegin DEF HandleQuestion
<1>6. CASE HandleDisconnect(c)
  BY <1>1, <1>6, AllLeave, FeedLeave
<1>7. ASSUME NEW nm \in Names, HandleCreate(c, nm) PROVE FeedInv'
  BY <1>1, <1>7, FeedCreate DEF HandleCreate
<1>8. ASSUME NEW topic \in Topics, HandleTopic(c, topic) PROVE FeedInv'
  BY <1>1, <1>2, <1>8, FeedTopic DEF HandleTopic
<1>9. ASSUME NEW r \in RoomIds, JoinRoom("io", c, r) PROVE FeedInv'
  <2>1. <<Move(c, r, TRUE)>> \in Seq(GoodSteps(rooms))
    BY <1>1, <1>9, RoomSteps, Short DEF JoinRoom, Exists
  <2>. QED BY <1>1, <1>9, <2>1, FeedBegin DEF JoinRoom
<1>10. ASSUME NEW v \in Viewers, SendPrivate("io", c, v) PROVE FeedInv'
  <2>1. <<Deliver({c, v}, Whisper)>> \in Seq(GoodSteps(rooms))
    BY <1>1, PlainFrames, DeliverSteps, Short
  <2>. QED BY <1>1, <1>10, <2>1, FeedBegin DEF SendPrivate
<1>11. ASSUME NEW v \in Clients, OwnerKick(c, v) PROVE FeedInv'
  BY <1>1, <1>11, AllLeave, FeedLeave
<1>. QED BY <1>3, <1>4, <1>5, <1>6, <1>7, <1>8, <1>9, <1>10, <1>11 DEF Frame

\* One message to every room.
LEMMA AllPostsGood ==
    ASSUME FeedInv
    PROVE  /\ AllPosts \in Seq(GoodSteps(rooms))
           /\ \A i \in 1 .. Len(AllPosts) : AllPosts[i].op = "post" /\ AllPosts[i].room \in RoomIds
<1>. DEFINE S == {r \in RoomIds : Exists(r)}
            ids == SetToSeq(S)
<1>1. IsFiniteSet(S)
  <2>1. IsFiniteSet(RoomIds)
    BY FeedFacts, FS_Interval DEF RoomIds
  <2>. QED BY <2>1, FS_Subset
<1>2. ids \in Seq(S)
  <2>. HIDE DEF S
  <2>. QED BY <1>1, EnumeratedIn
<1>3. AllPosts = [i \in DOMAIN ids |-> Post(ids[i])]
  BY DEF AllPosts
<1>. HIDE DEF ids
<1>4. /\ Len(ids) \in Nat /\ DOMAIN ids = 1 .. Len(ids)
      /\ \A i \in 1 .. Len(ids) : ids[i] \in RoomIds /\ rooms[ids[i]] # Absent
  BY <1>2 DEF Exists
<1>5. \A i \in 1 .. Len(ids) : Post(ids[i]) \in GoodSteps(rooms)
  BY <1>4, RoomSteps
<1>6. AllPosts \in [1 .. Len(ids) -> GoodSteps(rooms)]
  BY <1>3, <1>4, <1>5
<1>7. AllPosts \in Seq(GoodSteps(rooms)) /\ Len(AllPosts) = Len(ids)
  BY <1>4, <1>6
<1>8. \A i \in 1 .. Len(ids) : AllPosts[i].op = "post" /\ AllPosts[i].room \in RoomIds
  BY <1>3, <1>4 DEF Post
<1>. QED BY <1>7, <1>8

\* The commands of the terminal.
LEMMA FeedCommand ==
    ASSUME FeedInv, LocalCommand \/ AdminCommand
    PROVE  FeedInv'
<1>1. Host \in Viewers /\ Clients \subseteq Viewers /\ "terminal" \in Threads
  BY FeedFacts DEF Threads
<1>2. at[Host] # 0 => at[Host] \in RoomIds /\ rooms[at[Host]] # Absent
  BY <1>1 DEF FeedInv, PlacesInv
<1>3. ASSUME NEW c \in Clients, Kick("terminal", c) PROVE FeedInv'
  BY <1>1, <1>3, AllLeave, FeedLeave
<1>4. CASE LocalCommand
  <2>1. at[Host] # 0
    BY <1>4 DEF LocalCommand, Hosting
  <2>2. CASE BeginOnly("terminal", <<Post(at[Host])>>)
    <3>1. <<Post(at[Host])>> \in Seq(GoodSteps(rooms))
      BY <1>2, <2>1, RoomSteps, Short
    <3>. QED BY <1>1, <2>2, <3>1, FeedBegin
  <2>3. ASSUME NEW nm \in Names, Create("terminal", nm, Host) PROVE FeedInv'
    BY <1>1, <2>3, FeedCreate
  <2>4. ASSUME NEW topic \in Topics, SetTopic("terminal", at[Host], topic) PROVE FeedInv'
    BY <1>1, <1>2, <2>1, <2>4, FeedTopic
  <2>5. ASSUME NEW r \in RoomIds, JoinRoom("terminal", Host, r) PROVE FeedInv'
    <3>1. <<Move(Host, r, TRUE)>> \in Seq(GoodSteps(rooms))
      BY <1>1, <2>5, RoomSteps, Short DEF JoinRoom, Exists
    <3>. QED BY <1>1, <2>5, <3>1, FeedBegin DEF JoinRoom
  <2>6. ASSUME NEW c \in Clients, SendPrivate("terminal", Host, c) PROVE FeedInv'
    <3>1. <<Deliver({Host, c}, Whisper)>> \in Seq(GoodSteps(rooms))
      BY <1>1, PlainFrames, DeliverSteps, Short
    <3>. QED BY <1>1, <2>6, <3>1, FeedBegin DEF SendPrivate
  <2>. QED BY <1>3, <1>4, <2>2, <2>3, <2>4, <2>5, <2>6 DEF LocalCommand
<1>5. CASE AdminCommand
  <2>1. CASE BeginOnly("terminal", AllPosts)
    BY <1>1, <2>1, AllPostsGood, FeedBegin
  <2>2. ASSUME NEW nm \in Names, Create("terminal", nm, Absent) PROVE FeedInv'
    BY <1>1, <2>2, FeedCreate
  <2>3. ASSUME NEW r \in RoomIds, NEW topic \in Topics, Exists(r), SetTopic("terminal", r, topic)
        PROVE  FeedInv'
    BY <1>1, <2>3, FeedTopic DEF Exists
  <2>. QED BY <1>3, <1>5, <2>1, <2>2, <2>3 DEF AdminCommand
<1>. QED BY <1>4, <1>5

-----------------------------------------------------------------------------
(***************************************************************************)
(* Start and restart.                                                      *)
(***************************************************************************)

\* A database whose messages are of the rooms that have rows.
Coherent(d) ==
    /\ d \in DbType /\ d.rooms[DefaultRoom] # Absent
    /\ \A r \in RoomIds :
          d.messages[r] \in Seq({m \in Message : m.room = r /\ d.rooms[r] # Absent
                                                 /\ m.born = d.rooms[r].born})

\* load_persistent_state makes rooms of it that it fits.
LEMMA LoadedGood ==
    ASSUME NEW d, Coherent(d)
    PROVE  /\ Loaded(d) \in [RoomIds -> Room \cup {Absent}] /\ Loaded(d)[DefaultRoom] # Absent
           /\ \A r \in RoomIds : Loaded(d)[r] # Absent
                 => Loaded(d)[r].recent \in Seq(GoodLines(Loaded(d), r))
           /\ Fits(d, Loaded(d))
<1>. DEFINE L == Loaded(d)
            new(r) == [name |-> d.rooms[r].name, topic |-> d.rooms[r].topic,
                       owner |-> d.rooms[r].owner, born |-> d.rooms[r].born,
                       recent |-> LoadHistory(d, r)]
<1>1. /\ d \in DbType /\ d.rooms \in [RoomIds -> RoomRow \cup {Absent}]
      /\ d.messages \in [RoomIds -> Seq(Message)]
  BY DEF Coherent, DbType
<1>2. \A r \in RoomIds : L[r] = IF d.rooms[r] = Absent THEN Absent ELSE new(r)
  BY DEF Loaded
<1>3. ASSUME NEW r \in RoomIds, d.rooms[r] # Absent
      PROVE  /\ L[r] = new(r) /\ new(r) \in Room /\ L[r] # Absent /\ L[r].born = d.rooms[r].born
             /\ L[r].recent = LoadHistory(d, r)
  <2>1. d.rooms[r] \in RoomRow
    BY <1>1, <1>3
  <2>2. LoadHistory(d, r) \in Seq(Message)
    BY <1>1, KeepIn, FeedFacts DEF LoadHistory
  <2>3. new(r) \in Room
    BY <2>1, <2>2 DEF Room, RoomRow
  <2>4. L[r] = new(r)
    BY <1>2, <1>3
  <2>. QED BY <2>3, <2>4, FeedFacts
<1>4. ASSUME NEW r \in RoomIds, d.rooms[r] = Absent
      PROVE  L[r] = Absent /\ d.messages[r] = <<>>
  <2>1. d.messages[r] \in Seq({m \in Message : m.room = r /\ d.rooms[r] # Absent
                                               /\ m.born = d.rooms[r].born})
    BY DEF Coherent
  <2>2. {m \in Message : m.room = r /\ d.rooms[r] # Absent /\ m.born = d.rooms[r].born} = {}
    BY <1>4
  <2>3. d.messages[r] \in Seq({})
    BY <2>1, <2>2
  <2>4. d.messages[r] = <<>>
    BY <2>3
  <2>. QED BY <1>2, <1>4, <2>4
<1>5. ASSUME NEW r \in RoomIds, d.rooms[r] # Absent
      PROVE  d.messages[r] \in Seq(GoodLines(L, r))
  <2>1. {m \in Message : m.room = r /\ d.rooms[r] # Absent /\ m.born = d.rooms[r].born}
           = GoodLines(L, r)
    BY <1>3, <1>5 DEF GoodLines
  <2>. QED BY <2>1 DEF Coherent
<1>6. DOMAIN L = RoomIds /\ L = [r \in RoomIds |-> L[r]]
  BY DEF Loaded
<1>. HIDE DEF new, L
<1>7. L \in [RoomIds -> Room \cup {Absent}]
  BY <1>3, <1>4, <1>6
<1>8. L[DefaultRoom] # Absent
  BY <1>3, FeedFacts DEF Coherent
<1>9. ASSUME NEW r \in RoomIds, L[r] # Absent
      PROVE  L[r].recent \in Seq(GoodLines(L, r))
  <2>1. d.rooms[r] # Absent
    BY <1>4, <1>9
  <2>2. L[r].recent = Keep(d.messages[r], HistoryLimit)
    BY <1>3, <2>1 DEF LoadHistory
  <2>. QED BY <1>5, <2>1, <2>2, KeepIn, FeedFacts
<1>10. Fits(d, L)
  <2>1. ASSUME NEW r \in RoomIds
        PROVE  /\ d.rooms[r] # Absent => L[r] # Absent /\ d.rooms[r].born = L[r].born
               /\ d.rooms[r] = Absent => d.messages[r] = <<>>
               /\ d.messages[r] \in Seq(GoodLines(L, r))
    <3>1. CASE d.rooms[r] = Absent
      BY <1>4, <3>1, Short
    <3>2. CASE d.rooms[r] # Absent
      BY <1>3, <1>5, <3>2
    <3>. QED BY <3>1, <3>2
  <2>. QED BY <2>1 DEF Coherent, Fits
<1>. QED BY <1>7, <1>8, <1>9, <1>10 DEF L

\* A row or a topic is written in the rooms, a message in the messages.
LEMMA ApplyFits ==
    ASSUME NEW d, NEW rs, Fits(d, rs), NEW w \in GoodWrites(rs), ~Refuses(d, w)
    PROVE  Fits(Apply(d, w), rs)
<1>1. /\ w.id \in RoomIds /\ w.kind \in {"room", "topic", "message"} /\ rs[w.id] # Absent
      /\ w.kind = "room" => w.val \in RoomRow /\ w.val.born = rs[w.id].born
      /\ w.kind = "topic" => w.val \in TopicVals
      /\ w.kind = "message" => w.val \in GoodLines(rs, w.id) /\ w.val \in Message
  <2>1. w \in WriteType /\ WriteOK(rs, w)
    BY DEF GoodWrites
  <2>. QED BY <2>1, WriteFields DEF WriteOK, GoodLines
<1>2. /\ d \in DbType /\ d.rooms \in [RoomIds -> RoomRow \cup {Absent}]
      /\ d.messages \in [RoomIds -> Seq(Message)] /\ d.rooms[DefaultRoom] # Absent
  BY DEF Fits, DbType
<1>3. \A r \in RoomIds :
          /\ d.rooms[r] # Absent => rs[r] # Absent /\ d.rooms[r].born = rs[r].born
          /\ d.rooms[r] = Absent => d.messages[r] = <<>>
          /\ d.messages[r] \in Seq(GoodLines(rs, r))
  BY DEF Fits
\* A new row for the room.
<1>4. ASSUME NEW row \in RoomRow, row.born = rs[w.id].born
      PROVE  Fits([d EXCEPT !.rooms[w.id] = row], rs)
  <2>. DEFINE e == [d EXCEPT !.rooms[w.id] = row]
  <2>1. /\ e.rooms = [d.rooms EXCEPT ![w.id] = row] /\ e.messages = d.messages
        /\ e = [d EXCEPT !.rooms = [d.rooms EXCEPT ![w.id] = row]]
    BY <1>2 DEF DbType
  <2>2. e.rooms \in [RoomIds -> RoomRow \cup {Absent}]
    BY <1>1, <1>2, <2>1
  <2>3. e \in DbType
    BY <1>2, <2>1, <2>2 DEF DbType
  <2>4. \A r \in RoomIds : e.rooms[r] = IF r = w.id THEN row ELSE d.rooms[r]
    BY <1>1, <1>2, <2>1
  <2>5. row # Absent
    BY FeedFacts
  <2>. HIDE DEF e
  <2>6. e.rooms[DefaultRoom] # Absent
    BY <1>2, <2>4, <2>5, FeedFacts
  <2>7. ASSUME NEW r \in RoomIds
        PROVE  /\ e.rooms[r] # Absent => rs[r] # Absent /\ e.rooms[r].born = rs[r].born
               /\ e.rooms[r] = Absent => e.messages[r] = <<>>
               /\ e.messages[r] \in Seq(GoodLines(rs, r))
    BY <1>1, <1>3, <1>4, <2>1, <2>4, <2>5
  <2>8. Fits(e, rs)
    BY <2>3, <2>6, <2>7 DEF Fits
  <2>. QED BY <2>8 DEF e
<1>5. CASE w.kind = "room"
  <2>1. Apply(d, w) = [d EXCEPT !.rooms[w.id] = w.val]
    BY <1>5 DEF Apply
  <2>. QED BY <1>1, <1>4, <1>5, <2>1
<1>6. CASE w.kind = "topic"
  <2>1. CASE d.rooms[w.id] = Absent
    BY <1>6, <2>1 DEF Apply
  <2>2. CASE d.rooms[w.id] # Absent
    <3>. DEFINE row == [d.rooms[w.id] EXCEPT !.topic = w.val]
    <3>1. d.rooms[w.id] \in RoomRow
      BY <1>1, <1>2, <2>2
    <3>2. row \in RoomRow /\ row.born = d.rooms[w.id].born
      BY <1>1, <1>6, <3>1 DEF RoomRow, TopicVals
    <3>3. Apply(d, w) = [d EXCEPT !.rooms[w.id] = row]
      <4>1. Apply(d, w) = [d EXCEPT !.rooms[w.id].topic = w.val]
        BY <1>6, <2>2 DEF Apply
      <4>. QED BY <4>1
    <3>. HIDE DEF row
    <3>. QED BY <1>1, <1>3, <1>4, <2>2, <3>2, <3>3
  <2>. QED BY <2>1, <2>2
<1>7. CASE w.kind = "message"
  <2>. DEFINE e == [d EXCEPT !.messages[w.id] = Append(@, w.val)]
              ms == Append(d.messages[w.id], w.val)
  <2>1. Apply(d, w) = e
    BY <1>7 DEF Apply
  <2>2. /\ e.messages = [d.messages EXCEPT ![w.id] = ms] /\ e.rooms = d.rooms
        /\ e = [d EXCEPT !.messages = [d.messages EXCEPT ![w.id] = ms]]
    BY <1>2 DEF DbType
  <2>3. ms \in Seq(Message) /\ ms \in Seq(GoodLines(rs, w.id))
    BY <1>1, <1>2, <1>3, <1>7
  <2>4. d.rooms[w.id] # Absent
    BY <1>7 DEF Refuses
  <2>. HIDE DEF ms
  <2>5. e.messages \in [RoomIds -> Seq(Message)]
    BY <1>1, <1>2, <2>2, <2>3
  <2>6. e \in DbType
    BY <1>2, <2>2, <2>5 DEF DbType
  <2>7. \A r \in RoomIds : e.messages[r] = IF r = w.id THEN ms ELSE d.messages[r]
    BY <1>1, <1>2, <2>2
  <2>. HIDE DEF e
  <2>8. ASSUME NEW r \in RoomIds
        PROVE  /\ e.rooms[r] # Absent => rs[r] # Absent /\ e.rooms[r].born = rs[r].born
               /\ e.rooms[r] = Absent => e.messages[r] = <<>>
               /\ e.messages[r] \in Seq(GoodLines(rs, r))
    BY <1>1, <1>3, <2>2, <2>3, <2>4, <2>7
  <2>9. Fits(e, rs)
    BY <1>2, <2>2, <2>6, <2>8 DEF Fits
  <2>. QED BY <2>1, <2>9
<1>. QED BY <1>1, <1>5, <1>6, <1>7

\* Induction over the natural numbers, for a set.
LEMMA SetInduction ==
    ASSUME NEW S, 0 \in S, \A n \in Nat : n \in S => n + 1 \in S
    PROVE  Nat \subseteq S
<1>1. ASSUME Nat \ S # {} PROVE FALSE
  <2>1. PICK x \in Nat \ S : \A y \in Nat \ S : <<y, x>> \notin Below
    <3>1. Nat \ S \subseteq Nat
      OBVIOUS
    <3>. QED BY <1>1, <3>1, BelowWellFounded, WFMin
  <2>2. x - 1 \in Nat /\ x = (x - 1) + 1
    BY <2>1
  <2>3. <<x - 1, x>> \in Below
    BY <2>2 DEF Below
  <2>. QED BY <2>1, <2>2, <2>3
<1>. QED BY <1>1

\* The databases that a sequence of writes leads through.
IsWriting(f, d, ws, gone, n) ==
    f = [i \in 0 .. n |-> IF i = 0 THEN d ELSE Write(f[i - 1], ws, gone, i)]

\* There are such databases.
LEMMA WritingExists ==
    ASSUME NEW d, NEW ws, NEW gone
    PROVE  \A n \in Nat : \E f : IsWriting(f, d, ws, gone, n)
<1>. DEFINE S == {n \in Nat : \E f : IsWriting(f, d, ws, gone, n)}
<1>1. 0 \in S
  <2>. DEFINE f == [i \in 0 .. 0 |-> d]
  <2>1. IsWriting(f, d, ws, gone, 0)
    BY DEF IsWriting
  <2>. QED BY <2>1
<1>2. ASSUME NEW n \in Nat, n \in S PROVE n + 1 \in S
  <2>1. PICK f : IsWriting(f, d, ws, gone, n)
    BY <1>2
  <2>. DEFINE next(i) == IF i = 0 THEN d ELSE Write(f[i - 1], ws, gone, i)
              g == [i \in 0 .. n + 1 |-> next(i)]
  <2>2. ASSUME NEW i \in 0 .. n PROVE g[i] = f[i]
    <3>1. f[i] = next(i)
      BY <2>1 DEF IsWriting
    <3>2. g[i] = next(i)
      <4>1. i \in 0 .. n + 1
        OBVIOUS
      <4>. HIDE DEF next
      <4>. QED BY <4>1
    <3>. QED BY <3>1, <3>2
  <2>3. ASSUME NEW i \in 0 .. n + 1
        PROVE  next(i) = IF i = 0 THEN d ELSE Write(g[i - 1], ws, gone, i)
    <3>1. CASE i = 0
      BY <3>1
    <3>2. CASE i # 0
      <4>1. i - 1 \in 0 .. n
        BY <3>2
      <4>2. g[i - 1] = f[i - 1]
        BY <2>2, <4>1
      <4>. HIDE DEF g
      <4>. QED BY <3>2, <4>2
    <3>. QED BY <3>1, <3>2
  <2>4. IsWriting(g, d, ws, gone, n + 1)
    <3>1. g = [i \in 0 .. n + 1 |-> IF i = 0 THEN d ELSE Write(g[i - 1], ws, gone, i)]
      BY <2>3
    <3>. QED BY <3>1 DEF IsWriting
  <2>. QED BY <2>4
<1>3. Nat \subseteq S
  <2>. HIDE DEF S
  <2>. QED BY <1>1, <1>2, SetInduction
<1>. QED BY <1>3

\* Writing chooses them.
LEMMA WritingIs ==
    ASSUME NEW S, NEW d, NEW ws \in Seq(S), NEW gone
    PROVE  IsWriting(Writing(d, ws, gone), d, ws, gone, Len(ws))
<1>. DEFINE n == Len(ws)
            f == Writing(d, ws, gone)
<1>1. n \in Nat
  OBVIOUS
<1>2. f = CHOOSE after :
              after = [i \in 0 .. n |-> IF i = 0 THEN d ELSE Write(after[i - 1], ws, gone, i)]
  BY DEF Writing
<1>. HIDE DEF f, n
<1>3. \E after :
          after = [i \in 0 .. n |-> IF i = 0 THEN d ELSE Write(after[i - 1], ws, gone, i)]
  <2>1. PICK g : IsWriting(g, d, ws, gone, n)
    BY <1>1, WritingExists
  <2>2. g = [i \in 0 .. n |-> IF i = 0 THEN d ELSE Write(g[i - 1], ws, gone, i)]
    BY <2>1 DEF IsWriting
  <2>. QED BY <2>2
<1>4. f = [i \in 0 .. n |-> IF i = 0 THEN d ELSE Write(f[i - 1], ws, gone, i)]
  BY <1>2, <1>3
<1>5. IsWriting(f, d, ws, gone, n)
  BY <1>4 DEF IsWriting
<1>. QED BY <1>5 DEF f, n

\* The database that is left after a restart fits the rooms there were.
LEMMA WrittenFits ==
    ASSUME NEW d, NEW rs, Fits(d, rs), NEW ws \in Seq(GoodWrites(rs)), NEW gone
    PROVE  Fits(Written(d, ws, gone), rs)
<1>. DEFINE n == Len(ws)
            f == Writing(d, ws, gone)
<1>1. n \in Nat
  OBVIOUS
<1>3. IsWriting(f, d, ws, gone, n)
  BY WritingIs
<1>. HIDE DEF f
<1>. DEFINE S == {i \in Nat : i <= n => Fits(f[i], rs)}
<1>4. 0 \in S
  <2>1. f[0] = d
    BY <1>1, <1>3 DEF IsWriting
  <2>. QED BY <2>1
<1>5. ASSUME NEW i \in Nat, i \in S PROVE i + 1 \in S
  <2>1. CASE i + 1 <= n
    <3>1. i + 1 \in 0 .. n /\ i + 1 # 0 /\ (i + 1) - 1 = i /\ i <= n /\ i + 1 \in 1 .. n
      BY <1>1, <2>1
    <3>2. Fits(f[i], rs) /\ ws[i + 1] \in GoodWrites(rs)
      BY <1>5, <3>1
    <3>3. f[i + 1] = Write(f[(i + 1) - 1], ws, gone, i + 1)
      BY <1>3, <3>1 DEF IsWriting
    <3>4. f[i + 1] = Write(f[i], ws, gone, i + 1)
      BY <3>1, <3>3
    <3>5. Fits(f[i + 1], rs)
      BY <3>2, <3>4, ApplyFits DEF Write
    <3>. QED BY <3>5
  <2>2. CASE ~(i + 1 <= n)
    BY <2>2
  <2>. QED BY <2>1, <2>2
<1>6. Nat \subseteq S
  <2>. HIDE DEF S
  <2>. QED BY <1>4, <1>5, SetInduction
<1>7. Fits(f[n], rs)
  BY <1>1, <1>6
<1>. QED BY <1>7 DEF Written, f

\* What fits some rooms is coherent.
LEMMA FitsCoherent ==
    ASSUME NEW d, NEW rs, Fits(d, rs)
    PROVE  Coherent(d)
<1>1. ASSUME NEW r \in RoomIds
      PROVE  d.messages[r] \in Seq({m \in Message : m.room = r /\ d.rooms[r] # Absent
                                                    /\ m.born = d.rooms[r].born})
  <2>1. CASE d.rooms[r] = Absent
    <3>1. d.messages[r] = <<>>
      BY <2>1 DEF Fits
    <3>. QED BY <3>1, Short
  <2>2. CASE d.rooms[r] # Absent
    <3>1. d.messages[r] \in Seq(GoodLines(rs, r)) /\ d.rooms[r].born = rs[r].born
      BY <2>2 DEF Fits
    <3>2. GoodLines(rs, r) = {m \in Message : m.room = r /\ d.rooms[r] # Absent
                                              /\ m.born = d.rooms[r].born}
      BY <2>2, <3>1 DEF GoodLines
    <3>. QED BY <3>1, <3>2
  <2>. QED BY <2>1, <2>2
<1>. QED BY <1>1 DEF Fits, Coherent

\* So is the database that migrate leaves.
LEMMA MigratedCoherent == Coherent(Migrated)
<1>. DEFINE row == [name |-> Lobby, topic |-> Lobby, owner |-> Absent, born |-> 0]
            none == [i \in RoomIds |-> Absent]
<1>1. DefaultRoom \in RoomIds /\ Absent \notin RoomRow
  BY FeedFacts
<1>2. /\ Migrated.rooms = [none EXCEPT ![DefaultRoom] = row]
      /\ Migrated.messages = [i \in RoomIds |-> <<>>]
      /\ Migrated = [rooms |-> [none EXCEPT ![DefaultRoom] = row],
                     messages |-> [i \in RoomIds |-> <<>>],
                     keys |-> [n \in {} |-> Absent], bans |-> {}]
  <2>. DEFINE empty == [rooms |-> none, messages |-> [i \in RoomIds |-> <<>>],
                        keys |-> [n \in {} |-> Absent], bans |-> {}]
  <2>1. Migrated = [empty EXCEPT !.rooms[DefaultRoom] = row]
    BY DEF Migrated, EmptyDb
  <2>. HIDE DEF row, none
  <2>2. Migrated = [rooms |-> [none EXCEPT ![DefaultRoom] = row],
                    messages |-> [i \in RoomIds |-> <<>>],
                    keys |-> [n \in {} |-> Absent], bans |-> {}]
    BY <2>1
  <2>. QED BY <2>2
<1>3. row \in RoomRow
  BY DEF RoomRow
<1>. HIDE DEF row
<1>4. [none EXCEPT ![DefaultRoom] = row] \in [RoomIds -> RoomRow \cup {Absent}]
  BY <1>3
<1>5. [i \in RoomIds |-> <<>>] \in [RoomIds -> Seq(Message)]
  BY Short
<1>6. Migrated.rooms[DefaultRoom] = row
  BY <1>1, <1>2
<1>7. \A r \in RoomIds : Migrated.messages[r] = <<>>
  BY <1>2
<1>. HIDE DEF none
<1>8. Migrated \in DbType
  BY <1>2, <1>4, <1>5 DEF DbType
<1>9. Migrated.rooms[DefaultRoom] # Absent
  BY <1>1, <1>3, <1>6
<1>. QED BY <1>7, <1>8, <1>9, Short DEF Coherent

\* The server begins with the rooms of a coherent database.
LEMMA FeedStart ==
    ASSUME NEW d, Coherent(d), NEW hosted \in BOOLEAN
    PROVE  /\ StartAt(hosted) \in [Viewers -> {0} \cup RoomIds]
           /\ \A v \in Viewers : StartAt(hosted)[v] # 0 => Loaded(d)[StartAt(hosted)[v]] # Absent
           /\ [t \in Threads |-> <<>>] \in [Threads -> Seq(GoodSteps(Loaded(d)))]
           /\ <<>> \in Seq(GoodWrites(Loaded(d)))
<1>1. DefaultRoom \in RoomIds /\ Loaded(d)[DefaultRoom] # Absent
  BY LoadedGood, FeedFacts
<1>2. \A v \in Viewers : StartAt(hosted)[v] \in {0, DefaultRoom}
  BY DEF StartAt
<1>3. StartAt(hosted) \in [Viewers -> {0} \cup RoomIds]
  BY <1>1 DEF StartAt
<1>. QED BY <1>1, <1>2, <1>3, Short

\* The server's first start.
LEMMA FeedInit == Init => FeedInv
<1>. SUFFICES ASSUME Init PROVE FeedInv
  OBVIOUS
<1>1. PICK hosted \in BOOLEAN : at = StartAt(hosted)
  BY DEF Init
<1>2. Coherent(db) /\ rooms = Loaded(db)
  BY MigratedCoherent DEF Init
<1>3. RoomsInv /\ Fits(db, rooms)
  BY <1>2, LoadedGood DEF RoomsInv
<1>4. PlacesInv
  BY <1>1, <1>2, FeedStart DEF PlacesInv
<1>5. QueuesInv
  BY <1>2, FeedStart DEF Init, QueuesInv
<1>. QED BY <1>3, <1>4, <1>5 DEF FeedInv, Init

\* A restart, whatever writes are lost.
LEMMA FeedRestart ==
    ASSUME FeedInv, Restart
    PROVE  FeedInv'
<1>1. PICK gone : db' = Written(db, offered, gone)
  BY DEF Restart
<1>2. Fits(db', rooms)
  BY <1>1, WrittenFits DEF FeedInv, QueuesInv
<1>3. Coherent(db')
  BY <1>2, FitsCoherent
<1>4. Hosting \in BOOLEAN /\ at' = StartAt(Hosting) /\ rooms' = Loaded(db')
  BY DEF Restart, Hosting
<1>5. RoomsInv' /\ Fits(db', rooms')
  BY <1>3, <1>4, LoadedGood DEF RoomsInv
<1>6. PlacesInv'
  BY <1>3, <1>4, FeedStart DEF PlacesInv
<1>7. QueuesInv'
  BY <1>3, <1>4, FeedStart DEF Restart, QueuesInv
<1>8. posts' \in Nat /\ ops' \in Nat
  BY DEF Restart, FeedInv
<1>. QED BY <1>5, <1>6, <1>7, <1>8 DEF FeedInv

\* Every step keeps the invariant of the rooms.
LEMMA FeedStep == FeedInv /\ [Next]_vars => FeedInv'
<1>. SUFFICES ASSUME FeedInv, [Next]_vars PROVE FeedInv'
  OBVIOUS
<1>1. ASSUME NEW t \in Threads, ThreadStep(t) PROVE FeedInv'
  <2>1. CASE PostStep(t)
    BY <2>1, FeedPost
  <2>2. CASE MoveStep(t)
    BY <2>2, FeedMove
  <2>3. CASE UsersStep(t) \/ ListsStep(t) \/ DeliverStep(t) \/ StoreStep(t) \/ PersistStep(t)
    BY <2>3, FeedQuiet
  <2>. QED BY <1>1, <2>1, <2>2, <2>3 DEF ThreadStep
<1>2. ASSUME NEW c \in Clients, Frame(c) PROVE FeedInv'
  BY <1>2, FeedFrame
<1>3. CASE LocalCommand \/ AdminCommand
  BY <1>3, FeedCommand
<1>4. CASE Restart
  BY <1>4, FeedRestart
<1>5. CASE UNCHANGED vars
  BY <1>5 DEF vars, memory, FeedInv, RoomsInv, PlacesInv, QueuesInv
<1>. QED BY <1>1, <1>2, <1>3, <1>4, <1>5 DEF Next

\* A room shows only messages that were posted in it, also when restarts have
\* lost its row and given its id to another room.
THEOREM RoomsShowTheirOwn == Spec => []HistoryBelongs
<1>1. FeedInv => HistoryBelongs
  <2>. SUFFICES ASSUME FeedInv, NEW r \in RoomIds, rooms[r] # Absent,
                       NEW i \in 1 .. Len(rooms[r].recent)
                PROVE  rooms[r].recent[i].room = r /\ rooms[r].recent[i].born = rooms[r].born
    BY DEF HistoryBelongs, Exists
  <2>1. rooms[r].recent \in Seq(GoodLines(rooms, r))
    BY DEF FeedInv, RoomsInv
  <2>2. rooms[r].recent[i] \in GoodLines(rooms, r)
    BY <2>1
  <2>. QED BY <2>2 DEF GoodLines
<1>. QED BY <1>1, FeedInit, FeedStep, PTL DEF Spec

-----------------------------------------------------------------------------
(***************************************************************************)
(* What a frame does to a screen.                                          *)
(***************************************************************************)

\* The fields of a frame.
LEMMA FrameFields ==
    ASSUME NEW f \in FrameType
    PROVE  /\ f.kind \in {"users", "topic", "joined", "text", "rooms", "private"}
           /\ f.kind \in {"users", "topic", "joined", "text"} => f.room \in RoomIds
           /\ f.kind = "users" => f.val \in SUBSET Viewers
           /\ f.kind \in {"topic", "joined"} => f.val \in TopicVals
           /\ f.kind = "text" => f.val \in Seq(Message)
           /\ f.kind = "rooms" => f.val \in CountVals
BY DEF FrameType

\* The fields of a screen.
LEMMA ViewFields ==
    ASSUME NEW a \in ViewType
    PROVE  /\ a.room \in 0 .. Gone /\ a.topic \in TopicVals /\ a.users \in SUBSET Viewers
           /\ a.lines \in Seq(Message) /\ a.rooms \in CountVals
           /\ \A s \in Seq(Message) : /\ [a EXCEPT !.lines = s] \in ViewType
                                      /\ [a EXCEPT !.lines = s].lines = s
                                      /\ [a EXCEPT !.lines = s].room = a.room
           /\ \A u \in SUBSET Viewers : /\ [a EXCEPT !.users = u] \in ViewType
                                        /\ [a EXCEPT !.users = u].lines = a.lines
                                        /\ [a EXCEPT !.users = u].room = a.room
           /\ \A p \in TopicVals : /\ [a EXCEPT !.topic = p] \in ViewType
                                   /\ [a EXCEPT !.topic = p].lines = a.lines
                                   /\ [a EXCEPT !.topic = p].room = a.room
           /\ \A n \in CountVals : /\ [a EXCEPT !.rooms = n] \in ViewType
                                   /\ [a EXCEPT !.rooms = n].lines = a.lines
                                   /\ [a EXCEPT !.rooms = n].room = a.room
BY DEF ViewType

\* A screen without lines.
LEMMA BlankScreen ==
    ASSUME NEW r \in 0 .. Gone
    PROVE  /\ Blank(r) \in ViewType /\ Blank(r).room = r /\ Blank(r).lines = <<>>
           /\ \A p \in TopicVals, n \in CountVals :
                 /\ [Blank(r) EXCEPT !.topic = p, !.rooms = n] \in ViewType
                 /\ [Blank(r) EXCEPT !.topic = p, !.rooms = n].room = r
                 /\ [Blank(r) EXCEPT !.topic = p, !.rooms = n].lines = <<>>
           /\ \A p \in TopicVals, u \in SUBSET Viewers, n \in CountVals :
                 /\ [Blank(r) EXCEPT !.topic = p, !.users = u, !.rooms = n] \in ViewType
                 /\ [Blank(r) EXCEPT !.topic = p, !.users = u, !.rooms = n].room = r
                 /\ [Blank(r) EXCEPT !.topic = p, !.users = u, !.rooms = n].lines = <<>>
<1>1. Absent \in TopicVals /\ {} \in SUBSET Viewers /\ <<>> \in CountVals
      /\ <<>> \in Seq(Message)
  BY Short DEF TopicVals, CountVals
<1>. QED BY <1>1 DEF Blank, ViewType

\* Lines are added at the end, and the first ones go.
LEMMA PushOK ==
    ASSUME NEW a \in ViewType, NEW ls \in Seq(Message)
    PROVE  /\ Push(a, ls) \in ViewType /\ Push(a, ls).room = a.room
           /\ \A T \in SUBSET Message :
                 a.lines \in Seq(T) /\ ls \in Seq(T) => Push(a, ls).lines \in Seq(T)
<1>1. MaxLines \in Nat /\ a.lines \in Seq(Message)
  BY FeedFacts, ViewFields
<1>2. Keep(a.lines \o ls, MaxLines) \in Seq(Message)
  BY <1>1, Joined, KeepIn
<1>3. Push(a, ls) = [a EXCEPT !.lines = Keep(a.lines \o ls, MaxLines)]
  BY DEF Push
<1>4. ASSUME NEW T \in SUBSET Message, a.lines \in Seq(T), ls \in Seq(T)
      PROVE  Keep(a.lines \o ls, MaxLines) \in Seq(T)
  BY <1>1, <1>4, Joined, KeepIn
<1>. QED BY <1>2, <1>3, <1>4, ViewFields

\* A screen keeps to the lines of its room when the frame is for a client, or
\* has messages only of the room the host's screen shows.
LEMMA HandleOK ==
    ASSUME NEW v, NEW a \in ViewType, NEW f \in FrameType,
           f.kind = "text" => f.val \in Seq(LinesOf(f.room))
    PROVE  /\ Handle(v, a, f) \in ViewType
           /\ a.room # Gone => Handle(v, a, f).room # Gone
           /\ f.kind # "joined" => Handle(v, a, f).room = a.room
           /\ f.kind = "joined" /\ a.room # Gone => Handle(v, a, f).room = f.room
           /\ a.lines \in Seq(ShownLines(a.room))
                /\ (v = Host /\ f.kind = "text" => f.room = a.room)
              => Handle(v, a, f).lines \in Seq(ShownLines(Handle(v, a, f).room))
<1>. DEFINE h == Handle(v, a, f)
<1>1. CASE a.room = Gone
  <2>1. h = a
    BY <1>1 DEF Handle
  <2>. QED BY <1>1, <2>1
<1>2. CASE a.room # Gone /\ f.kind = "joined"
  <2>1. h = [Blank(f.room) EXCEPT !.topic = f.val, !.rooms = a.rooms]
    BY <1>2 DEF Handle
  <2>2. /\ f.room \in RoomIds /\ f.room \in 0 .. Gone /\ f.room # Gone /\ f.val \in TopicVals
        /\ a.rooms \in CountVals
    <3>1. f.room \in RoomIds /\ f.val \in TopicVals /\ a.rooms \in CountVals
      BY <1>2, FrameFields, ViewFields
    <3>2. \A r \in RoomIds : r \in 0 .. Gone /\ r # Gone
      BY FeedFacts DEF RoomIds, Gone
    <3>. QED BY <3>1, <3>2
  <2>3. h \in ViewType /\ h.room = f.room /\ h.lines = <<>>
    <3>1. \A p \in TopicVals, n \in CountVals :
              /\ [Blank(f.room) EXCEPT !.topic = p, !.rooms = n] \in ViewType
              /\ [Blank(f.room) EXCEPT !.topic = p, !.rooms = n].room = f.room
              /\ [Blank(f.room) EXCEPT !.topic = p, !.rooms = n].lines = <<>>
      BY <2>2, BlankScreen
    <3>. HIDE DEF h
    <3>. QED BY <2>1, <2>2, <3>1
  <2>. HIDE DEF h
  <2>4. h.lines \in Seq(ShownLines(h.room))
    BY <2>3, Short
  <2>. QED BY <1>2, <2>2, <2>3, <2>4 DEF h
<1>3. CASE a.room # Gone /\ f.kind = "text"
  <2>1. h = IF Shown(v, a, f) THEN Push(a, f.val) ELSE a
    BY <1>3 DEF Handle
  <2>2. f.val \in Seq(Message) /\ f.val \in Seq(LinesOf(f.room))
    BY <1>3, FrameFields
  <2>3. h \in ViewType /\ h.room = a.room
    BY <2>1, <2>2, PushOK
  <2>4. ASSUME a.lines \in Seq(ShownLines(a.room)), v = Host => f.room = a.room
        PROVE  h.lines \in Seq(ShownLines(a.room))
    <3>1. CASE Shown(v, a, f)
      <4>1. f.room = a.room
        BY <2>4, <3>1 DEF Shown
      <4>2. LinesOf(f.room) \subseteq ShownLines(a.room) /\ ShownLines(a.room) \in SUBSET Message
        BY <4>1 DEF LinesOf, ShownLines
      <4>3. f.val \in Seq(ShownLines(a.room))
        BY <2>2, <4>2, SeqGrows
      <4>. QED BY <2>1, <2>2, <2>4, <3>1, <4>2, <4>3, PushOK
    <3>2. CASE ~Shown(v, a, f)
      BY <2>1, <2>4, <3>2
    <3>. QED BY <3>1, <3>2
  <2>. HIDE DEF h
  <2>. QED BY <1>3, <2>3, <2>4 DEF h
<1>4. CASE a.room # Gone /\ f.kind = "private"
  <2>1. h = Push(a, <<PrivateLine>>)
    BY <1>4 DEF Handle
  <2>2. /\ PrivateLine \in Message /\ PrivateLine \in ShownLines(a.room)
        /\ ShownLines(a.room) \in SUBSET Message
    BY DEF PrivateLine, Message, ShownLines
  <2>3. <<PrivateLine>> \in Seq(Message) /\ <<PrivateLine>> \in Seq(ShownLines(a.room))
    BY <2>2, Short
  <2>4. h \in ViewType /\ h.room = a.room
    BY <2>1, <2>3, PushOK
  <2>5. a.lines \in Seq(ShownLines(a.room)) => h.lines \in Seq(ShownLines(a.room))
    BY <2>1, <2>2, <2>3, PushOK
  <2>. HIDE DEF h
  <2>. QED BY <1>4, <2>4, <2>5 DEF h
<1>5. CASE a.room # Gone /\ f.kind \in {"users", "topic", "rooms"}
  <2>1. \/ h = a
        \/ f.kind = "users" /\ h = [a EXCEPT !.users = f.val]
        \/ f.kind = "topic" /\ h = [a EXCEPT !.topic = f.val]
        \/ f.kind = "rooms" /\ h = [a EXCEPT !.rooms = f.val]
    BY <1>5 DEF Handle
  <2>2. h \in ViewType /\ h.room = a.room /\ h.lines = a.lines
    <3>. HIDE DEF h
    <3>1. CASE f.kind = "users" /\ h = [a EXCEPT !.users = f.val]
      <4>1. f.val \in SUBSET Viewers
        BY <3>1, FrameFields
      <4>. QED BY <3>1, <4>1, ViewFields
    <3>2. CASE f.kind = "topic" /\ h = [a EXCEPT !.topic = f.val]
      <4>1. f.val \in TopicVals
        BY <3>2, FrameFields
      <4>. QED BY <3>2, <4>1, ViewFields
    <3>3. CASE f.kind = "rooms" /\ h = [a EXCEPT !.rooms = f.val]
      <4>1. f.val \in CountVals
        BY <3>3, FrameFields
      <4>. QED BY <3>3, <4>1, ViewFields
    <3>. QED BY <2>1, <3>1, <3>2, <3>3
  <2>. HIDE DEF h
  <2>. QED BY <1>5, <2>2 DEF h
<1>. QED BY <1>1, <1>2, <1>3, <1>4, <1>5, FrameFields

\* And so it does when a frame may not fit.
LEMMA ReceiveOK ==
    ASSUME NEW v, NEW a \in ViewType, NEW f \in FrameType,
           f.kind = "text" => f.val \in Seq(LinesOf(f.room))
    PROVE  /\ Receive(v, a, f) \in ViewType
           /\ a.room # Gone => Receive(v, a, f).room # Gone
           /\ f.kind # "joined" => Receive(v, a, f).room = a.room
           /\ f.kind = "joined" /\ a.room # Gone => Receive(v, a, f).room = f.room
           /\ a.lines \in Seq(ShownLines(a.room))
                /\ (v = Host /\ f.kind = "text" => f.room = a.room)
              => Receive(v, a, f).lines \in Seq(ShownLines(Receive(v, a, f).room))
<1>1. CASE v = Host \/ Encodes(f)
  <2>1. Receive(v, a, f) = Handle(v, a, f)
    BY <1>1 DEF Receive
  <2>. QED BY <2>1, HandleOK
<1>2. CASE ~(v = Host \/ Encodes(f))
  <2>1. Receive(v, a, f) = a /\ f.kind = "users"
    BY <1>2 DEF Receive, Encodes
  <2>. QED BY <2>1
<1>. QED BY <1>1, <1>2

-----------------------------------------------------------------------------
(***************************************************************************)
(* The host's queues.                                                      *)
(***************************************************************************)

\* A step is replaced by others that show the host its room and move nobody.
LEMMA QueueOn ==
    ASSUME NEW S, NEW q \in Seq(S), q # <<>>, NEW s \in Seq(S), NEW h,
           QueueShowsOnly(q, h),
           \A i \in 1 .. Len(s) : ShowsOnly(s[i], h) /\ s[i].op # "move"
    PROVE  QueueShowsOnly(s \o Tail(q), h)
<1>. DEFINE r == Tail(q)
<1>1. /\ r \in Seq(S) /\ Len(r) = Len(q) - 1 /\ Len(q) \in Nat /\ Len(r) \in Nat
      /\ \A i \in 1 .. Len(r) : r[i] = q[i + 1]
  BY QueueParts
<1>2. /\ Len(s \o r) = Len(s) + Len(r) /\ Len(s) \in Nat
      /\ \A i \in 1 .. Len(s) : (s \o r)[i] = s[i]
      /\ \A i \in 1 .. Len(r) : (s \o r)[Len(s) + i] = r[i]
  BY <1>1, Joined
<1>. HIDE DEF r
<1>3. ASSUME NEW i \in 1 .. Len(s \o r)
      PROVE  ShowsOnly((s \o r)[i], h) /\ ((s \o r)[i].op = "move" => i = Len(s \o r))
  <2>1. CASE i <= Len(s)
    <3>1. i \in 1 .. Len(s)
      BY <1>1, <1>2, <2>1
    <3>. QED BY <1>2, <3>1
  <2>2. CASE ~(i <= Len(s))
    <3>. DEFINE k == i - Len(s)
    <3>1. k \in 1 .. Len(r) /\ i = Len(s) + k /\ k + 1 \in 1 .. Len(q)
      BY <1>1, <1>2, <2>2
    <3>2. (k + 1 = Len(q)) => i = Len(s \o r)
      BY <1>1, <1>2, <3>1
    <3>. HIDE DEF k
    <3>3. (s \o r)[i] = q[k + 1]
      BY <1>1, <1>2, <3>1
    <3>4. ShowsOnly(q[k + 1], h) /\ (q[k + 1].op = "move" => k + 1 = Len(q))
      BY <3>1 DEF QueueShowsOnly
    <3>. QED BY <3>2, <3>3, <3>4
  <2>. QED BY <2>1, <2>2
<1>. QED BY <1>3 DEF QueueShowsOnly, r

\* The frame that brings the host to its room stays first when the step before
\* it is replaced by harmless ones.
LEMMA JoinOn ==
    ASSUME NEW S, NEW q \in Seq(S), q # <<>>, NEW s \in Seq(S), NEW h,
           JoinFirst(q, h), ~HostJoin(Head(q))
    PROVE  /\ Harmless(Head(q), h)
           /\ (\A i \in 1 .. Len(s) : Harmless(s[i], h)) => JoinFirst(s \o Tail(q), h)
<1>. DEFINE r == Tail(q)
<1>1. /\ r \in Seq(S) /\ Len(r) = Len(q) - 1 /\ Len(q) \in Nat /\ Len(r) \in Nat
      /\ \A i \in 1 .. Len(r) : r[i] = q[i + 1]
      /\ Head(q) = q[1]
  BY QueueParts
<1>2. /\ Len(s \o r) = Len(s) + Len(r) /\ Len(s) \in Nat
      /\ \A i \in 1 .. Len(s) : (s \o r)[i] = s[i]
      /\ \A i \in 1 .. Len(r) : (s \o r)[Len(s) + i] = r[i]
  BY <1>1, Joined
<1>. HIDE DEF r
<1>3. PICK j \in 1 .. Len(q) : HostJoin(q[j]) /\ \A i \in 1 .. j - 1 : Harmless(q[i], h)
  BY DEF JoinFirst
<1>4. j \in Nat /\ j > 1
  BY <1>1, <1>3
<1>5. Harmless(Head(q), h)
  <2>1. 1 \in 1 .. j - 1
    BY <1>4
  <2>. QED BY <1>1, <1>3, <2>1
<1>6. ASSUME \A i \in 1 .. Len(s) : Harmless(s[i], h)
      PROVE  JoinFirst(s \o r, h)
  <2>. DEFINE n == Len(s) + (j - 1)
  <2>1. n \in 1 .. Len(s \o r) /\ j - 1 \in 1 .. Len(r) /\ (j - 1) + 1 = j
    BY <1>1, <1>2, <1>3, <1>4
  <2>2. HostJoin((s \o r)[n])
    <3>1. (s \o r)[n] = q[j]
      BY <1>1, <1>2, <2>1
    <3>. QED BY <1>3, <3>1
  <2>3. ASSUME NEW i \in 1 .. n - 1 PROVE Harmless((s \o r)[i], h)
    <3>1. CASE i <= Len(s)
      <4>1. i \in 1 .. Len(s)
        BY <1>2, <2>1, <3>1
      <4>. QED BY <1>2, <1>6, <4>1
    <3>2. CASE ~(i <= Len(s))
      <4>. DEFINE k == i - Len(s)
      <4>1. k \in 1 .. Len(r) /\ i = Len(s) + k /\ k + 1 \in 1 .. j - 1
        BY <1>1, <1>2, <1>3, <1>4, <2>1, <3>2
      <4>. HIDE DEF k
      <4>2. (s \o r)[i] = q[k + 1]
        BY <1>1, <1>2, <4>1
      <4>. QED BY <1>3, <4>1, <4>2
    <3>. QED BY <3>1, <3>2
  <2>. HIDE DEF n
  <2>. QED BY <2>1, <2>2, <2>3 DEF JoinFirst
<1>. QED BY <1>5, <1>6 DEF r

\* A thread at work: its queue, and the other's, which is empty.
LEMMA HostContinue ==
    ASSUME FeedInv, HostInv, NEW t \in Threads, todo[t] # <<>>,
           NEW S, NEW s \in Seq(S), Continue(t, s),
           \A i \in 1 .. Len(s) : ShowsOnly(s[i], at[Host]) /\ s[i].op # "move",
           at'[Host] = at[Host]
    PROVE  OneBusy' /\ HostQueues'
<1>. DEFINE all == GoodSteps(rooms) \cup S
<1>1. todo[t] \in Seq(all) /\ s \in Seq(all)
  <2>1. todo[t] \in Seq(GoodSteps(rooms)) /\ GoodSteps(rooms) \subseteq all /\ S \subseteq all
    BY DEF FeedInv, QueuesInv
  <2>. QED BY <2>1, SeqGrows
<1>. HIDE DEF all
<1>2. /\ todo'[t] = s \o Tail(todo[t])
      /\ \A u \in Threads : u # t => todo'[u] = todo[u] /\ todo[u] = <<>>
  <2>1. todo' = [todo EXCEPT ![t] = s \o Tail(@)] /\ todo \in [Threads -> Seq(GoodSteps(rooms))]
    BY DEF Continue, FeedInv, QueuesInv
  <2>2. \A u \in Threads : u # t => todo[u] = <<>>
    BY DEF HostInv, OneBusy, Idle
  <2>. QED BY <2>1, <2>2
<1>3. QueueShowsOnly(todo'[t], at[Host])
  BY <1>1, <1>2, QueueOn DEF HostInv, HostQueues
<1>4. OneBusy'
  BY <1>2 DEF OneBusy, Idle
<1>5. \A u \in Threads : QueueShowsOnly(todo'[u], at[Host])
  BY <1>2, <1>3 DEF HostInv, HostQueues
<1>. QED BY <1>4, <1>5 DEF HostQueues

\* A host that is behind still has the frame to come that its thread did not
\* deliver.
LEMMA HostStillBehind ==
    ASSUME FeedInv, HostInv, NEW t \in Threads, todo[t] # <<>>,
           NEW S, NEW s \in Seq(S), Continue(t, s),
           ~HostJoin(Cur(t)), HostBehind
    PROVE  /\ Harmless(Cur(t), at[Host])
           /\ (\A i \in 1 .. Len(s) : Harmless(s[i], at[Host]))
                => \E u \in Threads : JoinFirst(todo'[u], at[Host])
<1>. DEFINE all == GoodSteps(rooms) \cup S
<1>1. todo[t] \in Seq(all) /\ s \in Seq(all)
  <2>1. todo[t] \in Seq(GoodSteps(rooms)) /\ GoodSteps(rooms) \subseteq all /\ S \subseteq all
    BY DEF FeedInv, QueuesInv
  <2>. QED BY <2>1, SeqGrows
<1>. HIDE DEF all
<1>2. JoinFirst(todo[t], at[Host])
  <2>1. PICK u \in Threads : JoinFirst(todo[u], at[Host])
    BY DEF HostInv, HostCatchesUp
  <2>2. todo[u] # <<>>
    <3>1. Len(<<>>) = 0
      OBVIOUS
    <3>. QED BY <2>1, <3>1 DEF JoinFirst
  <2>3. u = t
    BY <2>2 DEF HostInv, OneBusy, Idle
  <2>. QED BY <2>1, <2>3
<1>3. todo'[t] = s \o Tail(todo[t])
  BY DEF Continue, FeedInv, QueuesInv
<1>4. Harmless(Cur(t), at[Host])
  BY <1>1, <1>2, JoinOn DEF Cur
<1>5. (\A i \in 1 .. Len(s) : Harmless(s[i], at[Host])) => JoinFirst(todo'[t], at[Host])
  BY <1>1, <1>2, <1>3, JoinOn DEF Cur
<1>. QED BY <1>4, <1>5

\* A step that shows no message and moves nobody.
Plain(c) ==
    /\ c.op \notin {"move", "post"}
    /\ c.op = "deliver" => c.frame.kind \notin {"text", "joined"}

\* A thread goes on, with plain steps, and the host's screen keeps its room.
LEMMA HostPlain ==
    ASSUME FeedInv, HostInv, NEW t \in Threads, todo[t] # <<>>,
           NEW S, NEW s \in Seq(S), Continue(t, s), \A i \in 1 .. Len(s) : Plain(s[i]),
           ~HostJoin(Cur(t)), at'[Host] = at[Host], view'[Host].room = view[Host].room,
           view'[Host].lines \in Seq(ShownLines(view'[Host].room))
    PROVE  HostInv'
<1>1. \A i \in 1 .. Len(s) : /\ ShowsOnly(s[i], at[Host]) /\ s[i].op # "move"
                             /\ Harmless(s[i], at[Host])
  BY DEF Plain, ShowsOnly, Harmless, HostText, HostJoin
<1>2. OneBusy' /\ HostQueues'
  BY <1>1, HostContinue
<1>3. HostCatchesUp'
  <2>1. HostBehind' => HostBehind
    BY DEF HostBehind
  <2>2. HostBehind => \E u \in Threads : JoinFirst(todo'[u], at[Host])
    BY <1>1, HostStillBehind
  <2>. QED BY <2>1, <2>2 DEF HostCatchesUp
<1>. QED BY <1>2, <1>3 DEF HostInv

\* Lists of users and of rooms, and writes.
LEMMA HostQuiet ==
    ASSUME FeedInv, HostInv, NEW t \in Threads,
           UsersStep(t) \/ ListsStep(t) \/ StoreStep(t) \/ PersistStep(t)
    PROVE  HostInv'
<1>1. /\ todo[t] # <<>> /\ UNCHANGED <<at, view>>
      /\ Cur(t).op \in {"users", "lists", "store", "persist"}
  BY DEF UsersStep, ListsStep, StoreStep, PersistStep, AtOp, Cur, memory
<1>2. ~HostJoin(Cur(t))
  BY <1>1 DEF HostJoin
<1>3. view'[Host].lines \in Seq(ShownLines(view'[Host].room))
  BY <1>1 DEF HostInv
<1>4. ASSUME NEW x, Plain(x), Continue(t, <<x>>) PROVE HostInv'
  <2>1. <<x>> \in Seq({x}) /\ \A i \in 1 .. Len(<<x>>) : Plain(<<x>>[i])
    BY <1>4, Short
  <2>. QED BY <1>1, <1>2, <1>3, <1>4, <2>1, HostPlain
<1>5. CASE UsersStep(t)
  <2>. DEFINE x == Deliver(Members(Cur(t).room), UserList(Cur(t).room, Members(Cur(t).room)))
  <2>1. Plain(x)
    BY DEF Plain, Deliver, UserList
  <2>. QED BY <1>4, <1>5, <2>1 DEF UsersStep
<1>6. CASE ListsStep(t)
  <2>1. Plain(DeliverAll(RoomList(Counts)))
    BY DEF Plain, DeliverAll
  <2>. QED BY <1>4, <1>6, <2>1 DEF ListsStep
<1>7. CASE StoreStep(t)
  <2>1. <<>> \in Seq({}) /\ \A i \in 1 .. Len(<<>>) : Plain(<<>>[i])
    OBVIOUS
  <2>. QED BY <1>1, <1>2, <1>3, <1>7, <2>1, HostPlain DEF StoreStep
<1>8. CASE PersistStep(t)
  <2>1. Plain(Store(RoomWrite(Cur(t).room, Row(Cur(t).room))))
    BY DEF Plain, Store
  <2>. QED BY <1>4, <1>8, <2>1 DEF PersistStep
<1>. QED BY <1>5, <1>6, <1>7, <1>8

\* A message: the host gets it when it is of the host's room, and then the
\* host's screen shows that room.
LEMMA HostPost ==
    ASSUME FeedInv, HostInv, NEW t \in Threads, PostStep(t)
    PROVE  HostInv'
<1>. DEFINE r == Cur(t).room
            m == [n |-> posts + 1, room |-> r, born |-> rooms[r].born]
            text == Deliver(Members(r), RoomText(r, <<m>>))
            store == Store(MessageWrite(r, m))
            s == <<text, store>>
<1>1. /\ todo[t] # <<>> /\ UNCHANGED <<at, view>> /\ Cur(t).op = "post" /\ Continue(t, s)
  BY DEF PostStep, AtOp, Cur
<1>2. ~HostJoin(Cur(t))
  BY <1>1 DEF HostJoin
<1>3. /\ text.op = "deliver" /\ text.to = Members(r) /\ text.frame.room = r
      /\ text.frame.kind = "text" /\ store.op = "store"
  BY DEF Deliver, RoomText, Store
<1>4. Host \in Members(r) => r = at[Host]
  BY DEF Members
<1>. HIDE DEF text, store
<1>5. /\ s \in Seq({text, store}) /\ Len(s) = 2 /\ s[1] = text /\ s[2] = store
      /\ \A i \in 1 .. 2 : i = 1 \/ i = 2
  BY Short
<1>. HIDE DEF s
<1>6. ShowsOnly(text, at[Host]) /\ ShowsOnly(store, at[Host])
  BY <1>3, <1>4 DEF ShowsOnly, HostText, HostJoin
<1>7. \A i \in 1 .. Len(s) : ShowsOnly(s[i], at[Host]) /\ s[i].op # "move"
  BY <1>3, <1>5, <1>6
<1>8. OneBusy' /\ HostQueues'
  BY <1>1, <1>5, <1>7, HostContinue
<1>9. HostCatchesUp'
  <2>1. HostBehind' => HostBehind
    BY <1>1 DEF HostBehind
  <2>2. ASSUME HostBehind PROVE \E u \in Threads : JoinFirst(todo'[u], at[Host])
    <3>1. Harmless(Cur(t), at[Host])
      BY <1>1, <1>2, <1>5, <2>2, HostStillBehind
    <3>2. r # at[Host]
      BY <1>1, <3>1 DEF Harmless
    <3>3. Harmless(text, at[Host]) /\ Harmless(store, at[Host])
      BY <1>3, <1>4, <3>2 DEF Harmless, HostText
    <3>4. \A i \in 1 .. Len(s) : Harmless(s[i], at[Host])
      BY <1>5, <3>3
    <3>. QED BY <1>1, <1>2, <1>5, <2>2, <3>4, HostStillBehind
  <2>. QED BY <1>1, <2>1, <2>2 DEF HostCatchesUp
<1>. QED BY <1>1, <1>8, <1>9 DEF HostInv

\* A frame is taken by its recipients.
LEMMA DeliverFacts ==
    ASSUME FeedInv, NEW t \in Threads, DeliverStep(t)
    PROVE  \E to \in SUBSET Viewers, f \in FrameType :
              /\ ShowTo(to, f) /\ (f.kind = "text" => f.val \in Seq(LinesOf(f.room)))
              /\ HostText(Cur(t)) <=> Host \in to /\ f.kind = "text"
              /\ HostJoin(Cur(t)) <=> Host \in to /\ f.kind = "joined"
              /\ HostText(Cur(t)) \/ HostJoin(Cur(t)) => Cur(t).frame = f
<1>. DEFINE c == Cur(t)
<1>1. todo[t] # <<>>
  BY DEF DeliverStep, AtOp
<1>2. c \in StepType /\ StepOK(rooms, c)
  BY <1>1, CurGood
<1>3. CASE AtOp(t, "deliver") /\ ShowTo(c.to, c.frame)
  <2>1. c.op = "deliver"
    BY <1>3 DEF AtOp, Cur
  <2>2. c.to \in SUBSET Viewers /\ c.frame \in FrameType
    BY <1>2, <2>1, StepFields
  <2>3. c.frame.kind = "text" => c.frame.val \in Seq(LinesOf(c.frame.room))
    BY <1>2, <2>1 DEF StepOK
  <2>. HIDE DEF c
  <2>4. /\ HostText(c) <=> Host \in c.to /\ c.frame.kind = "text"
        /\ HostJoin(c) <=> Host \in c.to /\ c.frame.kind = "joined"
    BY <2>1 DEF HostText, HostJoin
  <2>. QED BY <1>3, <2>2, <2>3, <2>4 DEF c
<1>4. CASE AtOp(t, "deliverAll") /\ ShowTo(Online, c.frame)
  <2>1. c.op = "deliverAll"
    BY <1>4 DEF AtOp, Cur
  <2>2. c.frame \in [kind : {"rooms"}, room : {0}, val : CountVals]
    BY <1>2, <2>1 DEF StepType
  <2>3. c.frame \in FrameType /\ c.frame.kind = "rooms" /\ Online \in SUBSET Viewers
    BY <2>2 DEF FrameType, Online
  <2>. HIDE DEF c
  <2>4. ~HostText(c) /\ ~HostJoin(c)
    BY <2>1 DEF HostText, HostJoin
  <2>. QED BY <1>4, <2>3, <2>4 DEF c
<1>. QED BY <1>3, <1>4 DEF DeliverStep

\* The screens when a frame is taken.
LEMMA ViewsDeliver ==
    ASSUME FeedInv, ViewsInv, NEW t \in Threads, DeliverStep(t)
    PROVE  ViewsInv'
<1>1. PICK to \in SUBSET Viewers, f \in FrameType :
           ShowTo(to, f) /\ (f.kind = "text" => f.val \in Seq(LinesOf(f.room)))
  BY DeliverFacts
<1>2. view' = [v \in Viewers |-> IF v \in to THEN Receive(v, view[v], f) ELSE view[v]]
  BY <1>1 DEF ShowTo
<1>3. view \in [Viewers -> ViewType] /\ view[Host].room # Gone
  BY DEF ViewsInv
<1>4. \A v \in Viewers : Receive(v, view[v], f) \in ViewType
  BY <1>1, <1>3, ReceiveOK
<1>5. view' \in [Viewers -> ViewType]
  BY <1>2, <1>3, <1>4
<1>6. view'[Host].room # Gone
  BY <1>1, <1>2, <1>3, ReceiveOK, FeedFacts
<1>7. ASSUME NEW c \in Clients PROVE view'[c].lines \in Seq(ShownLines(view'[c].room))
  <2>1. c \in Viewers /\ c # Host /\ view[c] \in ViewType
    BY <1>3, FeedFacts
  <2>2. view[c].lines \in Seq(ShownLines(view[c].room))
    BY DEF ViewsInv
  <2>3. Receive(c, view[c], f).lines \in Seq(ShownLines(Receive(c, view[c], f).room))
    BY <1>1, <2>1, <2>2, ReceiveOK
  <2>4. view'[c] = IF c \in to THEN Receive(c, view[c], f) ELSE view[c]
    BY <1>2, <2>1
  <2>. QED BY <2>2, <2>3, <2>4
<1>. QED BY <1>5, <1>6, <1>7 DEF ViewsInv

\* The host's screen when a frame is taken.
LEMMA HostDeliver ==
    ASSUME FeedInv, ViewsInv, HostInv, NEW t \in Threads, DeliverStep(t)
    PROVE  HostInv'
<1>1. PICK to \in SUBSET Viewers, f \in FrameType :
              /\ ShowTo(to, f) /\ (f.kind = "text" => f.val \in Seq(LinesOf(f.room)))
              /\ HostText(Cur(t)) <=> Host \in to /\ f.kind = "text"
              /\ HostJoin(Cur(t)) <=> Host \in to /\ f.kind = "joined"
              /\ HostText(Cur(t)) \/ HostJoin(Cur(t)) => Cur(t).frame = f
  BY DeliverFacts
<1>2. todo[t] # <<>> /\ Continue(t, <<>>) /\ UNCHANGED at
  BY DEF DeliverStep, AtOp, memory
<1>3. <<>> \in Seq({}) /\ \A i \in 1 .. Len(<<>>) : FALSE
  OBVIOUS
<1>4. /\ Host \in Viewers /\ view[Host] \in ViewType /\ view[Host].room # Gone
      /\ view[Host].lines \in Seq(ShownLines(view[Host].room))
  BY FeedFacts DEF ViewsInv, HostInv
<1>5. view'[Host] = IF Host \in to THEN Receive(Host, view[Host], f) ELSE view[Host]
  BY <1>1, <1>4 DEF ShowTo
<1>6. HostText(Cur(t)) \/ HostJoin(Cur(t)) => f.room = at[Host]
  <2>1. ShowsOnly(Cur(t), at[Host])
    <3>1. todo[t] \in Seq(GoodSteps(rooms))
      BY DEF FeedInv, QueuesInv
    <3>2. 1 \in 1 .. Len(todo[t]) /\ Cur(t) = todo[t][1]
      BY <1>2, <3>1, QueueParts DEF Cur
    <3>. QED BY <3>2 DEF HostInv, HostQueues, QueueShowsOnly
  <2>. QED BY <1>1, <2>1 DEF ShowsOnly
<1>7. CASE HostJoin(Cur(t))
  <2>1. Host \in to /\ f.kind = "joined" /\ f.room = at[Host]
    BY <1>1, <1>6, <1>7
  <2>2. view'[Host].room = f.room /\ view'[Host].lines \in Seq(ShownLines(view'[Host].room))
    <3>1. /\ Receive(Host, view[Host], f).room = f.room
          /\ Receive(Host, view[Host], f).lines
               \in Seq(ShownLines(Receive(Host, view[Host], f).room))
      BY <1>1, <1>4, <2>1, ReceiveOK
    <3>. QED BY <1>5, <2>1, <3>1
  <2>3. HostCatchesUp'
    BY <1>2, <2>1, <2>2 DEF HostCatchesUp, HostBehind
  <2>4. OneBusy' /\ HostQueues'
    BY <1>2, <1>3, HostContinue
  <2>. QED BY <2>2, <2>3, <2>4 DEF HostInv
<1>8. CASE ~HostJoin(Cur(t))
  <2>1. Host \in to => f.kind # "joined"
    BY <1>1, <1>8
  <2>2. ASSUME Host \in to, f.kind = "text" PROVE f.room = view[Host].room
    <3>1. HostText(Cur(t)) /\ f.room = at[Host]
      BY <1>1, <1>6, <2>2
    <3>2. at[Host] # 0
      BY <2>2, <3>1, FrameFields, FeedFacts
    <3>3. ~HostBehind
      <4>1. ASSUME HostBehind PROVE FALSE
        <5>1. Harmless(Cur(t), at[Host])
          BY <1>2, <1>3, <1>8, <4>1, HostStillBehind
        <5>. QED BY <3>1, <5>1 DEF Harmless
      <4>. QED BY <4>1
    <3>. QED BY <3>1, <3>2, <3>3 DEF HostBehind
  <2>3. /\ view'[Host].room = view[Host].room
        /\ view'[Host].lines \in Seq(ShownLines(view'[Host].room))
    <3>1. CASE Host \in to
      <4>1. Receive(Host, view[Host], f).room = view[Host].room
        BY <1>1, <1>4, <2>1, <3>1, ReceiveOK
      <4>2. f.kind = "text" => f.room = view[Host].room
        BY <2>2, <3>1
      <4>3. Receive(Host, view[Host], f).lines
              \in Seq(ShownLines(Receive(Host, view[Host], f).room))
        BY <1>1, <1>4, <4>2, ReceiveOK
      <4>. QED BY <1>5, <3>1, <4>1, <4>3
    <3>2. CASE Host \notin to
      BY <1>4, <1>5, <3>2
    <3>. QED BY <3>1, <3>2
  <2>4. \A i \in 1 .. Len(<<>>) : Plain(<<>>[i])
    BY <1>3
  <2>. QED BY <1>2, <1>3, <1>8, <2>3, <2>4, HostPlain
<1>. QED BY <1>7, <1>8

\* The steps of a move, of which only those that enter the room are for the
\* user who moves.
LEMMA MoveShows ==
    ASSUME NEW c
    PROVE  /\ \A i \in 1 .. Len(MoveSteps(c)) : MoveSteps(c)[i].op # "move"
           /\ \A h : (c.who = Host => h = c.room)
                 => \A i \in 1 .. Len(MoveSteps(c)) : ShowsOnly(MoveSteps(c)[i], h)
           /\ c.who = Host /\ (at[c.who] # c.room \/ at[c.who] = 0)
                 => JoinFirst(MoveSteps(c), c.room)
<1>. DEFINE v == c.who
            r == c.room
            old == at[v]
            told == Told(c, old)
            s == MoveSteps(c)
            joined == Deliver({v}, RoomJoined(r, rooms[r].topic))
            text == Deliver({v}, RoomText(r, rooms[r].recent))
            E == {Post(old), Users(old), joined, text, Post(r), Users(r), Lists}
            enter == Enter(v, r)
            rest == <<Users(r), Lists>>
<1>1. enter = <<joined, text, Post(r)>>
  BY DEF Enter
<1>2. enter \in Seq(E) /\ Len(enter) = 3 /\ enter[1] = joined /\ rest \in Seq(E)
  BY <1>1, Short
<1>3. /\ told \in Seq(E) /\ Len(told) \in Nat
      /\ \A i \in 1 .. Len(told) : told[i] \in {Post(old), Users(old)} /\ told # <<>>
  <2>. HIDE DEF told
  <2>0. told = <<>> \/ told = <<Post(old), Users(old)>>
    BY DEF told, Told
  <2>1. CASE told = <<>>
    BY <2>1
  <2>2. CASE told = <<Post(old), Users(old)>>
    <3>1. told \in Seq({Post(old), Users(old)}) /\ told \in Seq(E)
      BY <2>2, Short
    <3>. QED BY <2>2, <3>1
  <2>. QED BY <2>0, <2>1, <2>2
<1>4. /\ Post(old).op = "post" /\ Post(old).room = old /\ Users(old).op = "users"
      /\ Post(r).op = "post" /\ Users(r).op = "users" /\ Lists.op = "lists"
      /\ joined.op = "deliver" /\ joined.to = {v} /\ joined.frame.room = r
      /\ joined.frame.kind = "joined"
      /\ text.op = "deliver" /\ text.to = {v} /\ text.frame.room = r
  BY DEF Post, Users, Lists, Deliver, RoomJoined, RoomText
<1>5. \A x \in E : x.op # "move"
  BY <1>4
<1>6. ASSUME NEW h, v = Host => h = r, NEW x \in E PROVE ShowsOnly(x, h)
  <2>1. CASE x \in {joined, text}
    BY <1>4, <1>6, <2>1 DEF ShowsOnly, HostText, HostJoin
  <2>2. CASE x \notin {joined, text}
    BY <1>4, <2>2 DEF ShowsOnly, HostText, HostJoin
  <2>. QED BY <2>1, <2>2
<1>. HIDE DEF enter, rest, E, joined, text
<1>7. /\ told \o enter \in Seq(E) /\ Len(told \o enter) = Len(told) + 3
      /\ \A i \in 1 .. Len(told) : (told \o enter)[i] = told[i]
      /\ \A i \in 1 .. 3 : (told \o enter)[Len(told) + i] = enter[i]
  <2>1. /\ told \o enter \in Seq(E) /\ Len(told \o enter) = Len(told) + Len(enter)
        /\ \A i \in 1 .. Len(told) : (told \o enter)[i] = told[i]
        /\ \A i \in 1 .. Len(enter) : (told \o enter)[Len(told) + i] = enter[i]
    <3>1. told \in Seq(E) /\ enter \in Seq(E)
      BY <1>2, <1>3
    <3>. QED BY <3>1, Joined
  <2>. QED BY <1>2, <2>1
<1>8. s = (told \o enter) \o rest
  BY DEF enter, rest, MoveSteps
<1>0. told # <<>> => old # 0
  BY DEF Told
<1>. HIDE DEF s, told
<1>9. /\ s \in Seq(E) /\ Len(rest) \in Nat /\ Len(s) = Len(told) + 3 + Len(rest)
      /\ \A i \in 1 .. Len(told) + 3 : s[i] = (told \o enter)[i]
  <2>. DEFINE a == told \o enter
  <2>1. a \in Seq(E) /\ rest \in Seq(E) /\ Len(a) = Len(told) + 3
    BY <1>2, <1>7
  <2>. HIDE DEF a
  <2>2. /\ a \o rest \in Seq(E) /\ Len(a \o rest) = Len(a) + Len(rest) /\ Len(rest) \in Nat
        /\ \A i \in 1 .. Len(a) : (a \o rest)[i] = a[i]
    BY <2>1, Joined
  <2>3. s = a \o rest
    BY <1>8 DEF a
  <2>. QED BY <2>1, <2>2, <2>3 DEF a
<1>10. \A i \in 1 .. Len(s) : s[i] \in E
  BY <1>9
<1>11. ASSUME v = Host, old # r \/ old = 0 PROVE JoinFirst(s, r)
  <2>. DEFINE j == Len(told) + 1
  <2>1. j \in 1 .. Len(s) /\ j \in 1 .. Len(told) + 3 /\ 1 \in 1 .. 3
    BY <1>3, <1>9
  <2>2. s[j] = joined
    BY <1>2, <1>7, <1>9, <2>1
  <2>3. HostJoin(s[j])
    BY <1>4, <1>11, <2>2 DEF HostJoin
  <2>4. ASSUME NEW i \in 1 .. j - 1 PROVE Harmless(s[i], r)
    <3>1. i \in 1 .. Len(told) /\ i \in 1 .. Len(told) + 3
      BY <1>3
    <3>2. s[i] \in {Post(old), Users(old)} /\ old # r
      BY <1>0, <1>3, <1>7, <1>9, <1>11, <3>1
    <3>. QED BY <1>4, <3>2 DEF Harmless, HostText
  <2>. HIDE DEF j
  <2>. QED BY <2>1, <2>3, <2>4 DEF JoinFirst
<1>12. \A i \in 1 .. Len(s) : s[i].op # "move"
  BY <1>5, <1>10
<1>13. \A h : (v = Host => h = r) => \A i \in 1 .. Len(s) : ShowsOnly(s[i], h)
  BY <1>6, <1>10
<1>. QED BY <1>11, <1>12, <1>13 DEF s

\* A move: the host that moves is told first of its room.
LEMMA HostMove ==
    ASSUME FeedInv, HostInv, NEW t \in Threads, MoveStep(t)
    PROVE  HostInv'
<1>. DEFINE c == Cur(t)
            old == at[c.who]
            s == MoveSteps(c)
<1>1. todo[t] # <<>> /\ c.op = "move"
  BY DEF MoveStep, AtOp, Cur
<1>2. c \in StepType /\ StepOK(rooms, c)
  BY <1>1, CurGood
<1>3. /\ c.who \in Viewers /\ c.room \in RoomIds /\ s \in Seq(GoodSteps(rooms))
  BY <1>1, <1>2, MoveGood
<1>4. /\ at' = [at EXCEPT ![c.who] = c.room] /\ Continue(t, s) /\ UNCHANGED view
  BY DEF MoveStep, MoveSteps, Told
<1>5. at'[Host] = IF c.who = Host THEN c.room ELSE at[Host]
  BY <1>4, FeedFacts DEF FeedInv, PlacesInv
<1>6. /\ todo[t] \in Seq(GoodSteps(rooms)) /\ todo \in [Threads -> Seq(GoodSteps(rooms))]
      /\ Len(todo[t]) \in Nat /\ Len(todo[t]) >= 1 /\ c = todo[t][1]
      /\ Tail(todo[t]) \in Seq(GoodSteps(rooms)) /\ Len(Tail(todo[t])) = Len(todo[t]) - 1
  BY <1>1, QueueParts DEF FeedInv, QueuesInv, Cur
<1>7. Len(todo[t]) = 1
  <2>1. 1 \in 1 .. Len(todo[t])
    BY <1>6
  <2>. QED BY <1>1, <1>6, <2>1 DEF HostInv, HostQueues, QueueShowsOnly
<1>8. todo'[t] = s
  <2>1. Len(Tail(todo[t])) = 0
    BY <1>6, <1>7
  <2>2. todo'[t] = s \o Tail(todo[t])
    BY <1>4, <1>6 DEF Continue
  <2>3. s \o Tail(todo[t]) = s
    <3>. HIDE DEF s
    <3>. QED BY <1>3, <1>6, <2>1, NothingJoined
  <2>. QED BY <2>2, <2>3
<1>9. \A u \in Threads : u # t => todo'[u] = <<>> /\ todo[u] = <<>>
  <2>1. \A u \in Threads : u # t => todo'[u] = todo[u]
    BY <1>4, <1>6 DEF Continue
  <2>2. \A u \in Threads : u # t => todo[u] = <<>>
    BY <1>1 DEF HostInv, OneBusy, Idle
  <2>. QED BY <2>1, <2>2
<1>10. ~HostBehind
  <2>1. SUFFICES ASSUME HostBehind PROVE FALSE
    OBVIOUS
  <2>2. PICK u \in Threads : JoinFirst(todo[u], at[Host])
    BY <2>1 DEF HostInv, HostCatchesUp
  <2>3. PICK j \in 1 .. Len(todo[u]) : HostJoin(todo[u][j])
    BY <2>2 DEF JoinFirst
  <2>4. CASE u = t
    <3>1. j = 1
      BY <1>7, <2>3, <2>4
    <3>. QED BY <1>1, <1>6, <2>3, <2>4, <3>1 DEF HostJoin
  <2>5. CASE u # t
    <3>1. Len(todo[u]) = 0
      BY <1>9, <2>5
    <3>. QED BY <2>3, <3>1
  <2>. QED BY <2>4, <2>5
<1>13. /\ \A i \in 1 .. Len(s) : s[i].op # "move"
       /\ \A h : (c.who = Host => h = c.room) => \A i \in 1 .. Len(s) : ShowsOnly(s[i], h)
       /\ c.who = Host /\ (old # c.room \/ old = 0) => JoinFirst(s, c.room)
  <2>. HIDE DEF c
  <2>. QED BY MoveShows
<1>. HIDE DEF c, s
<1>14. OneBusy'
  BY <1>9 DEF OneBusy, Idle
<1>15. HostQueues'
  <2>1. ASSUME NEW u \in Threads PROVE QueueShowsOnly(todo'[u], at'[Host])
    <3>1. CASE u = t
      BY <1>5, <1>8, <1>13, <3>1 DEF QueueShowsOnly
    <3>2. CASE u # t
      <4>1. Len(todo'[u]) = 0
        BY <1>9, <3>2
      <4>. QED BY <4>1 DEF QueueShowsOnly
    <3>. QED BY <3>1, <3>2
  <2>. QED BY <2>1 DEF HostQueues
<1>16. HostCatchesUp'
  <2>1. SUFFICES ASSUME HostBehind' PROVE \E u \in Threads : JoinFirst(todo'[u], at'[Host])
    BY DEF HostCatchesUp
  <2>2. c.who = Host
    BY <1>4, <1>5, <1>10, <2>1 DEF HostBehind
  <2>3. old # c.room \/ old = 0
    BY <1>4, <1>5, <1>10, <2>1, <2>2 DEF HostBehind
  <2>. QED BY <1>5, <1>8, <1>13, <2>2, <2>3
<1>. QED BY <1>4, <1>14, <1>15, <1>16 DEF HostInv

-----------------------------------------------------------------------------
(***************************************************************************)
(* The screens when an operation begins.                                   *)
(***************************************************************************)

\* The steps of an operation that begins tell nobody of messages or of a room
\* yet, and move a user at the end.
Opens(s) ==
    \A i \in 1 .. Len(s) :
        /\ s[i].op = "deliver" => s[i].frame.kind \notin {"text", "joined"}
        /\ s[i].op = "move" => i = Len(s)

\* An operation that begins when the other thread is busy is an overlap; when
\* it is not, the host's screen shows the host's room.
LEMMA HostBegin ==
    ASSUME FeedInv, ScreensInv, NEW t \in Threads, NEW S, NEW s \in Seq(S), Opens(s),
           Idle(t), CountOverlap, todo' = [todo EXCEPT ![t] = s],
           at'[Host] = at[Host], view'[Host] = view[Host]
    PROVE  overlaps' \in Nat /\ (~Raced' => HostInv')
<1>1. CASE ~(\A u \in Threads : Idle(u))
  <2>1. overlaps \in Nat /\ overlaps' = overlaps + 1
    BY <1>1 DEF CountOverlap, ScreensInv
  <2>. QED BY <2>1 DEF Raced
<1>2. CASE \A u \in Threads : Idle(u)
  <2>1. overlaps' = overlaps /\ overlaps \in Nat /\ \A u \in Threads : todo[u] = <<>>
    BY <1>2 DEF CountOverlap, ScreensInv, Idle
  <2>2. SUFFICES ASSUME ~Raced' PROVE HostInv'
    BY <2>1
  <2>3. HostInv
    BY <2>1, <2>2 DEF Raced, ScreensInv
  <2>4. todo'[t] = s /\ \A u \in Threads : u # t => todo'[u] = <<>>
    BY <2>1 DEF FeedInv, QueuesInv
  <2>5. OneBusy'
    BY <2>4 DEF OneBusy, Idle
  <2>6. HostQueues'
    <3>1. QueueShowsOnly(s, at[Host])
      BY DEF Opens, QueueShowsOnly, ShowsOnly, HostText, HostJoin
    <3>2. QueueShowsOnly(<<>>, at[Host])
      <4>1. Len(<<>>) = 0
        OBVIOUS
      <4>. QED BY <4>1 DEF QueueShowsOnly
    <3>3. \A u \in Threads : QueueShowsOnly(todo'[u], at[Host])
      BY <2>4, <3>1, <3>2
    <3>. QED BY <3>3 DEF HostQueues
  <2>7. ~HostBehind
    <3>1. \A u \in Threads : ~JoinFirst(todo[u], at[Host])
      <4>1. Len(<<>>) = 0
        OBVIOUS
      <4>. QED BY <2>1, <4>1 DEF JoinFirst
    <3>. QED BY <2>3, <3>1 DEF HostInv, HostCatchesUp
  <2>8. HostCatchesUp'
    BY <2>7 DEF HostCatchesUp, HostBehind
  <2>9. view'[Host].lines \in Seq(ShownLines(view'[Host].room))
    BY <2>3 DEF HostInv
  <2>. QED BY <2>5, <2>6, <2>8, <2>9 DEF HostInv
<1>. QED BY <1>1, <1>2

\* An operation that leaves the screens alone.
LEMMA ScreensBegin ==
    ASSUME FeedInv, ScreensInv, NEW t \in Threads, NEW S, NEW s \in Seq(S), Opens(s),
           Begin(t, s), at'[Host] = at[Host]
    PROVE  ScreensInv'
<1>1. /\ Idle(t) /\ CountOverlap /\ todo' = [todo EXCEPT ![t] = s] /\ view' = view
  BY DEF Begin
<1>2. overlaps' \in Nat /\ (~Raced' => HostInv')
  BY <1>1, HostBegin
<1>3. ViewsInv'
  BY <1>1 DEF ScreensInv, ViewsInv
<1>. QED BY <1>2, <1>3 DEF ScreensInv

\* Operations of one step, of two and of three.
LEMMA ShortOpens ==
    /\ \A x : (x.op = "deliver" => x.frame.kind \notin {"text", "joined"}) => Opens(<<x>>)
    /\ \A x, y : x.op \notin {"deliver", "move"} /\ y.op # "deliver" => Opens(<<x, y>>)
    /\ \A x, y, z : /\ x.op \notin {"deliver", "move"} /\ z.op \notin {"deliver", "move"}
                    /\ y.op # "move"
                    /\ y.op = "deliver" => y.frame.kind \notin {"text", "joined"}
                    => Opens(<<x, y, z>>)
<1>1. ASSUME NEW x, x.op = "deliver" => x.frame.kind \notin {"text", "joined"}
      PROVE  Opens(<<x>>)
  <2>1. Len(<<x>>) = 1 /\ \A i \in 1 .. 1 : i = 1 /\ <<x>>[i] = x
    OBVIOUS
  <2>. QED BY <1>1, <2>1 DEF Opens
<1>2. ASSUME NEW x, NEW y, x.op \notin {"deliver", "move"}, y.op # "deliver"
      PROVE  Opens(<<x, y>>)
  <2>1. Len(<<x, y>>) = 2 /\ \A i \in 1 .. 2 : <<x, y>>[i] = x \/ (i = 2 /\ <<x, y>>[i] = y)
    OBVIOUS
  <2>. QED BY <1>2, <2>1 DEF Opens
<1>3. ASSUME NEW x, NEW y, NEW z, x.op \notin {"deliver", "move"},
             z.op \notin {"deliver", "move"}, y.op # "move",
             y.op = "deliver" => y.frame.kind \notin {"text", "joined"}
      PROVE  Opens(<<x, y, z>>)
  <2>1. /\ Len(<<x, y, z>>) = 3
        /\ \A i \in 1 .. 3 : <<x, y, z>>[i] = x \/ <<x, y, z>>[i] = y \/ <<x, y, z>>[i] = z
    OBVIOUS
  <2>. QED BY <1>3, <2>1 DEF Opens
<1>. QED BY <1>1, <1>2, <1>3

\* An operation of one step, which changes no room.
LEMMA ScreensOne ==
    ASSUME FeedInv, ScreensInv, NEW t \in Threads, NEW x, BeginOnly(t, <<x>>),
           x.op = "deliver" => x.frame.kind \notin {"text", "joined"}
    PROVE  ScreensInv'
<1>1. <<x>> \in Seq({x}) /\ Opens(<<x>>)
  BY Short, ShortOpens
<1>2. Begin(t, <<x>>) /\ at' = at
  BY DEF BeginOnly, memory
<1>. QED BY <1>1, <1>2, ScreensBegin

\* A room is created.
LEMMA ScreensCreate ==
    ASSUME FeedInv, ScreensInv, NEW t \in Threads, NEW nm, NEW owner, Create(t, nm, owner)
    PROVE  ScreensInv'
<1>. DEFINE r == NextRoomId
            x == Persist(r)
            y == IF owner = Absent THEN Lists ELSE Move(owner, r, TRUE)
<1>1. Begin(t, PersistFirst(r, IF owner = Absent THEN <<Lists>> ELSE <<Move(owner, r, TRUE)>>))
      /\ at' = at
  BY DEF Create
<1>2. x.op = "persist" /\ y.op \in {"lists", "move"}
  BY DEF Persist, Lists, Move
<1>3. PersistFirst(r, IF owner = Absent THEN <<Lists>> ELSE <<Move(owner, r, TRUE)>>) = <<x, y>>
  <2>1. (IF owner = Absent THEN <<Lists>> ELSE <<Move(owner, r, TRUE)>>) = <<y>>
    OBVIOUS
  <2>. QED BY <2>1, PairJoined DEF PersistFirst
<1>. HIDE DEF x, y
<1>4. <<x, y>> \in Seq({x, y}) /\ Opens(<<x, y>>)
  BY <1>2, Short, ShortOpens
<1>5. Begin(t, <<x, y>>) /\ at' = at
  BY <1>1, <1>3
<1>. QED BY <1>4, <1>5, ScreensBegin

\* A topic is set.
LEMMA ScreensTopic ==
    ASSUME FeedInv, ScreensInv, NEW t \in Threads, NEW r, NEW topic, SetTopic(t, r, topic)
    PROVE  ScreensInv'
<1>. DEFINE x == Store(TopicWrite(r, topic))
            y == Deliver(Members(r), RoomTopic(r, topic))
            z == Post(r)
<1>1. Begin(t, <<x, y, z>>) /\ at' = at
  BY DEF SetTopic
<1>2. x.op = "store" /\ z.op = "post" /\ y.op = "deliver" /\ y.frame.kind = "topic"
  BY DEF Store, Deliver, RoomTopic, Post
<1>. HIDE DEF x, y, z
<1>3. <<x, y, z>> \in Seq({x, y, z}) /\ Opens(<<x, y, z>>)
  BY <1>2, Short, ShortOpens
<1>. QED BY <1>1, <1>3, ScreensBegin

\* A user goes to another room, or writes to somebody.
LEMMA ScreensJoin ==
    ASSUME FeedInv, ScreensInv, NEW t \in Threads, NEW v, NEW w,
           JoinRoom(t, v, w) \/ SendPrivate(t, v, w)
    PROVE  ScreensInv'
<1>1. CASE JoinRoom(t, v, w)
  <2>1. Move(v, w, TRUE).op = "move"
    BY DEF Move
  <2>. QED BY <1>1, <2>1, ScreensOne DEF JoinRoom
<1>2. CASE SendPrivate(t, v, w)
  <2>1. Deliver({v, w}, Whisper).frame.kind = "private"
    BY DEF Deliver, Whisper
  <2>. QED BY <1>2, <2>1, ScreensOne DEF SendPrivate
<1>. QED BY <1>1, <1>2

\* The session of a client ends.
LEMMA ScreensLeave ==
    ASSUME FeedInv, ScreensInv, NEW t \in Threads, NEW c \in Clients, NEW s, Leaves(t, c, s)
    PROVE  ScreensInv'
<1>1. /\ at[c] # 0 /\ Idle(t) /\ CountOverlap /\ todo' = [todo EXCEPT ![t] = s]
      /\ at' = [at EXCEPT ![c] = 0] /\ view' = [view EXCEPT ![c] = Blank(Gone)]
      /\ s \in {LeftSteps(at[c]), KickedSteps(at[c])}
  BY DEF Leaves, Depart
<1>2. c \in Viewers /\ c # Host /\ at[c] \in RoomIds /\ rooms[at[c]] # Absent
  BY <1>1, FeedFacts DEF FeedInv, PlacesInv
<1>3. s \in Seq(GoodSteps(rooms)) /\ Opens(s)
  BY <1>1, <1>2, LeaveSteps DEF Opens
<1>4. at'[Host] = at[Host] /\ view'[Host] = view[Host]
  BY <1>1, <1>2, FeedFacts DEF FeedInv, PlacesInv, ScreensInv, ViewsInv
<1>5. overlaps' \in Nat /\ (~Raced' => HostInv')
  BY <1>1, <1>3, <1>4, HostBegin
<1>6. Gone \in 0 .. Gone
  BY FeedFacts DEF Gone
<1>7. Blank(Gone) \in ViewType /\ Blank(Gone).lines \in Seq(ShownLines(Blank(Gone).room))
  BY <1>6, BlankScreen, Short
<1>8. ViewsInv'
  <2>1. view' \in [Viewers -> ViewType] /\ view'[Host].room # Gone
    BY <1>1, <1>2, <1>4, <1>7 DEF ScreensInv, ViewsInv
  <2>2. \A d \in Clients : view'[d].lines \in Seq(ShownLines(view'[d].room))
    BY <1>1, <1>7, FeedFacts DEF ScreensInv, ViewsInv
  <2>. QED BY <2>1, <2>2 DEF ViewsInv
<1>. QED BY <1>5, <1>8 DEF ScreensInv

\* The frames of a client.
LEMMA ScreensFrame ==
    ASSUME FeedInv, ScreensInv, NEW c \in Clients, Frame(c)
    PROVE  ScreensInv'
<1>1. c \in Viewers /\ c # Host /\ "io" \in Threads
  BY FeedFacts DEF Threads
<1>2. CASE Admit(c)
  <2>1. Move(c, DefaultRoom, FALSE).op = "move"
    BY DEF Move
  <2>. QED BY <1>1, <1>2, <2>1, ScreensOne DEF Admit
<1>3. CASE HandleChat(c)
  <2>1. Post(at[c]).op = "post"
    BY DEF Post
  <2>. QED BY <1>1, <1>3, <2>1, ScreensOne DEF HandleChat
<1>4. CASE HandleQuestion(c)
  <2>1. /\ Deliver({c}, RoomTopic(at[c], rooms[at[c]].topic)).frame.kind = "topic"
        /\ Deliver({c}, RoomList(Counts)).frame.kind = "rooms"
    BY DEF Deliver, RoomTopic, RoomList
  <2>. QED BY <1>1, <1>4, <2>1, ScreensOne DEF HandleQuestion
<1>5. CASE HandleDisconnect(c)
  BY <1>1, <1>5, AllLeave, ScreensLeave
<1>6. ASSUME NEW nm \in Names, HandleCreate(c, nm) PROVE ScreensInv'
  BY <1>1, <1>6, ScreensCreate DEF HandleCreate
<1>7. ASSUME NEW topic \in Topics, HandleTopic(c, topic) PROVE ScreensInv'
  BY <1>1, <1>7, ScreensTopic DEF HandleTopic
<1>8. ASSUME NEW r \in RoomIds, JoinRoom("io", c, r) PROVE ScreensInv'
  BY <1>1, <1>8, ScreensJoin
<1>9. ASSUME NEW v \in Viewers, SendPrivate("io", c, v) PROVE ScreensInv'
  BY <1>1, <1>9, ScreensJoin
<1>10. ASSUME NEW v \in Clients, OwnerKick(c, v) PROVE ScreensInv'
  BY <1>1, <1>10, AllLeave, ScreensLeave
<1>. QED BY <1>2, <1>3, <1>4, <1>5, <1>6, <1>7, <1>8, <1>9, <1>10 DEF Frame

\* The commands of the terminal.
LEMMA ScreensCommand ==
    ASSUME FeedInv, ScreensInv, LocalCommand \/ AdminCommand
    PROVE  ScreensInv'
<1>1. "terminal" \in Threads
  BY DEF Threads
<1>2. ASSUME BeginOnly("terminal", <<Post(at[Host])>>) PROVE ScreensInv'
  <2>1. Post(at[Host]).op = "post"
    BY DEF Post
  <2>. QED BY <1>1, <1>2, <2>1, ScreensOne
<1>3. ASSUME BeginOnly("terminal", AllPosts) PROVE ScreensInv'
  <2>1. AllPosts \in Seq(GoodSteps(rooms)) /\ Opens(AllPosts)
    BY AllPostsGood DEF Opens
  <2>2. Begin("terminal", AllPosts) /\ at' = at
    BY <1>3 DEF BeginOnly, memory
  <2>. QED BY <1>1, <2>1, <2>2, ScreensBegin
<1>4. ASSUME NEW nm, NEW owner, Create("terminal", nm, owner) PROVE ScreensInv'
  BY <1>1, <1>4, ScreensCreate
<1>5. ASSUME NEW r, NEW topic, SetTopic("terminal", r, topic) PROVE ScreensInv'
  BY <1>1, <1>5, ScreensTopic
<1>6. ASSUME NEW w, JoinRoom("terminal", Host, w) \/ SendPrivate("terminal", Host, w)
      PROVE  ScreensInv'
  BY <1>1, <1>6, ScreensJoin
<1>7. ASSUME NEW c \in Clients, Kick("terminal", c) PROVE ScreensInv'
  BY <1>1, <1>7, AllLeave, ScreensLeave
<1>. QED BY <1>2, <1>3, <1>4, <1>5, <1>6, <1>7 DEF LocalCommand, AdminCommand

\* At the start nobody has lines, and the host is shown the lobby.
LEMMA ScreensStart ==
    ASSUME NEW rs, rs[DefaultRoom].topic \in TopicVals, NEW hosted \in BOOLEAN
    PROVE  /\ StartView(rs, hosted) \in [Viewers -> ViewType]
           /\ StartView(rs, hosted)[Host].room # Gone
           /\ StartView(rs, hosted)[Host].room = StartAt(hosted)[Host]
           /\ \A v \in Viewers : StartView(rs, hosted)[v].lines = <<>>
<1>. DEFINE D == {i \in RoomIds : rs[i] # Absent}
            counts == [r \in D |-> IF r = DefaultRoom THEN 1 ELSE 0]
            lobby == [Blank(DefaultRoom) EXCEPT !.topic = rs[DefaultRoom].topic,
                                                !.users = {Host}, !.rooms = counts]
<1>1. counts \in CountVals
  <2>1. D \in SUBSET RoomIds /\ counts \in [D -> Nat \cup {Cardinality(S) : S \in SUBSET Viewers}]
    OBVIOUS
  <2>. QED BY <2>1 DEF CountVals
<1>2. /\ 0 \in 0 .. Gone /\ DefaultRoom \in 0 .. Gone /\ DefaultRoom # Gone /\ 0 # Gone
      /\ Host \in Viewers
  BY FeedFacts DEF Gone, DefaultRoom
<1>3. \A v \in Viewers : StartView(rs, hosted)[v] = IF v = Host /\ hosted THEN lobby ELSE Blank(0)
  BY DEF StartView
<1>4. DOMAIN StartView(rs, hosted) = Viewers
      /\ StartView(rs, hosted) = [v \in Viewers |-> StartView(rs, hosted)[v]]
  BY DEF StartView
<1>. HIDE DEF counts
<1>5. lobby \in ViewType /\ lobby.room = DefaultRoom /\ lobby.lines = <<>>
  <2>1. {Host} \in SUBSET Viewers /\ rs[DefaultRoom].topic \in TopicVals
    BY <1>2
  <2>2. \A p \in TopicVals, u \in SUBSET Viewers, n \in CountVals :
            /\ [Blank(DefaultRoom) EXCEPT !.topic = p, !.users = u, !.rooms = n] \in ViewType
            /\ [Blank(DefaultRoom) EXCEPT !.topic = p, !.users = u, !.rooms = n].room = DefaultRoom
            /\ [Blank(DefaultRoom) EXCEPT !.topic = p, !.users = u, !.rooms = n].lines = <<>>
    BY <1>2, BlankScreen
  <2>3. lobby = [Blank(DefaultRoom) EXCEPT !.topic = rs[DefaultRoom].topic,
                                           !.users = {Host}, !.rooms = counts]
    OBVIOUS
  <2>. HIDE DEF lobby
  <2>. QED BY <1>1, <2>1, <2>2, <2>3
<1>6. Blank(0) \in ViewType /\ Blank(0).room = 0 /\ Blank(0).lines = <<>>
  BY <1>2, BlankScreen
<1>. HIDE DEF lobby
<1>7. StartAt(hosted)[Host] = IF hosted THEN DefaultRoom ELSE 0
  BY <1>2 DEF StartAt
<1>. QED BY <1>2, <1>3, <1>4, <1>5, <1>6, <1>7

\* The first start.
LEMMA ScreensInit == Init => ScreensInv
<1>. SUFFICES ASSUME Init PROVE ScreensInv
  OBVIOUS
<1>1. PICK hosted \in BOOLEAN : at = StartAt(hosted) /\ view = StartView(rooms, hosted)
  BY DEF Init
<1>2. FeedInv
  BY FeedInit
<1>3. rooms[DefaultRoom].topic \in TopicVals
  BY <1>2, RoomFields, FeedFacts DEF FeedInv, RoomsInv
<1>4. /\ view \in [Viewers -> ViewType] /\ view[Host].room # Gone
      /\ view[Host].room = at[Host] /\ \A v \in Viewers : view[v].lines = <<>>
  BY <1>1, <1>3, ScreensStart
<1>5. \A t \in Threads : todo[t] = <<>> /\ Len(todo[t]) = 0
  BY DEF Init
<1>6. ViewsInv
  BY <1>4, Short, FeedFacts DEF ViewsInv
<1>7. OneBusy /\ HostQueues
  BY <1>5 DEF OneBusy, Idle, HostQueues, QueueShowsOnly
<1>8. HostCatchesUp
  BY <1>4 DEF HostCatchesUp, HostBehind
<1>9. view[Host].lines \in Seq(ShownLines(view[Host].room))
  BY <1>4, Short, FeedFacts
<1>. QED BY <1>6, <1>7, <1>8, <1>9 DEF ScreensInv, HostInv, Init

\* A restart.
LEMMA ScreensRestart ==
    ASSUME FeedInv, Restart
    PROVE  ScreensInv'
<1>1. Hosting \in BOOLEAN /\ at' = StartAt(Hosting) /\ view' = StartView(rooms', Hosting)
  BY DEF Restart, Hosting
<1>2. RoomsInv' /\ DefaultRoom \in RoomIds
  BY FeedRestart, FeedFacts DEF FeedInv
<1>3. rooms'[DefaultRoom].topic \in TopicVals
  BY <1>2 DEF RoomsInv, Room, TopicVals
<1>4. /\ view' \in [Viewers -> ViewType] /\ view'[Host].room # Gone
      /\ view'[Host].room = at'[Host] /\ \A v \in Viewers : view'[v].lines = <<>>
  BY <1>1, <1>3, ScreensStart
<1>5. \A t \in Threads : todo'[t] = <<>> /\ Len(todo'[t]) = 0
  BY DEF Restart
<1>6. ViewsInv'
  BY <1>4, Short, FeedFacts DEF ViewsInv
<1>7. OneBusy' /\ HostQueues'
  BY <1>5 DEF OneBusy, Idle, HostQueues, QueueShowsOnly
<1>8. HostCatchesUp'
  BY <1>4 DEF HostCatchesUp, HostBehind
<1>9. view'[Host].lines \in Seq(ShownLines(view'[Host].room))
  BY <1>4, Short, FeedFacts
<1>. QED BY <1>6, <1>7, <1>8, <1>9 DEF ScreensInv, HostInv, Restart

\* Every step keeps the invariant of the screens.
LEMMA ScreensStep == FeedInv /\ ScreensInv /\ [Next]_vars => ScreensInv'
<1>. SUFFICES ASSUME FeedInv, ScreensInv, [Next]_vars PROVE ScreensInv'
  OBVIOUS
<1>1. ASSUME NEW t \in Threads, ThreadStep(t) PROVE ScreensInv'
  <2>1. overlaps' = overlaps
    BY <1>1 DEF ThreadStep, PostStep, UsersStep, ListsStep, DeliverStep, StoreStep, PersistStep,
                MoveStep
  <2>2. ViewsInv'
    <3>1. CASE DeliverStep(t)
      BY <3>1, ViewsDeliver DEF ScreensInv
    <3>2. CASE ~DeliverStep(t)
      <4>1. view' = view
        BY <1>1, <3>2 DEF ThreadStep, PostStep, UsersStep, ListsStep, StoreStep, PersistStep,
                          MoveStep
      <4>. QED BY <4>1 DEF ScreensInv, ViewsInv
    <3>. QED BY <3>1, <3>2
  <2>3. ASSUME HostInv PROVE HostInv'
    <3>1. ViewsInv
      BY DEF ScreensInv
    <3>. QED BY <1>1, <2>3, <3>1, HostPost, HostMove, HostDeliver, HostQuiet DEF ThreadStep
  <2>. QED BY <2>1, <2>2, <2>3 DEF ScreensInv, Raced
<1>2. ASSUME NEW c \in Clients, Frame(c) PROVE ScreensInv'
  BY <1>2, ScreensFrame
<1>3. CASE LocalCommand \/ AdminCommand
  BY <1>3, ScreensCommand
<1>4. CASE Restart
  BY <1>4, ScreensRestart
<1>5. CASE UNCHANGED vars
  BY <1>5 DEF vars, memory, ScreensInv, ViewsInv, HostInv, OneBusy, Idle, HostQueues,
              HostCatchesUp, HostBehind, Raced
<1>. QED BY <1>1, <1>2, <1>3, <1>4, <1>5 DEF Next

\* A client is never shown a message of another room than the one on its
\* screen, whatever overlaps; the host is not either while nothing overlaps.
THEOREM ScreensShowOneRoom == Spec => []RoomsAreSeparate
<1>1. FeedInv /\ ScreensInv => RoomsAreSeparate
  <2>. SUFFICES ASSUME FeedInv, ScreensInv, NEW v \in IF Raced THEN Clients ELSE Viewers,
                       NEW i \in 1 .. Len(view[v].lines)
                PROVE  view[v].lines[i].room \in {0, view[v].room}
    BY DEF RoomsAreSeparate
  <2>1. view[v].lines \in Seq(ShownLines(view[v].room))
    BY DEF ScreensInv, ViewsInv, HostInv, Viewers
  <2>2. view[v].lines[i] \in ShownLines(view[v].room)
    BY <2>1
  <2>. QED BY <2>2 DEF ShownLines
<1>. QED BY <1>1, FeedInit, FeedStep, ScreensInit, ScreensStep, PTL DEF Spec

-----------------------------------------------------------------------------
(***************************************************************************)
(* What is queued for the database brings the rooms back.                  *)
(***************************************************************************)

\* What the queued writes make of the database when none is lost.
Stored == Written(db, offered, {})

\* Steps that write, and the write that such a step is going to queue.
Writes(c)      == c.op \in {"store", "persist"}
RowOf(rs, r)   == [name |-> rs[r].name, topic |-> rs[r].topic,
                   owner |-> rs[r].owner, born |-> rs[r].born]
WriteOf(rs, c) == IF c.op = "store" THEN c.write ELSE RoomWrite(c.room, RowOf(rs, c.room))

\* A queue without writes, and one whose only write is its k-th step, with
\* nothing but a delivery before it.
Writeless(q) == \A i \in 1 .. Len(q) : ~Writes(q[i])
WritesAt(q, k) ==
    /\ k \in 1 .. Len(q) /\ Writes(q[k])
    /\ \A i \in 1 .. Len(q) : i # k => ~Writes(q[i])
    /\ k = 2 => q[1].op = "deliver"

\* A database brings the rooms rs back, once the queue has been gone through.
Settles(d, rs, q) ==
    \/ Writeless(q) /\ Loaded(d) = rs
    \/ \E k \in {1, 2} :
          /\ WritesAt(q, k) /\ ~Refuses(d, WriteOf(rs, q[k]))
          /\ Loaded(Apply(d, WriteOf(rs, q[k]))) = rs

\* One thread at most is busy, and the writes it is going to queue are all
\* that the queued ones lack.
StoredInv ==
    \E t \in Threads :
        (\A u \in Threads : u # t => todo[u] = <<>>) /\ Settles(Stored, rooms, todo[t])

RestoreInv == overlaps \in Nat /\ (~Raced => StoredInv)

\* One more write.
LEMMA WrittenAppend ==
    ASSUME NEW S, NEW d, NEW ws \in Seq(S), NEW w \in S, ~Refuses(Written(d, ws, {}), w)
    PROVE  Written(d, Append(ws, w), {}) = Apply(Written(d, ws, {}), w)
<1>. DEFINE n == Len(ws)
            xs == Append(ws, w)
            f == Writing(d, ws, {})
            g == Writing(d, xs, {})
<1>1. /\ n \in Nat /\ xs \in Seq(S) /\ Len(xs) = n + 1 /\ xs[n + 1] = w
      /\ \A i \in 1 .. n : xs[i] = ws[i]
  OBVIOUS
<1>2. IsWriting(f, d, ws, {}, n) /\ IsWriting(g, d, xs, {}, Len(xs))
  BY <1>1, WritingIs
<1>. HIDE DEF f, g, xs
<1>. DEFINE T == {i \in Nat : i <= n => f[i] = g[i]}
<1>3. 0 \in T
  <2>1. f[0] = d /\ g[0] = d
    BY <1>1, <1>2 DEF IsWriting
  <2>. QED BY <2>1
<1>4. ASSUME NEW i \in Nat, i \in T PROVE i + 1 \in T
  <2>1. CASE i + 1 <= n
    <3>1. /\ i + 1 \in 0 .. n /\ i + 1 \in 0 .. Len(xs) /\ i + 1 # 0 /\ (i + 1) - 1 = i
          /\ i <= n /\ i + 1 \in 1 .. n
      BY <1>1, <2>1
    <3>2. f[i] = g[i] /\ xs[i + 1] = ws[i + 1]
      BY <1>1, <1>4, <3>1
    <3>3. f[i + 1] = Write(f[(i + 1) - 1], ws, {}, i + 1)
      BY <1>2, <3>1 DEF IsWriting
    <3>4. g[i + 1] = Write(g[(i + 1) - 1], xs, {}, i + 1)
      BY <1>2, <3>1 DEF IsWriting
    <3>5. f[i + 1] = g[i + 1]
      BY <3>1, <3>2, <3>3, <3>4 DEF Write
    <3>. QED BY <3>5
  <2>2. CASE ~(i + 1 <= n)
    BY <2>2
  <2>. QED BY <2>1, <2>2
<1>5. Nat \subseteq T
  <2>. HIDE DEF T
  <2>. QED BY <1>3, <1>4, SetInduction
<1>6. f[n] = g[n]
  BY <1>1, <1>5
<1>7. g[n + 1] = Write(g[n], xs, {}, n + 1)
  <2>1. n + 1 \in 0 .. Len(xs) /\ n + 1 # 0 /\ (n + 1) - 1 = n
    BY <1>1
  <2>2. g[n + 1] = Write(g[(n + 1) - 1], xs, {}, n + 1)
    BY <1>2, <2>1 DEF IsWriting
  <2>. QED BY <2>1, <2>2
<1>8. Written(d, ws, {}) = f[n] /\ Written(d, xs, {}) = g[n + 1]
  BY <1>1 DEF Written, f, g
<1>9. n + 1 \notin {} /\ ~Refuses(g[n], xs[n + 1])
  BY <1>1, <1>6, <1>8
<1>. QED BY <1>1, <1>6, <1>7, <1>8, <1>9 DEF Write, xs

\* No write.
LEMMA WrittenNothing ==
    ASSUME NEW d
    PROVE  Written(d, <<>>, {}) = d
<1>. DEFINE f == Writing(d, <<>>, {})
<1>1. <<>> \in Seq({}) /\ Len(<<>>) = 0
  OBVIOUS
<1>2. IsWriting(f, d, <<>>, {}, Len(<<>>))
  BY <1>1, WritingIs
<1>. HIDE DEF f
<1>3. f[0] = d
  BY <1>1, <1>2 DEF IsWriting
<1>. QED BY <1>1, <1>3 DEF Written, f

\* A part of a sequence.
LEMMA PartOf ==
    ASSUME NEW S, NEW s \in Seq(S), NEW lo \in 1 .. Len(s), NEW hi \in 1 .. Len(s), lo <= hi
    PROVE  /\ Len(SubSeq(s, lo, hi)) = hi - lo + 1
           /\ \A i \in 1 .. hi - lo + 1 : SubSeq(s, lo, hi)[i] = s[lo + i - 1]
OBVIOUS

\* The last lines, and one more.
LEMMA KeepAppend ==
    ASSUME NEW S, NEW s \in Seq(S), NEW m \in S, NEW n \in Nat \ {0}
    PROVE  Keep(Append(Keep(s, n), m), n) = Keep(Append(s, m), n)
<1>1. CASE Len(s) <= n
  BY <1>1 DEF Keep
<1>2. CASE ~(Len(s) <= n)
  <2>. DEFINE l == Len(s)
              k == Keep(s, n)
              a == Append(k, m)
              b == Append(s, m)
  <2>1. l \in Nat /\ l > n /\ n >= 1
    BY <1>2
  <2>2. k = SubSeq(s, l - n + 1, l)
    BY <1>2 DEF Keep, Latest
  <2>3. k \in Seq(S) /\ Len(k) = n /\ \A i \in 1 .. n : k[i] = s[l - n + i]
    <3>1. /\ l - n + 1 \in 1 .. l /\ l \in 1 .. l /\ l - (l - n + 1) + 1 = n
          /\ \A i \in 1 .. n : l - n + i = (l - n + 1) + i - 1 /\ l - n + i \in 1 .. l
      BY <2>1
    <3>2. k \in Seq(S)
      BY KeepIn
    <3>. DEFINE lo == l - n + 1
    <3>3. Len(k) = n /\ \A i \in 1 .. n : k[i] = s[lo + i - 1]
      <4>1. lo <= l
        BY <2>1
      <4>. HIDE DEF lo, k
      <4>2. lo \in 1 .. l /\ l \in 1 .. l /\ l - lo + 1 = n
        BY <3>1 DEF lo
      <4>3. k = SubSeq(s, lo, l)
        BY <2>2 DEF lo
      <4>. QED BY <4>1, <4>2, <4>3, PartOf
    <3>. QED BY <3>1, <3>2, <3>3
  <2>. HIDE DEF k
  <2>4. /\ a \in Seq(S) /\ Len(a) = n + 1 /\ a[n + 1] = m /\ \A i \in 1 .. n : a[i] = k[i]
    BY <2>3
  <2>5. /\ b \in Seq(S) /\ Len(b) = l + 1 /\ b[l + 1] = m /\ \A i \in 1 .. l : b[i] = s[i]
    BY <2>1
  <2>. HIDE DEF a, b
  <2>6. Keep(a, n) = SubSeq(a, 2, n + 1)
    <3>1. ~(Len(a) <= n) /\ Len(a) - n + 1 = 2
      BY <2>1, <2>4
    <3>. QED BY <2>4, <3>1 DEF Keep, Latest
  <2>7. Keep(b, n) = SubSeq(b, l + 2 - n, l + 1)
    <3>1. ~(Len(b) <= n) /\ Len(b) - n + 1 = l + 2 - n
      BY <2>1, <2>5
    <3>. QED BY <2>5, <3>1 DEF Keep, Latest
  <2>8. /\ Keep(a, n) \in Seq(S) /\ Len(Keep(a, n)) = n
        /\ \A i \in 1 .. n : Keep(a, n)[i] = a[i + 1]
    <3>1. Keep(a, n) \in Seq(S)
      BY <2>4, KeepIn
    <3>2. Len(Keep(a, n)) = n /\ \A i \in 1 .. n : Keep(a, n)[i] = a[2 + i - 1]
      <4>1. 2 \in 1 .. Len(a) /\ n + 1 \in 1 .. Len(a) /\ 2 <= n + 1 /\ (n + 1) - 2 + 1 = n
        BY <2>1, <2>4
      <4>. QED BY <2>4, <2>6, <4>1, PartOf
    <3>3. \A i \in 1 .. n : 2 + i - 1 = i + 1
      BY <2>1
    <3>. QED BY <3>1, <3>2, <3>3
  <2>9. /\ Keep(b, n) \in Seq(S) /\ Len(Keep(b, n)) = n
        /\ \A i \in 1 .. n : Keep(b, n)[i] = b[l + 1 - n + i]
    <3>1. Keep(b, n) \in Seq(S)
      BY <2>5, KeepIn
    <3>2. /\ l + 2 - n \in 1 .. l + 1 /\ (l + 1) - (l + 2 - n) + 1 = n
          /\ \A i \in 1 .. n : (l + 2 - n) + i - 1 = l + 1 - n + i
      BY <2>1
    <3>3. /\ Len(Keep(b, n)) = n
          /\ \A i \in 1 .. n : Keep(b, n)[i] = b[(l + 2 - n) + i - 1]
      <4>. DEFINE lo == l + 2 - n
                  hi == l + 1
      <4>1. lo \in 1 .. Len(b) /\ hi \in 1 .. Len(b) /\ lo <= hi /\ hi - lo + 1 = n
        BY <2>1, <2>5, <3>2
      <4>2. Keep(b, n) = SubSeq(b, lo, hi)
        BY <2>7
      <4>. HIDE DEF lo, hi
      <4>3. Len(Keep(b, n)) = n /\ \A i \in 1 .. n : Keep(b, n)[i] = b[lo + i - 1]
        BY <2>5, <4>1, <4>2, PartOf
      <4>. QED BY <4>3 DEF lo
    <3>. QED BY <3>1, <3>2, <3>3
  <2>10. ASSUME NEW i \in 1 .. n PROVE Keep(a, n)[i] = Keep(b, n)[i]
    <3>1. CASE i = n
      <4>1. l + 1 - n + i = l + 1
        BY <2>1, <3>1
      <4>. QED BY <2>4, <2>5, <2>8, <2>9, <3>1, <4>1
    <3>2. CASE i # n
      <4>1. /\ i + 1 \in 1 .. n /\ l - n + (i + 1) = l + 1 - n + i
            /\ l + 1 - n + i \in 1 .. l
        BY <2>1, <3>2
      <4>2. Keep(a, n)[i] = s[l + 1 - n + i]
        BY <2>3, <2>4, <2>8, <4>1
      <4>3. Keep(b, n)[i] = s[l + 1 - n + i]
        BY <2>5, <2>9, <4>1
      <4>. QED BY <4>2, <4>3
    <3>. QED BY <3>1, <3>2
  <2>11. Keep(a, n) = Keep(b, n)
    BY <2>8, <2>9, <2>10, SeqEqual
  <2>. QED BY <2>11 DEF a, b, k
<1>. QED BY <1>1, <1>2

\* Queues without writes, one after the other.
LEMMA WritelessJoined ==
    ASSUME NEW S, NEW a \in Seq(S), NEW b \in Seq(S), Writeless(a), Writeless(b)
    PROVE  Writeless(a \o b)
<1>. DEFINE q == a \o b
<1>1. /\ Len(q) = Len(a) + Len(b) /\ Len(a) \in Nat /\ Len(b) \in Nat
      /\ \A i \in 1 .. Len(a) : q[i] = a[i]
      /\ \A i \in 1 .. Len(b) : q[Len(a) + i] = b[i]
  BY Joined
<1>. HIDE DEF q
<1>2. ASSUME NEW i \in 1 .. Len(q) PROVE ~Writes(q[i])
  <2>1. CASE i <= Len(a)
    <3>1. i \in 1 .. Len(a)
      BY <1>1, <2>1
    <3>. QED BY <1>1, <3>1 DEF Writeless
  <2>2. CASE ~(i <= Len(a))
    <3>1. i - Len(a) \in 1 .. Len(b) /\ Len(a) + (i - Len(a)) = i
      BY <1>1, <2>2
    <3>2. q[i] = b[i - Len(a)]
      BY <1>1, <3>1
    <3>. QED BY <3>1, <3>2 DEF Writeless
  <2>. QED BY <2>1, <2>2
<1>3. Writeless(q)
  BY <1>2 DEF Writeless
<1>. QED BY <1>3 DEF q

\* A queue that writes, and after it one that does not.
LEMMA WritesJoined ==
    ASSUME NEW S, NEW a \in Seq(S), NEW b \in Seq(S), NEW k \in {1, 2}, WritesAt(a, k), Writeless(b)
    PROVE  WritesAt(a \o b, k) /\ (a \o b)[k] = a[k]
<1>. DEFINE q == a \o b
<1>1. /\ Len(q) = Len(a) + Len(b) /\ Len(a) \in Nat /\ Len(b) \in Nat
      /\ \A i \in 1 .. Len(a) : q[i] = a[i]
      /\ \A i \in 1 .. Len(b) : q[Len(a) + i] = b[i]
  BY Joined
<1>. HIDE DEF q
<1>2. k \in 1 .. Len(a) /\ Writes(a[k]) /\ (k = 2 => a[1].op = "deliver")
  BY DEF WritesAt
<1>3. k \in 1 .. Len(q) /\ q[k] = a[k] /\ 1 \in 1 .. Len(a) /\ q[1] = a[1]
  BY <1>1, <1>2
<1>4. ASSUME NEW i \in 1 .. Len(q), i # k PROVE ~Writes(q[i])
  <2>1. CASE i <= Len(a)
    <3>1. i \in 1 .. Len(a)
      BY <1>1, <2>1
    <3>. QED BY <1>1, <1>4, <3>1 DEF WritesAt
  <2>2. CASE ~(i <= Len(a))
    <3>1. i - Len(a) \in 1 .. Len(b) /\ Len(a) + (i - Len(a)) = i
      BY <1>1, <2>2
    <3>2. q[i] = b[i - Len(a)]
      BY <1>1, <3>1
    <3>. QED BY <3>1, <3>2 DEF Writeless
  <2>. QED BY <2>1, <2>2
<1>5. WritesAt(q, k)
  BY <1>2, <1>3, <1>4 DEF WritesAt
<1>. QED BY <1>3, <1>5 DEF q

\* What follows from the head of a queue that leads to the rooms rs.
LEMMA SettlesHead ==
    ASSUME NEW S, NEW q \in Seq(S), q # <<>>, NEW d, NEW rs, Settles(d, rs, q)
    PROVE  /\ Head(q).op \notin {"store", "persist", "deliver"}
                 => Writeless(Tail(q)) /\ Loaded(d) = rs
           /\ Head(q).op = "deliver" => Settles(d, rs, Tail(q))
           /\ Head(q).op \in {"store", "persist"}
                 => /\ Writeless(Tail(q)) /\ ~Refuses(d, WriteOf(rs, Head(q)))
                    /\ Loaded(Apply(d, WriteOf(rs, Head(q)))) = rs
<1>. DEFINE r == Tail(q)
<1>1. /\ Head(q) = q[1] /\ Len(q) \in Nat /\ Len(q) >= 1 /\ Len(r) = Len(q) - 1
      /\ \A i \in 1 .. Len(r) : r[i] = q[i + 1]
  BY QueueParts
<1>. HIDE DEF r
<1>2. \A i \in 1 .. Len(r) : i + 1 \in 1 .. Len(q) /\ i + 1 # 1
  BY <1>1
<1>3. CASE Writeless(q) /\ Loaded(d) = rs
  <2>1. ~Writes(q[1])
    BY <1>1, <1>3 DEF Writeless
  <2>2. Writeless(r)
    BY <1>1, <1>2, <1>3 DEF Writeless
  <2>. QED BY <1>1, <1>3, <2>1, <2>2 DEF Settles, Writes, r
<1>4. CASE WritesAt(q, 1) /\ ~Refuses(d, WriteOf(rs, q[1]))
           /\ Loaded(Apply(d, WriteOf(rs, q[1]))) = rs
  <2>1. Writes(q[1])
    BY <1>4 DEF WritesAt
  <2>2. Writeless(r)
    BY <1>1, <1>2, <1>4 DEF Writeless, WritesAt
  <2>. QED BY <1>1, <1>4, <2>1, <2>2 DEF Writes, r
<1>5. CASE WritesAt(q, 2) /\ ~Refuses(d, WriteOf(rs, q[2]))
           /\ Loaded(Apply(d, WriteOf(rs, q[2]))) = rs
  <2>1. q[1].op = "deliver" /\ 2 \in 1 .. Len(q) /\ Writes(q[2])
    BY <1>5 DEF WritesAt
  <2>2. 1 \in 1 .. Len(r) /\ r[1] = q[2]
    BY <1>1, <2>1
  <2>3. ASSUME NEW i \in 1 .. Len(r), i # 1 PROVE ~Writes(r[i])
    <3>1. i + 1 \in 1 .. Len(q) /\ i + 1 # 2
      BY <1>1, <2>3
    <3>. QED BY <1>1, <1>5, <3>1 DEF WritesAt
  <2>4. WritesAt(r, 1)
    BY <2>1, <2>2, <2>3 DEF WritesAt
  <2>5. Settles(d, rs, r)
    BY <1>5, <2>2, <2>4 DEF Settles
  <2>. QED BY <1>1, <2>1, <2>5 DEF r
<1>. QED BY <1>3, <1>4, <1>5 DEF Settles

\* Nothing to do: the database brings the rooms back.
LEMMA SettlesNothing ==
    ASSUME NEW d, NEW rs
    PROVE  Settles(d, rs, <<>>) <=> Loaded(d) = rs
<1>1. Len(<<>>) = 0
  OBVIOUS
<1>2. Writeless(<<>>) /\ \A k \in {1, 2} : ~WritesAt(<<>>, k)
  BY <1>1 DEF Writeless, WritesAt
<1>. QED BY <1>2 DEF Settles

\* Short queues.
LEMMA ShortWrites ==
    /\ Writeless(<<>>)
    /\ \A x : ~Writes(x) => Writeless(<<x>>)
    /\ \A x, y : ~Writes(x) /\ ~Writes(y) => Writeless(<<x, y>>)
    /\ \A x, y, z : ~Writes(x) /\ ~Writes(y) /\ ~Writes(z) => Writeless(<<x, y, z>>)
    /\ \A x : Writes(x) => WritesAt(<<x>>, 1)
    /\ \A x, y : Writes(x) /\ ~Writes(y) => WritesAt(<<x, y>>, 1)
    /\ \A x, y, z : Writes(x) /\ ~Writes(y) /\ ~Writes(z) => WritesAt(<<x, y, z>>, 1)
    /\ \A x, y : x.op = "deliver" /\ Writes(y) => WritesAt(<<x, y>>, 2)
<1>1. Writeless(<<>>)
  <2>1. Len(<<>>) = 0
    OBVIOUS
  <2>. QED BY <2>1 DEF Writeless
<1>2. ASSUME NEW x
      PROVE  /\ ~Writes(x) => Writeless(<<x>>)
             /\ Writes(x) => WritesAt(<<x>>, 1)
  <2>1. Len(<<x>>) = 1 /\ <<x>>[1] = x
    OBVIOUS
  <2>. QED BY <2>1 DEF Writeless, WritesAt
<1>3. ASSUME NEW x, NEW y
      PROVE  /\ ~Writes(x) /\ ~Writes(y) => Writeless(<<x, y>>)
             /\ Writes(x) /\ ~Writes(y) => WritesAt(<<x, y>>, 1)
             /\ x.op = "deliver" /\ Writes(y) => WritesAt(<<x, y>>, 2)
  <2>1. Len(<<x, y>>) = 2 /\ <<x, y>>[1] = x /\ <<x, y>>[2] = y
    OBVIOUS
  <2>2. x.op = "deliver" => ~Writes(x)
    BY DEF Writes
  <2>. QED BY <2>1, <2>2 DEF Writeless, WritesAt
<1>4. ASSUME NEW x, NEW y, NEW z
      PROVE  /\ ~Writes(x) /\ ~Writes(y) /\ ~Writes(z) => Writeless(<<x, y, z>>)
             /\ Writes(x) /\ ~Writes(y) /\ ~Writes(z) => WritesAt(<<x, y, z>>, 1)
  <2>1. /\ Len(<<x, y, z>>) = 3 /\ <<x, y, z>>[1] = x /\ <<x, y, z>>[2] = y
        /\ <<x, y, z>>[3] = z
    OBVIOUS
  <2>. QED BY <2>1 DEF Writeless, WritesAt
<1>. QED BY <1>1, <1>2, <1>3, <1>4

\* Which steps write.
LEMMA StepWrites ==
    /\ \A to, f : ~Writes(Deliver(to, f)) /\ Deliver(to, f).op = "deliver"
    /\ \A f : ~Writes(DeliverAll(f))
    /\ \A r : ~Writes(Post(r)) /\ ~Writes(Users(r))
    /\ ~Writes(Lists)
    /\ \A v, r, tell : ~Writes(Move(v, r, tell))
    /\ \A rs, w : Writes(Store(w)) /\ WriteOf(rs, Store(w)) = w
    /\ \A rs, r : Writes(Persist(r)) /\ WriteOf(rs, Persist(r)) = RoomWrite(r, RowOf(rs, r))
BY DEF Writes, WriteOf, Deliver, DeliverAll, Post, Users, Lists, Move, Store, Persist

-----------------------------------------------------------------------------
(***************************************************************************)
(* What one write changes of the rooms that a restart brings back.         *)
(***************************************************************************)

\* A room that is made of its row and its messages.
LoadedRoom(row, ms) ==
    [name |-> row.name, topic |-> row.topic, owner |-> row.owner, born |-> row.born,
     recent |-> Keep(ms, HistoryLimit)]

\* load_persistent_state makes the room of every row.
LEMMA LoadedAt ==
    ASSUME NEW d, NEW r \in RoomIds
    PROVE  /\ d.rooms[r] = Absent => Loaded(d)[r] = Absent
           /\ d.rooms[r] # Absent => Loaded(d)[r] = LoadedRoom(d.rooms[r], d.messages[r])
BY DEF Loaded, LoadedRoom, LoadHistory

\* There is a row for every room.
LEMMA RowThere ==
    ASSUME NEW d, NEW rs, Fits(d, rs), Loaded(d) = rs, NEW r \in RoomIds
    PROVE  /\ rs[r] = Absent <=> d.rooms[r] = Absent
           /\ rs[r] # Absent => /\ d.rooms[r] \in RoomRow /\ d.messages[r] \in Seq(Message)
                                /\ rs[r] = LoadedRoom(d.rooms[r], d.messages[r])
<1>1. d.rooms \in [RoomIds -> RoomRow \cup {Absent}] /\ d.messages \in [RoomIds -> Seq(Message)]
  BY DEF Fits, DbType
<1>2. d.rooms[r] = Absent => rs[r] = Absent
  BY LoadedAt
<1>3. d.rooms[r] # Absent => rs[r] # Absent
  BY DEF Fits
<1>. QED BY <1>1, <1>2, <1>3, LoadedAt

\* Two databases that differ in one room.
LEMMA LoadedOne ==
    ASSUME NEW d, NEW e, NEW r \in RoomIds,
           \A q \in RoomIds : q # r => e.rooms[q] = d.rooms[q] /\ e.messages[q] = d.messages[q],
           e.rooms[r] # Absent
    PROVE  Loaded(e) = [Loaded(d) EXCEPT ![r] = LoadedRoom(e.rooms[r], e.messages[r])]
<1>. DEFINE n == LoadedRoom(e.rooms[r], e.messages[r])
            new == [Loaded(d) EXCEPT ![r] = n]
<1>1. Loaded(e)[r] = n
  BY LoadedAt
<1>2. ASSUME NEW q \in RoomIds, q # r PROVE Loaded(e)[q] = Loaded(d)[q]
  <2>1. e.rooms[q] = d.rooms[q] /\ e.messages[q] = d.messages[q]
    BY <1>2
  <2>. QED BY <2>1, LoadedAt
<1>3. /\ DOMAIN Loaded(d) = RoomIds /\ DOMAIN Loaded(e) = RoomIds
      /\ Loaded(e) = [q \in RoomIds |-> Loaded(e)[q]]
  BY DEF Loaded
<1>. HIDE DEF n
<1>4. new = [q \in RoomIds |-> IF q = r THEN n ELSE Loaded(d)[q]]
  BY <1>3
<1>. HIDE DEF new
<1>5. \A q \in RoomIds : Loaded(e)[q] = IF q = r THEN n ELSE Loaded(d)[q]
  BY <1>1, <1>2
<1>6. Loaded(e) = new
  BY <1>3, <1>4, <1>5
<1>. QED BY <1>6 DEF new, n

\* The tables after a write.
LEMMA ApplyParts ==
    ASSUME NEW d \in DbType, NEW r \in RoomIds
    PROVE  /\ \A row : /\ Apply(d, RoomWrite(r, row)).rooms = [d.rooms EXCEPT ![r] = row]
                       /\ Apply(d, RoomWrite(r, row)).messages = d.messages
           /\ \A topic : d.rooms[r] # Absent =>
                 /\ Apply(d, TopicWrite(r, topic)).rooms
                       = [d.rooms EXCEPT ![r] = [d.rooms[r] EXCEPT !.topic = topic]]
                 /\ Apply(d, TopicWrite(r, topic)).messages = d.messages
           /\ \A m : /\ Apply(d, MessageWrite(r, m)).rooms = d.rooms
                     /\ Apply(d, MessageWrite(r, m)).messages
                           = [d.messages EXCEPT ![r] = Append(d.messages[r], m)]
<1>1. ASSUME NEW row
      PROVE  /\ Apply(d, RoomWrite(r, row)).rooms = [d.rooms EXCEPT ![r] = row]
             /\ Apply(d, RoomWrite(r, row)).messages = d.messages
  <2>1. Apply(d, RoomWrite(r, row)) = [d EXCEPT !.rooms[r] = row]
    BY DEF Apply, RoomWrite
  <2>. QED BY <2>1 DEF DbType
<1>2. ASSUME NEW topic, d.rooms[r] # Absent
      PROVE  /\ Apply(d, TopicWrite(r, topic)).rooms
                   = [d.rooms EXCEPT ![r] = [d.rooms[r] EXCEPT !.topic = topic]]
             /\ Apply(d, TopicWrite(r, topic)).messages = d.messages
  <2>1. Apply(d, TopicWrite(r, topic)) = [d EXCEPT !.rooms[r].topic = topic]
    BY <1>2 DEF Apply, TopicWrite
  <2>. QED BY <2>1 DEF DbType
<1>3. ASSUME NEW m
      PROVE  /\ Apply(d, MessageWrite(r, m)).rooms = d.rooms
             /\ Apply(d, MessageWrite(r, m)).messages
                   = [d.messages EXCEPT ![r] = Append(d.messages[r], m)]
  <2>1. Apply(d, MessageWrite(r, m)) = [d EXCEPT !.messages[r] = Append(@, m)]
    BY DEF Apply, MessageWrite
  <2>. QED BY <2>1 DEF DbType
<1>. QED BY <1>1, <1>2, <1>3

\* store_message
LEMMA PostLoaded ==
    ASSUME NEW d, NEW rs, Fits(d, rs), Loaded(d) = rs, NEW r \in RoomIds, rs[r] # Absent,
           NEW m \in Message
    PROVE  /\ ~Refuses(d, MessageWrite(r, m))
           /\ Loaded(Apply(d, MessageWrite(r, m)))
                 = [rs EXCEPT ![r] = [rs[r] EXCEPT
                        !.recent = Keep(Append(rs[r].recent, m), HistoryLimit)]]
<1>. DEFINE e == Apply(d, MessageWrite(r, m))
            row == d.rooms[r]
            ms == d.messages[r]
<1>1. d \in DbType /\ d.messages \in [RoomIds -> Seq(Message)]
  BY DEF Fits, DbType
<1>2. row # Absent /\ row \in RoomRow /\ ms \in Seq(Message) /\ rs[r] = LoadedRoom(row, ms)
  BY RowThere
<1>3. e.rooms = d.rooms /\ e.messages = [d.messages EXCEPT ![r] = Append(ms, m)]
  BY <1>1, ApplyParts
<1>. HIDE DEF e
<1>4. /\ e.rooms[r] = row /\ e.messages[r] = Append(ms, m)
      /\ \A q \in RoomIds : q # r => e.rooms[q] = d.rooms[q] /\ e.messages[q] = d.messages[q]
  BY <1>1, <1>3
<1>5. Loaded(e) = [rs EXCEPT ![r] = LoadedRoom(row, Append(ms, m))]
  <2>1. e.rooms[r] # Absent
    BY <1>2, <1>4
  <2>2. \A q \in RoomIds : q # r => e.rooms[q] = d.rooms[q] /\ e.messages[q] = d.messages[q]
    BY <1>4
  <2>3. Loaded(e) = [Loaded(d) EXCEPT ![r] = LoadedRoom(e.rooms[r], e.messages[r])]
    BY <2>1, <2>2, LoadedOne
  <2>. QED BY <1>4, <2>3
<1>6. Keep(Append(Keep(ms, HistoryLimit), m), HistoryLimit) = Keep(Append(ms, m), HistoryLimit)
  BY <1>2, KeepAppend, FeedAssumption
<1>7. LoadedRoom(row, Append(ms, m))
        = [rs[r] EXCEPT !.recent = Keep(Append(rs[r].recent, m), HistoryLimit)]
  <2>. HIDE DEF row, ms
  <2>1. rs[r].recent = Keep(ms, HistoryLimit)
    BY <1>2 DEF LoadedRoom
  <2>. QED BY <1>2, <1>6, <2>1 DEF LoadedRoom
<1>8. ~Refuses(d, MessageWrite(r, m))
  BY <1>2 DEF Refuses, MessageWrite
<1>. QED BY <1>5, <1>7, <1>8 DEF e

\* update_room_topic
LEMMA TopicLoaded ==
    ASSUME NEW d, NEW rs, Fits(d, rs), Loaded(d) = rs, NEW r \in RoomIds, rs[r] # Absent,
           NEW topic \in TopicVals
    PROVE  /\ ~Refuses(d, TopicWrite(r, topic))
           /\ Loaded(Apply(d, TopicWrite(r, topic)))
                 = [rs EXCEPT ![r] = [rs[r] EXCEPT !.topic = topic]]
<1>. DEFINE e == Apply(d, TopicWrite(r, topic))
            row == d.rooms[r]
            ms == d.messages[r]
            new == [row EXCEPT !.topic = topic]
<1>1. d \in DbType /\ d.rooms \in [RoomIds -> RoomRow \cup {Absent}]
  BY DEF Fits, DbType
<1>2. row # Absent /\ row \in RoomRow /\ ms \in Seq(Message) /\ rs[r] = LoadedRoom(row, ms)
  BY RowThere
<1>3. e.rooms = [d.rooms EXCEPT ![r] = new] /\ e.messages = d.messages
  BY <1>1, <1>2, ApplyParts
<1>. HIDE DEF e
<1>4. /\ e.rooms[r] = new /\ e.messages[r] = ms
      /\ \A q \in RoomIds : q # r => e.rooms[q] = d.rooms[q] /\ e.messages[q] = d.messages[q]
  <2>. HIDE DEF new
  <2>. QED BY <1>1, <1>3
<1>5. ~Refuses(d, TopicWrite(r, topic))
  BY DEF Refuses, TopicWrite
<1>6. LoadedRoom(new, ms) = [rs[r] EXCEPT !.topic = topic]
  <2>. HIDE DEF row, ms
  <2>. QED BY <1>2 DEF LoadedRoom, RoomRow
<1>7. new # Absent
  <2>1. new \in RoomRow
    <3>. HIDE DEF row
    <3>. QED BY <1>2 DEF RoomRow, TopicVals
  <2>. QED BY <2>1, FeedFacts
<1>8. Loaded(e) = [rs EXCEPT ![r] = LoadedRoom(new, ms)]
  BY <1>4, <1>7, LoadedOne
<1>. QED BY <1>5, <1>6, <1>8 DEF e

\* store_room, for a room that is new and whose name is free.
LEMMA CreateLoaded ==
    ASSUME NEW d, NEW rs, Fits(d, rs), Loaded(d) = rs, NEW r \in RoomIds, rs[r] = Absent,
           NEW row \in RoomRow, \A q \in RoomIds : rs[q] # Absent => rs[q].name # row.name
    PROVE  /\ ~Refuses(d, RoomWrite(r, row))
           /\ Loaded(Apply(d, RoomWrite(r, row))) = [rs EXCEPT ![r] = LoadedRoom(row, <<>>)]
<1>. DEFINE e == Apply(d, RoomWrite(r, row))
<1>1. d \in DbType /\ d.rooms \in [RoomIds -> RoomRow \cup {Absent}] /\ row # Absent
  BY FeedFacts DEF Fits, DbType
<1>2. d.rooms[r] = Absent
  BY RowThere
<1>3. d.messages[r] = <<>>
  BY <1>2 DEF Fits
<1>4. e.rooms = [d.rooms EXCEPT ![r] = row] /\ e.messages = d.messages
  BY <1>1, ApplyParts
<1>. HIDE DEF e
<1>5. /\ e.rooms[r] = row /\ e.messages[r] = <<>>
      /\ \A q \in RoomIds : q # r => e.rooms[q] = d.rooms[q] /\ e.messages[q] = d.messages[q]
  BY <1>1, <1>3, <1>4
<1>6. Loaded(e) = [rs EXCEPT ![r] = LoadedRoom(row, <<>>)]
  BY <1>1, <1>5, LoadedOne
<1>7. ASSUME NEW q \in RoomIds, d.rooms[q] # Absent PROVE d.rooms[q].name # row.name
  <2>1. rs[q] # Absent /\ rs[q] = LoadedRoom(d.rooms[q], d.messages[q])
    BY <1>7, RowThere
  <2>2. rs[q].name = d.rooms[q].name
    BY <2>1 DEF LoadedRoom
  <2>. QED BY <2>1, <2>2
<1>8. ~Refuses(d, RoomWrite(r, row))
  <2>1. /\ RoomWrite(r, row).kind = "room" /\ RoomWrite(r, row).id = r
        /\ RoomWrite(r, row).val = row
    BY DEF RoomWrite
  <2>2. DOMAIN d.rooms = RoomIds
    BY <1>1
  <2>. QED BY <1>7, <2>1, <2>2 DEF Refuses
<1>. QED BY <1>6, <1>8 DEF e

-----------------------------------------------------------------------------
(***************************************************************************)
(* The steps keep what is stored and what is in memory together.           *)
(***************************************************************************)

\* The database of the queued writes fits the rooms.
LEMMA StoredFits ==
    ASSUME FeedInv
    PROVE  Fits(Stored, rooms)
BY WrittenFits DEF FeedInv, QueuesInv, Stored

\* The queue of the thread that goes on is the only one; what is shown of its
\* new queue is enough.
LEMMA StoredContinue ==
    ASSUME FeedInv, StoredInv, NEW t \in Threads, todo[t] # <<>>, NEW s, Continue(t, s)
    PROVE  /\ todo[t] \in Seq(GoodSteps(rooms)) /\ Tail(todo[t]) \in Seq(GoodSteps(rooms))
           /\ Settles(Stored, rooms, todo[t])
           /\ Settles(Stored', rooms', s \o Tail(todo[t])) => StoredInv'
<1>1. PICK t0 \in Threads :
          (\A u \in Threads : u # t0 => todo[u] = <<>>) /\ Settles(Stored, rooms, todo[t0])
  BY DEF StoredInv
<1>2. t0 = t
  BY <1>1
<1>3. todo \in [Threads -> Seq(GoodSteps(rooms))]
  BY DEF FeedInv, QueuesInv
<1>4. todo[t] \in Seq(GoodSteps(rooms)) /\ Tail(todo[t]) \in Seq(GoodSteps(rooms))
  BY <1>3, QueueParts
<1>5. todo'[t] = s \o Tail(todo[t]) /\ \A u \in Threads : u # t => todo'[u] = <<>>
  BY <1>1, <1>2, <1>3 DEF Continue
<1>6. ASSUME Settles(Stored', rooms', s \o Tail(todo[t])) PROVE StoredInv'
  BY <1>5, <1>6 DEF StoredInv
<1>. QED BY <1>1, <1>2, <1>4, <1>6

\* Steps that neither write nor change a room.
LEMMA StoredQuiet ==
    ASSUME FeedInv, StoredInv, NEW t \in Threads, todo[t] # <<>>,
           Head(todo[t]).op \notin {"store", "persist", "deliver"},
           NEW s \in Seq(GoodSteps(rooms)), Writeless(s), Continue(t, s),
           UNCHANGED <<rooms, db, offered>>
    PROVE  StoredInv'
<1>1. /\ todo[t] \in Seq(GoodSteps(rooms)) /\ Tail(todo[t]) \in Seq(GoodSteps(rooms))
      /\ Settles(Stored, rooms, todo[t])
      /\ Settles(Stored', rooms', s \o Tail(todo[t])) => StoredInv'
  BY StoredContinue
<1>2. Writeless(Tail(todo[t])) /\ Loaded(Stored) = rooms
  BY <1>1, SettlesHead
<1>3. Writeless(s \o Tail(todo[t]))
  BY <1>1, <1>2, WritelessJoined
<1>4. Stored' = Stored
  BY DEF Stored
<1>5. Settles(Stored', rooms', s \o Tail(todo[t]))
  BY <1>2, <1>3, <1>4 DEF Settles
<1>. QED BY <1>1, <1>5

\* Users, lists and moves.
LEMMA StoredReads ==
    ASSUME FeedInv, StoredInv, NEW t \in Threads, UsersStep(t) \/ ListsStep(t) \/ MoveStep(t)
    PROVE  StoredInv'
<1>1. todo[t] # <<>> /\ UNCHANGED <<rooms, db, offered>>
  BY DEF UsersStep, ListsStep, MoveStep, AtOp, memory
<1>2. Cur(t) \in StepType /\ StepOK(rooms, Cur(t))
  BY <1>1, CurGood
<1>3. CASE UsersStep(t)
  <2>. DEFINE r == Cur(t).room
              f == UserList(r, Members(r))
  <2>1. r \in RoomIds /\ Head(todo[t]).op = "users"
    BY <1>2, <1>3, StepFields DEF UsersStep, AtOp, Cur
  <2>2. Members(r) \in SUBSET Viewers
    BY DEF Members
  <2>3. f \in FrameType /\ f.kind = "users"
    BY <2>1, <2>2, Frames
  <2>4. Deliver(Members(r), f) \in GoodSteps(rooms)
    BY <2>2, <2>3, DeliverSteps
  <2>5. <<Deliver(Members(r), f)>> \in Seq(GoodSteps(rooms))
    BY <2>4, Short
  <2>6. Writeless(<<Deliver(Members(r), f)>>)
    BY ShortWrites, StepWrites
  <2>. QED BY <1>1, <1>3, <2>1, <2>5, <2>6, StoredQuiet DEF UsersStep
<1>4. CASE ListsStep(t)
  <2>. DEFINE f == RoomList(Counts)
  <2>1. f \in [kind : {"rooms"}, room : {0}, val : CountVals]
    BY PlainFrames
  <2>2. DeliverAll(f) \in StepType /\ DeliverAll(f).op = "deliverAll"
    BY <2>1 DEF StepType, DeliverAll
  <2>3. DeliverAll(f) \in GoodSteps(rooms)
    BY <2>2 DEF GoodSteps, StepOK
  <2>4. <<DeliverAll(f)>> \in Seq(GoodSteps(rooms))
    BY <2>3, Short
  <2>5. Writeless(<<DeliverAll(f)>>)
    BY ShortWrites, StepWrites
  <2>6. Head(todo[t]).op = "lists"
    BY <1>4 DEF ListsStep, AtOp
  <2>. QED BY <1>1, <1>4, <2>4, <2>5, <2>6, StoredQuiet DEF ListsStep
<1>5. CASE MoveStep(t)
  <2>. DEFINE c == Cur(t)
  <2>1. c.op = "move" /\ Head(todo[t]).op = "move"
    BY <1>5 DEF MoveStep, AtOp, Cur
  <2>2. /\ Told(c, at[c.who]) \in Seq(GoodSteps(rooms))
        /\ Enter(c.who, c.room) \in Seq(GoodSteps(rooms))
        /\ <<Users(c.room), Lists>> \in Seq(GoodSteps(rooms))
        /\ MoveSteps(c) \in Seq(GoodSteps(rooms))
    BY <1>2, <2>1, MoveGood
  <2>3. Continue(t, MoveSteps(c))
    BY <1>5 DEF MoveStep, MoveSteps, Told
  <2>. HIDE DEF c
  <2>4. Writeless(Told(c, at[c.who]))
    BY ShortWrites, StepWrites DEF Told
  <2>5. Writeless(Enter(c.who, c.room))
    BY ShortWrites, StepWrites DEF Enter
  <2>6. Writeless(<<Users(c.room), Lists>>)
    BY ShortWrites, StepWrites
  <2>7. Told(c, at[c.who]) \o Enter(c.who, c.room) \in Seq(GoodSteps(rooms))
    BY <2>2, Joined
  <2>8. Writeless(Told(c, at[c.who]) \o Enter(c.who, c.room))
    BY <2>2, <2>4, <2>5, WritelessJoined
  <2>9. Writeless(MoveSteps(c))
    BY <2>2, <2>6, <2>7, <2>8, WritelessJoined DEF MoveSteps
  <2>. QED BY <1>1, <2>1, <2>2, <2>3, <2>9, StoredQuiet
<1>. QED BY <1>3, <1>4, <1>5

\* A delivery, and the write after it comes next.
LEMMA StoredDeliver ==
    ASSUME FeedInv, StoredInv, NEW t \in Threads, DeliverStep(t)
    PROVE  StoredInv'
<1>1. /\ todo[t] # <<>> /\ Head(todo[t]).op \in {"deliver", "deliverAll"}
      /\ Continue(t, <<>>) /\ UNCHANGED <<rooms, db, offered>>
  BY DEF DeliverStep, AtOp, memory
<1>2. /\ todo[t] \in Seq(GoodSteps(rooms)) /\ Tail(todo[t]) \in Seq(GoodSteps(rooms))
      /\ Settles(Stored, rooms, todo[t])
      /\ Settles(Stored', rooms', <<>> \o Tail(todo[t])) => StoredInv'
  BY <1>1, StoredContinue
<1>3. Settles(Stored, rooms, Tail(todo[t]))
  <2>1. CASE Head(todo[t]).op = "deliver"
    BY <1>1, <1>2, <2>1, SettlesHead
  <2>2. CASE Head(todo[t]).op = "deliverAll"
    <3>1. Writeless(Tail(todo[t])) /\ Loaded(Stored) = rooms
      BY <1>1, <1>2, <2>2, SettlesHead
    <3>. QED BY <3>1 DEF Settles
  <2>. QED BY <1>1, <2>1, <2>2
<1>4. <<>> \o Tail(todo[t]) = Tail(todo[t])
  BY <1>2
<1>5. Stored' = Stored
  BY <1>1 DEF Stored
<1>. QED BY <1>1, <1>2, <1>3, <1>4, <1>5

\* The write is queued.
LEMMA StoredStore ==
    ASSUME FeedInv, StoredInv, NEW t \in Threads, StoreStep(t)
    PROVE  StoredInv'
<1>. DEFINE w == Cur(t).write
<1>1. /\ todo[t] # <<>> /\ Head(todo[t]).op = "store" /\ Continue(t, <<>>)
      /\ UNCHANGED <<rooms, db>> /\ offered' = Append(offered, w)
  BY DEF StoreStep, AtOp, memory
<1>2. /\ todo[t] \in Seq(GoodSteps(rooms)) /\ Tail(todo[t]) \in Seq(GoodSteps(rooms))
      /\ Settles(Stored, rooms, todo[t])
      /\ Settles(Stored', rooms', <<>> \o Tail(todo[t])) => StoredInv'
  BY <1>1, StoredContinue
<1>3. WriteOf(rooms, Head(todo[t])) = w
  BY <1>1 DEF WriteOf, Cur
<1>4. Writeless(Tail(todo[t])) /\ ~Refuses(Stored, w) /\ Loaded(Apply(Stored, w)) = rooms
  <2>. HIDE DEF w
  <2>. QED BY <1>1, <1>2, <1>3, SettlesHead
<1>5. w \in GoodWrites(rooms) /\ offered \in Seq(GoodWrites(rooms))
  BY <1>1, CurGood DEF StepOK, Cur, FeedInv, QueuesInv
<1>. HIDE DEF w
<1>6. Stored' = Apply(Stored, w)
  BY <1>1, <1>4, <1>5, WrittenAppend DEF Stored
<1>7. <<>> \o Tail(todo[t]) = Tail(todo[t])
  BY <1>2
<1>8. Settles(Stored', rooms', Tail(todo[t]))
  BY <1>1, <1>4, <1>6 DEF Settles
<1>. QED BY <1>2, <1>7, <1>8

\* The row of a room is read and will be queued.
LEMMA StoredPersist ==
    ASSUME FeedInv, StoredInv, NEW t \in Threads, PersistStep(t)
    PROVE  StoredInv'
<1>. DEFINE r == Cur(t).room
            x == Store(RoomWrite(r, Row(r)))
<1>1. /\ todo[t] # <<>> /\ Head(todo[t]).op = "persist" /\ Continue(t, <<x>>)
      /\ UNCHANGED <<rooms, db, offered>>
  BY DEF PersistStep, AtOp, memory
<1>2. /\ todo[t] \in Seq(GoodSteps(rooms)) /\ Tail(todo[t]) \in Seq(GoodSteps(rooms))
      /\ Settles(Stored, rooms, todo[t])
      /\ Settles(Stored', rooms', <<x>> \o Tail(todo[t])) => StoredInv'
  BY <1>1, StoredContinue
<1>3. WriteOf(rooms, Head(todo[t])) = WriteOf(rooms, x) /\ Writes(x)
  <2>1. WriteOf(rooms, Head(todo[t])) = RoomWrite(r, RowOf(rooms, r))
    BY <1>1 DEF WriteOf, Cur
  <2>2. RowOf(rooms, r) = Row(r)
    BY DEF RowOf, Row
  <2>. QED BY <2>1, <2>2, StepWrites
<1>. HIDE DEF x
<1>4. /\ Writeless(Tail(todo[t])) /\ ~Refuses(Stored, WriteOf(rooms, x))
      /\ Loaded(Apply(Stored, WriteOf(rooms, x))) = rooms
  BY <1>1, <1>2, <1>3, SettlesHead
<1>. DEFINE S == GoodSteps(rooms) \cup {x}
            rest == Tail(todo[t])
<1>5. <<x>> \in Seq(S) /\ rest \in Seq(S) /\ <<x>>[1] = x /\ WritesAt(<<x>>, 1)
  BY <1>2, <1>3, Short, SeqGrows, ShortWrites
<1>. HIDE DEF S, rest
<1>6. WritesAt(<<x>> \o rest, 1) /\ (<<x>> \o rest)[1] = x
  BY <1>4, <1>5, WritesJoined DEF rest
<1>7. Stored' = Stored
  BY <1>1 DEF Stored
<1>8. Settles(Stored', rooms', <<x>> \o rest)
  BY <1>1, <1>4, <1>6, <1>7 DEF Settles
<1>. QED BY <1>2, <1>8 DEF rest

\* A message is in recent_messages before it is queued.
LEMMA StoredPost ==
    ASSUME FeedInv, StoredInv, NEW t \in Threads, PostStep(t)
    PROVE  StoredInv'
<1>. DEFINE r == Cur(t).room
            m == [n |-> posts + 1, room |-> r, born |-> rooms[r].born]
            w == MessageWrite(r, m)
            x == Deliver(Members(r), RoomText(r, <<m>>))
            y == Store(w)
            rest == Tail(todo[t])
<1>1. /\ todo[t] # <<>> /\ Head(todo[t]).op = "post" /\ Continue(t, <<x, y>>)
      /\ rooms' = [rooms EXCEPT ![r].recent = Keep(Append(@, m), HistoryLimit)]
      /\ UNCHANGED <<db, offered>>
  BY DEF PostStep, AtOp
<1>2. r \in RoomIds /\ rooms[r] # Absent
  BY <1>1, CurGood, StepFields DEF StepOK, Cur
<1>3. m \in Message
  <2>1. posts + 1 \in Nat
    BY DEF FeedInv
  <2>2. r \in Nat /\ rooms[r].born \in Nat
    BY <1>2, RoomFields, FeedFacts
  <2>. QED BY <2>1, <2>2 DEF Message
<1>4. /\ todo[t] \in Seq(GoodSteps(rooms)) /\ rest \in Seq(GoodSteps(rooms))
      /\ Settles(Stored, rooms, todo[t])
      /\ Settles(Stored', rooms', <<x, y>> \o rest) => StoredInv'
  BY <1>1, StoredContinue
<1>5. Writeless(rest) /\ Loaded(Stored) = rooms
  BY <1>1, <1>4, SettlesHead
<1>6. WriteOf(rooms', y) = w /\ Writes(y) /\ x.op = "deliver"
  BY StepWrites
<1>. HIDE DEF m
<1>7. ~Refuses(Stored, w) /\ Loaded(Apply(Stored, w)) = rooms'
  <2>. DEFINE d == Stored
  <2>1. Fits(d, rooms) /\ Loaded(d) = rooms
    BY <1>5, StoredFits
  <2>. HIDE DEF d
  <2>2. /\ ~Refuses(d, w)
        /\ Loaded(Apply(d, w)) = [rooms EXCEPT ![r] = [rooms[r] EXCEPT
              !.recent = Keep(Append(rooms[r].recent, m), HistoryLimit)]]
    BY <1>2, <1>3, <2>1, PostLoaded
  <2>. HIDE DEF w
  <2>3. Loaded(Apply(d, w)) = rooms'
    BY <1>1, <2>2
  <2>. QED BY <2>2, <2>3 DEF d
<1>. HIDE DEF x, y, w, rest
<1>. DEFINE S == GoodSteps(rooms) \cup {x, y}
<1>8. <<x, y>> \in Seq(S) /\ rest \in Seq(S) /\ <<x, y>>[2] = y /\ WritesAt(<<x, y>>, 2)
  BY <1>4, <1>6, Short, SeqGrows, ShortWrites
<1>. HIDE DEF S
<1>9. WritesAt(<<x, y>> \o rest, 2) /\ (<<x, y>> \o rest)[2] = y
  BY <1>5, <1>8, WritesJoined
<1>10. Stored' = Stored
  BY <1>1 DEF Stored
<1>11. Settles(Stored', rooms', <<x, y>> \o rest)
  BY <1>6, <1>7, <1>9, <1>10 DEF Settles
<1>. QED BY <1>4, <1>11

\* An operation begins, and counts as an overlap if the other thread is busy.
LEMMA RestoreBegin ==
    ASSUME FeedInv, RestoreInv, NEW t \in Threads, CountOverlap, NEW s,
           todo' = [todo EXCEPT ![t] = s], UNCHANGED <<db, offered>>,
           Loaded(Stored) = rooms => Settles(Stored, rooms', s)
    PROVE  RestoreInv'
<1>1. CASE ~(\A u \in Threads : Idle(u))
  <2>1. overlaps \in Nat /\ overlaps' = overlaps + 1
    BY <1>1 DEF CountOverlap, RestoreInv
  <2>. QED BY <2>1 DEF Raced, RestoreInv
<1>2. CASE \A u \in Threads : Idle(u)
  <2>1. overlaps' = overlaps /\ overlaps \in Nat /\ \A u \in Threads : todo[u] = <<>>
    BY <1>2 DEF CountOverlap, RestoreInv, Idle
  <2>2. SUFFICES ASSUME ~Raced' PROVE StoredInv'
    BY <2>1 DEF RestoreInv
  <2>3. PICK t0 \in Threads : Settles(Stored, rooms, todo[t0])
    BY <2>1, <2>2 DEF Raced, RestoreInv, StoredInv
  <2>4. Loaded(Stored) = rooms
    BY <2>1, <2>3, SettlesNothing
  <2>5. todo'[t] = s /\ \A u \in Threads : u # t => todo'[u] = <<>>
    BY <2>1 DEF FeedInv, QueuesInv
  <2>6. Stored' = Stored
    BY DEF Stored
  <2>. QED BY <2>4, <2>5, <2>6 DEF StoredInv
<1>. QED BY <1>1, <1>2

\* One that writes nothing and leaves the rooms alone.
LEMMA RestoreOnly ==
    ASSUME FeedInv, RestoreInv, NEW t \in Threads, NEW s, Writeless(s), BeginOnly(t, s)
    PROVE  RestoreInv'
<1>1. /\ CountOverlap /\ todo' = [todo EXCEPT ![t] = s]
      /\ UNCHANGED <<db, offered, rooms>>
  BY DEF BeginOnly, Begin, memory
<1>2. Loaded(Stored) = rooms => Settles(Stored, rooms', s)
  BY <1>1 DEF Settles
<1>. QED BY <1>1, <1>2, RestoreBegin

\* A room is created: its row is queued first.
LEMMA RestoreCreate ==
    ASSUME FeedInv, RestoreInv, NEW t \in Threads, NEW nm \in Names,
           NEW owner \in Viewers \cup {Absent}, Create(t, nm, owner)
    PROVE  RestoreInv'
<1>. DEFINE r == NextRoomId
            n == [name |-> nm, topic |-> Absent, owner |-> owner, born |-> ops + 1,
                  recent |-> <<>>]
            row == [name |-> nm, topic |-> Absent, owner |-> owner, born |-> ops + 1]
            x == Persist(r)
            y == IF owner = Absent THEN Lists ELSE Move(owner, r, TRUE)
            s == PersistFirst(r, IF owner = Absent THEN <<Lists>> ELSE <<Move(owner, r, TRUE)>>)
<1>1. /\ r \in RoomIds /\ ~Taken(nm) /\ rooms' = [rooms EXCEPT ![r] = n]
      /\ CountOverlap /\ todo' = [todo EXCEPT ![t] = s] /\ UNCHANGED <<db, offered>>
  BY DEF Create, Begin
<1>2. rooms[r] = Absent
  BY <1>1, NextIsFree
<1>3. s = <<x, y>>
  <2>1. (IF owner = Absent THEN <<Lists>> ELSE <<Move(owner, r, TRUE)>>) = <<y>>
    OBVIOUS
  <2>. QED BY <2>1, PairJoined DEF PersistFirst
<1>4. ~Writes(y)
  BY StepWrites
<1>5. Writes(x) /\ WriteOf(rooms', x) = RoomWrite(r, RowOf(rooms', r))
  BY StepWrites
<1>6. RowOf(rooms', r) = row
  <2>1. rooms'[r] = n
    BY <1>1 DEF FeedInv, RoomsInv
  <2>. QED BY <2>1 DEF RowOf
<1>7. row \in RoomRow /\ row.name = nm
  <2>1. ops + 1 \in Nat
    BY DEF FeedInv
  <2>. QED BY <2>1 DEF RoomRow
<1>8. \A q \in RoomIds : rooms[q] # Absent => rooms[q].name # nm
  BY <1>1 DEF Taken, Exists
<1>9. LoadedRoom(row, <<>>) = n
  <2>1. Keep(<<>>, HistoryLimit) = <<>>
    <3>1. Len(<<>>) = 0 /\ 0 <= HistoryLimit
      BY FeedFacts
    <3>. QED BY <3>1 DEF Keep
  <2>. QED BY <2>1 DEF LoadedRoom
<1>. HIDE DEF r, n, row, x, y, s
<1>10. WritesAt(<<x, y>>, 1) /\ <<x, y>>[1] = x
  BY <1>4, <1>5, ShortWrites
<1>11. ASSUME Loaded(Stored) = rooms PROVE Settles(Stored, rooms', s)
  <2>. DEFINE d == Stored
  <2>1. Fits(d, rooms) /\ Loaded(d) = rooms
    BY <1>11, StoredFits
  <2>. HIDE DEF d
  <2>2. /\ ~Refuses(d, RoomWrite(r, row))
        /\ Loaded(Apply(d, RoomWrite(r, row))) = [rooms EXCEPT ![r] = LoadedRoom(row, <<>>)]
    BY <1>1, <1>2, <1>7, <1>8, <2>1, CreateLoaded
  <2>3. ~Refuses(d, WriteOf(rooms', x)) /\ Loaded(Apply(d, WriteOf(rooms', x))) = rooms'
    BY <1>1, <1>5, <1>6, <1>9, <2>2
  <2>4. Settles(d, rooms', <<x, y>>)
    BY <1>10, <2>3 DEF Settles
  <2>. QED BY <1>3, <2>4 DEF d
<1>. QED BY <1>1, <1>11, RestoreBegin

\* A topic is set: its write is queued first.
LEMMA RestoreTopic ==
    ASSUME FeedInv, RestoreInv, NEW t \in Threads, NEW r \in RoomIds, rooms[r] # Absent,
           NEW topic \in Topics, SetTopic(t, r, topic)
    PROVE  RestoreInv'
<1>. DEFINE w == TopicWrite(r, topic)
            x == Store(w)
            y == Deliver(Members(r), RoomTopic(r, topic))
            z == Post(r)
            s == <<x, y, z>>
<1>1. /\ rooms' = [rooms EXCEPT ![r].topic = topic]
      /\ CountOverlap /\ todo' = [todo EXCEPT ![t] = s] /\ UNCHANGED <<db, offered>>
  BY DEF SetTopic, Begin
<1>2. Writes(x) /\ WriteOf(rooms', x) = w /\ ~Writes(y) /\ ~Writes(z)
  BY StepWrites
<1>3. topic \in TopicVals
  BY DEF TopicVals
<1>. HIDE DEF x, y, z
<1>4. WritesAt(s, 1) /\ s[1] = x
  BY <1>2, ShortWrites
<1>. HIDE DEF s
<1>5. ASSUME Loaded(Stored) = rooms PROVE Settles(Stored, rooms', s)
  <2>. DEFINE d == Stored
  <2>1. Fits(d, rooms) /\ Loaded(d) = rooms
    BY <1>5, StoredFits
  <2>. HIDE DEF d
  <2>2. /\ ~Refuses(d, w)
        /\ Loaded(Apply(d, w)) = [rooms EXCEPT ![r] = [rooms[r] EXCEPT !.topic = topic]]
    BY <1>3, <2>1, TopicLoaded
  <2>. HIDE DEF w
  <2>3. Loaded(Apply(d, w)) = rooms'
    BY <1>1, <2>2
  <2>4. Settles(d, rooms', s)
    BY <1>2, <1>4, <2>2, <2>3 DEF Settles
  <2>. QED BY <2>4 DEF d
<1>. QED BY <1>1, <1>5, RestoreBegin

\* The session of a client ends.
LEMMA RestoreLeave ==
    ASSUME FeedInv, RestoreInv, NEW t \in Threads, NEW c \in Clients, NEW s, Leaves(t, c, s)
    PROVE  RestoreInv'
<1>1. /\ at[c] # 0 /\ CountOverlap /\ todo' = [todo EXCEPT ![t] = s]
      /\ UNCHANGED <<db, offered, rooms>>
      /\ s \in {LeftSteps(at[c]), KickedSteps(at[c])}
  BY DEF Leaves, Depart
<1>2. at[c] \in RoomIds /\ rooms[at[c]] # Absent
  BY <1>1, FeedFacts DEF FeedInv, PlacesInv
<1>3. Writeless(s)
  BY <1>1, <1>2, LeaveSteps DEF Writeless, Writes
<1>4. Loaded(Stored) = rooms => Settles(Stored, rooms', s)
  BY <1>1, <1>3 DEF Settles
<1>. QED BY <1>1, <1>4, RestoreBegin

\* The frames of a client.
LEMMA RestoreFrame ==
    ASSUME FeedInv, RestoreInv, NEW c \in Clients, Frame(c)
    PROVE  RestoreInv'
<1>1. c \in Viewers \cup {Absent} /\ "io" \in Threads
  BY FeedFacts DEF Threads
<1>2. at[c] # 0 => at[c] \in RoomIds /\ rooms[at[c]] # Absent
  BY FeedFacts DEF FeedInv, PlacesInv
<1>3. CASE Admit(c)
  <2>1. Writeless(<<Move(c, DefaultRoom, FALSE)>>)
    BY ShortWrites, StepWrites
  <2>. QED BY <1>1, <1>3, <2>1, RestoreOnly DEF Admit
<1>4. CASE HandleChat(c)
  <2>1. Writeless(<<Post(at[c])>>)
    BY ShortWrites, StepWrites
  <2>. QED BY <1>1, <1>4, <2>1, RestoreOnly DEF HandleChat
<1>5. CASE HandleQuestion(c)
  <2>1. /\ Writeless(<<Deliver({c}, RoomTopic(at[c], rooms[at[c]].topic))>>)
        /\ Writeless(<<Deliver({c}, RoomList(Counts))>>)
    BY ShortWrites, StepWrites
  <2>. QED BY <1>1, <1>5, <2>1, RestoreOnly DEF HandleQuestion
<1>6. CASE HandleDisconnect(c)
  BY <1>1, <1>6, AllLeave, RestoreLeave
<1>7. ASSUME NEW nm \in Names, HandleCreate(c, nm) PROVE RestoreInv'
  BY <1>1, <1>7, RestoreCreate DEF HandleCreate
<1>8. ASSUME NEW topic \in Topics, HandleTopic(c, topic) PROVE RestoreInv'
  BY <1>1, <1>2, <1>8, RestoreTopic DEF HandleTopic
<1>9. ASSUME NEW r \in RoomIds, JoinRoom("io", c, r) PROVE RestoreInv'
  <2>1. Writeless(<<Move(c, r, TRUE)>>)
    BY ShortWrites, StepWrites
  <2>. QED BY <1>1, <1>9, <2>1, RestoreOnly DEF JoinRoom
<1>10. ASSUME NEW v \in Viewers, SendPrivate("io", c, v) PROVE RestoreInv'
  <2>1. Writeless(<<Deliver({c, v}, Whisper)>>)
    BY ShortWrites, StepWrites
  <2>. QED BY <1>1, <1>10, <2>1, RestoreOnly DEF SendPrivate
<1>11. ASSUME NEW v \in Clients, OwnerKick(c, v) PROVE RestoreInv'
  BY <1>1, <1>11, AllLeave, RestoreLeave
<1>. QED BY <1>3, <1>4, <1>5, <1>6, <1>7, <1>8, <1>9, <1>10, <1>11 DEF Frame

\* The commands of the terminal.
LEMMA RestoreCommand ==
    ASSUME FeedInv, RestoreInv, LocalCommand \/ AdminCommand
    PROVE  RestoreInv'
<1>1. "terminal" \in Threads /\ Host \in Viewers \cup {Absent} /\ Absent \in Viewers \cup {Absent}
  BY FeedFacts DEF Threads
<1>2. at[Host] # 0 => at[Host] \in RoomIds /\ rooms[at[Host]] # Absent
  BY FeedFacts DEF FeedInv, PlacesInv
<1>3. ASSUME BeginOnly("terminal", <<Post(at[Host])>>) PROVE RestoreInv'
  <2>1. Writeless(<<Post(at[Host])>>)
    BY ShortWrites, StepWrites
  <2>. QED BY <1>1, <1>3, <2>1, RestoreOnly
<1>4. ASSUME BeginOnly("terminal", AllPosts) PROVE RestoreInv'
  <2>1. Writeless(AllPosts)
    BY AllPostsGood DEF Writeless, Writes
  <2>. QED BY <1>1, <1>4, <2>1, RestoreOnly
<1>5. ASSUME NEW nm \in Names, NEW owner \in Viewers \cup {Absent}, Create("terminal", nm, owner)
      PROVE  RestoreInv'
  BY <1>1, <1>5, RestoreCreate
<1>6. ASSUME NEW r \in RoomIds, rooms[r] # Absent, NEW topic \in Topics,
             SetTopic("terminal", r, topic)
      PROVE  RestoreInv'
  BY <1>1, <1>6, RestoreTopic
<1>7. ASSUME NEW r \in RoomIds, JoinRoom("terminal", Host, r) PROVE RestoreInv'
  <2>1. Writeless(<<Move(Host, r, TRUE)>>)
    BY ShortWrites, StepWrites
  <2>. QED BY <1>1, <1>7, <2>1, RestoreOnly DEF JoinRoom
<1>8. ASSUME NEW c \in Clients, SendPrivate("terminal", Host, c) PROVE RestoreInv'
  <2>1. Writeless(<<Deliver({Host, c}, Whisper)>>)
    BY ShortWrites, StepWrites
  <2>. QED BY <1>1, <1>8, <2>1, RestoreOnly DEF SendPrivate
<1>9. ASSUME NEW c \in Clients, Kick("terminal", c) PROVE RestoreInv'
  BY <1>1, <1>9, AllLeave, RestoreLeave
<1>10. CASE LocalCommand
  BY <1>1, <1>2, <1>3, <1>5, <1>6, <1>7, <1>8, <1>9, <1>10 DEF LocalCommand, Hosting
<1>11. CASE AdminCommand
  BY <1>1, <1>4, <1>5, <1>6, <1>9, <1>11 DEF AdminCommand, Exists
<1>. QED BY <1>10, <1>11

\* After the first start and after a restart nothing is queued, and the rooms
\* are those of the database.
LEMMA RestoreInit == Init => RestoreInv
<1>. SUFFICES ASSUME Init PROVE RestoreInv
  OBVIOUS
<1>1. /\ rooms = Loaded(db) /\ offered = <<>> /\ overlaps = 0
      /\ \A u \in Threads : todo[u] = <<>>
  BY DEF Init
<1>2. Stored = db
  BY <1>1, WrittenNothing DEF Stored
<1>3. "io" \in Threads /\ Settles(Stored, rooms, <<>>)
  BY <1>1, <1>2, SettlesNothing DEF Threads
<1>. QED BY <1>1, <1>3 DEF RestoreInv, StoredInv

\* So does a restart.
LEMMA RestoreRestart ==
    ASSUME Restart
    PROVE  RestoreInv'
<1>1. /\ rooms' = Loaded(db') /\ offered' = <<>> /\ overlaps' = 0
      /\ \A u \in Threads : todo'[u] = <<>>
  BY DEF Restart
<1>2. Stored' = db'
  BY <1>1, WrittenNothing DEF Stored
<1>3. "io" \in Threads /\ Settles(Stored', rooms', <<>>)
  BY <1>1, <1>2, SettlesNothing DEF Threads
<1>4. StoredInv'
  BY <1>1, <1>3 DEF StoredInv
<1>. QED BY <1>1, <1>4 DEF RestoreInv

\* Every step keeps the two together.
LEMMA RestoreStep == FeedInv /\ RestoreInv /\ [Next]_vars => RestoreInv'
<1>. SUFFICES ASSUME FeedInv, RestoreInv, [Next]_vars PROVE RestoreInv'
  OBVIOUS
<1>1. ASSUME NEW t \in Threads, ThreadStep(t) PROVE RestoreInv'
  <2>1. overlaps' = overlaps
    BY <1>1 DEF ThreadStep, PostStep, UsersStep, ListsStep, DeliverStep, StoreStep, PersistStep,
                MoveStep
  <2>2. ASSUME StoredInv PROVE StoredInv'
    BY <1>1, <2>2, StoredPost, StoredReads, StoredDeliver, StoredStore, StoredPersist
       DEF ThreadStep
  <2>. QED BY <2>1, <2>2 DEF RestoreInv, Raced
<1>2. ASSUME NEW c \in Clients, Frame(c) PROVE RestoreInv'
  BY <1>2, RestoreFrame
<1>3. CASE LocalCommand \/ AdminCommand
  BY <1>3, RestoreCommand
<1>4. CASE Restart
  BY <1>4, RestoreRestart
<1>5. CASE UNCHANGED vars
  BY <1>5 DEF vars, memory, RestoreInv, StoredInv, Stored, Raced
<1>. QED BY <1>1, <1>2, <1>3, <1>4, <1>5 DEF Next

\* When nothing is in progress and no two operations have overlapped, what is
\* queued for the database brings back exactly the rooms that are in memory.
THEOREM RestartBringsRoomsBack == Spec => []RestartRestores
<1>1. FeedInv /\ RestoreInv => RestartRestores
  <2>. SUFFICES ASSUME RestoreInv, Quiet, ~Raced PROVE Loaded(Written(db, offered, {})) = rooms
    BY DEF RestartRestores
  <2>1. PICK t \in Threads : Settles(Stored, rooms, todo[t])
    BY DEF RestoreInv, StoredInv
  <2>2. todo[t] = <<>>
    BY DEF Quiet, Idle
  <2>3. Loaded(Stored) = rooms
    BY <2>1, <2>2, SettlesNothing
  <2>. QED BY <2>3 DEF Stored
<1>. QED BY <1>1, FeedInit, FeedStep, RestoreInit, RestoreStep, PTL DEF Spec

-----------------------------------------------------------------------------
(***************************************************************************)
(* What the steps in a queue lead to.                                      *)
(***************************************************************************)

\* The rooms, the screens and the number of the last message.
State(rs, vw, n) == [rooms |-> rs, view |-> vw, posts |-> n]
Now == State(rooms, view, posts)

\* Members, Online and Counts, for users who are at a and rooms rs.
MembersAt(a, r) == {v \in Viewers : a[v] = r}
OnlineAt(a)     == {v \in Viewers : a[v] # 0}
CountsAt(a, rs) == [r \in {i \in RoomIds : rs[i] # Absent} |-> Cardinality(MembersAt(a, r))]

\* A frame is delivered.
Shows(p, to, f) ==
    State(p.rooms, [v \in Viewers |-> IF v \in to THEN Receive(v, p.view[v], f) ELSE p.view[v]],
          p.posts)

\* A message is posted, and delivered.
NewMessage(p, r) == [n |-> p.posts + 1, room |-> r, born |-> p.rooms[r].born]
Posted(p, r) ==
    State([p.rooms EXCEPT ![r].recent = Keep(Append(@, NewMessage(p, r)), HistoryLimit)],
          p.view, p.posts + 1)
TextAt(p, r) == RoomText(r, <<NewMessage(p, r)>>)

\* All that a step other than a move leads to.
After(a, p, c) ==
    CASE c.op = "deliver"    -> Shows(p, c.to, c.frame)
      [] c.op = "deliverAll" -> Shows(p, OnlineAt(a), c.frame)
      [] c.op = "post"  -> Shows(Posted(p, c.room), MembersAt(a, c.room), TextAt(p, c.room))
      [] c.op = "users" -> Shows(p, MembersAt(a, c.room), UserList(c.room, MembersAt(a, c.room)))
      [] c.op = "lists" -> Shows(p, OnlineAt(a), RoomList(CountsAt(a, p.rooms)))
      [] OTHER -> p

\* All that a queue leads to.
Draining(a, p, q) ==
    LET after[i \in 0 .. Len(q)] == IF i = 0 THEN p ELSE After(a, after[i - 1], q[i])
    IN  after
Drained(a, p, q) == Draining(a, p, q)[Len(q)]

-----------------------------------------------------------------------------
(***************************************************************************)
(* The inductive invariant.                                                *)
(***************************************************************************)

\* s is the end of t.
Ends(s, t) == Len(s) <= Len(t) /\ \A i \in 1 .. Len(s) : s[i] = t[Len(t) - Len(s) + i]

\* The messages of the room are without a gap up to the last one.
LinesFollow(v, lines, recent) ==
    \/ Ends(recent, RoomLines(lines))
    \/ (Len(lines) = MaxLines \/ v = Host) /\ Ends(RoomLines(lines), recent)

\* What viewer v is shown is right, part by part.
RoomRight(a, p, v)   == p.view[v].room = a[v] /\ p.view[v].topic = p.rooms[a[v]].topic
UsersRight(a, p, v)  ==
    v = Host \/ MembersAt(a, a[v]) \in Listable => p.view[v].users = MembersAt(a, a[v])
LinesRight(a, p, v)  == LinesFollow(v, p.view[v].lines, p.rooms[a[v]].recent)
CountsRight(a, p, v) == p.view[v].rooms = CountsAt(a, p.rooms)

\* The screens are right but for the sizes of the rooms, and altogether.
NearlyRight(a, p) ==
    \A v \in OnlineAt(a) : RoomRight(a, p, v) /\ UsersRight(a, p, v) /\ LinesRight(a, p, v)
AllRight(a, p) == NearlyRight(a, p) /\ \A v \in OnlineAt(a) : CountsRight(a, p, v)

\* A move to another room, which the old room is told of if there is one, of a
\* user who has not left.
MoveOK(a, p, c) ==
    /\ c.op = "move" /\ a[c.who] # c.room /\ p.view[c.who].room # Gone
    /\ c.tell \/ a[c.who] = 0

Moveless(q) == \A i \in 1 .. Len(q) : q[i].op # "move"

\* A queue makes the screens right, or it ends with a move and shows nothing
\* before it.
Catches(a, p, q) ==
    \/ Moveless(q) /\ AllRight(a, Drained(a, p, q))
    \/ /\ q # <<>> /\ NearlyRight(a, p) /\ MoveOK(a, p, q[Len(q)])
       /\ \A i \in 1 .. Len(q) - 1 : q[i].op \in {"persist", "store"}

CatchInv ==
    \E t \in Threads :
        (\A u \in Threads : u # t => todo[u] = <<>>) /\ Catches(at, Now, todo[t])

FollowInv == overlaps \in Nat /\ (~Raced => CatchInv)

-----------------------------------------------------------------------------
(***************************************************************************)
(* The end of a sequence.                                                  *)
(***************************************************************************)

\* The end of the end, and one more element.
LEMMA EndsFacts ==
    ASSUME NEW S, NEW s \in Seq(S), NEW t \in Seq(S)
    PROVE  /\ Ends(s, s) /\ Ends(<<>>, s) /\ Ends(t, s \o t)
           /\ \A u \in Seq(S) : Ends(s, t) /\ Ends(t, u) => Ends(s, u)
           /\ \A m \in S : Ends(s, t) => Ends(Append(s, m), Append(t, m))
<1>1. Len(s) \in Nat /\ Len(t) \in Nat
  OBVIOUS
<1>2. Ends(s, s)
  <2>1. \A i \in 1 .. Len(s) : Len(s) - Len(s) + i = i
    BY <1>1
  <2>. QED BY <1>1, <2>1 DEF Ends
<1>3. Ends(<<>>, s)
  BY <1>1 DEF Ends
<1>4. Ends(t, s \o t)
  <2>. DEFINE b == s \o t
  <2>1. Len(b) = Len(s) + Len(t) /\ \A i \in 1 .. Len(t) : b[Len(s) + i] = t[i]
    BY Joined
  <2>. HIDE DEF b
  <2>2. Len(t) <= Len(b) /\ \A i \in 1 .. Len(t) : Len(b) - Len(t) + i = Len(s) + i
    BY <1>1, <2>1
  <2>3. Ends(t, b)
    BY <2>1, <2>2 DEF Ends
  <2>. QED BY <2>3 DEF b
<1>5. ASSUME NEW u \in Seq(S), Ends(s, t), Ends(t, u) PROVE Ends(s, u)
  <2>1. Len(u) \in Nat /\ Len(s) <= Len(t) /\ Len(t) <= Len(u)
    BY <1>5 DEF Ends
  <2>2. ASSUME NEW i \in 1 .. Len(s) PROVE s[i] = u[Len(u) - Len(s) + i]
    <3>1. /\ Len(t) - Len(s) + i \in 1 .. Len(t)
          /\ Len(u) - Len(t) + (Len(t) - Len(s) + i) = Len(u) - Len(s) + i
      BY <1>1, <2>1
    <3>. QED BY <1>5, <3>1 DEF Ends
  <2>. QED BY <1>1, <2>1, <2>2 DEF Ends
<1>6. ASSUME NEW m \in S, Ends(s, t) PROVE Ends(Append(s, m), Append(t, m))
  <2>. DEFINE a == Append(s, m)
              b == Append(t, m)
  <2>1. /\ Len(a) = Len(s) + 1 /\ Len(b) = Len(t) + 1 /\ a[Len(s) + 1] = m /\ b[Len(t) + 1] = m
        /\ \A i \in 1 .. Len(s) : a[i] = s[i]
        /\ \A i \in 1 .. Len(t) : b[i] = t[i]
    OBVIOUS
  <2>. HIDE DEF a, b
  <2>2. Len(s) <= Len(t)
    BY <1>6 DEF Ends
  <2>3. ASSUME NEW i \in 1 .. Len(a) PROVE a[i] = b[Len(b) - Len(a) + i]
    <3>1. CASE i = Len(s) + 1
      <4>1. Len(b) - Len(a) + i = Len(t) + 1
        BY <1>1, <2>1, <3>1
      <4>. QED BY <2>1, <3>1, <4>1
    <3>2. CASE i # Len(s) + 1
      <4>1. /\ i \in 1 .. Len(s) /\ Len(b) - Len(a) + i = Len(t) - Len(s) + i
            /\ Len(t) - Len(s) + i \in 1 .. Len(t)
        BY <1>1, <2>1, <2>2, <3>2
      <4>. QED BY <1>6, <2>1, <4>1 DEF Ends
    <3>. QED BY <3>1, <3>2
  <2>4. Ends(a, b)
    BY <1>1, <2>1, <2>2, <2>3 DEF Ends
  <2>. QED BY <2>4 DEF a, b
<1>. QED BY <1>2, <1>3, <1>4, <1>5, <1>6

\* Of two ends of a sequence one is the end of the other.
LEMMA EndsEither ==
    ASSUME NEW S, NEW s \in Seq(S), NEW t \in Seq(S), NEW u \in Seq(S), Ends(s, u), Ends(t, u),
           Len(s) <= Len(t)
    PROVE  Ends(s, t)
<1>1. Len(s) \in Nat /\ Len(t) \in Nat /\ Len(u) \in Nat /\ Len(t) <= Len(u)
  BY DEF Ends
<1>2. ASSUME NEW i \in 1 .. Len(s) PROVE s[i] = t[Len(t) - Len(s) + i]
  <2>1. /\ Len(t) - Len(s) + i \in 1 .. Len(t)
        /\ Len(u) - Len(t) + (Len(t) - Len(s) + i) = Len(u) - Len(s) + i
    BY <1>1
  <2>2. s[i] = u[Len(u) - Len(s) + i]
    BY DEF Ends
  <2>3. t[Len(t) - Len(s) + i] = u[Len(u) - Len(t) + (Len(t) - Len(s) + i)]
    BY <2>1 DEF Ends
  <2>. QED BY <2>1, <2>2, <2>3
<1>. QED BY <1>2 DEF Ends

\* Keep leaves the end, all of it or as much as it may; from it the sequence is
\* what was dropped and what was kept.
LEMMA KeepEnds ==
    ASSUME NEW S, NEW s \in Seq(S), NEW n \in Nat
    PROVE  /\ Ends(Keep(s, n), s) /\ Keep(s, n) \in Seq(S)
           /\ Len(s) <= n => Keep(s, n) = s
           /\ Len(s) > n => Len(Keep(s, n)) = n
<1>. DEFINE k == Keep(s, n)
<1>1. Len(s) \in Nat /\ k \in Seq(S)
  <2>1. k \in Seq(S)
    BY KeepIn
  <2>. QED BY <2>1
<1>2. CASE Len(s) <= n
  <2>1. k = s
    BY <1>2 DEF Keep
  <2>. HIDE DEF k
  <2>2. Ends(k, s)
    BY <2>1, EndsFacts
  <2>3. ~(Len(s) > n)
    BY <1>1, <1>2
  <2>. QED BY <1>1, <2>1, <2>2, <2>3 DEF k
<1>3. CASE ~(Len(s) <= n)
  <2>. DEFINE l == Len(s)
  <2>1. k = SubSeq(s, l - n + 1, l) /\ l > n
    BY <1>1, <1>3 DEF Keep, Latest
  <2>. HIDE DEF k
  <2>2. Len(k) = n /\ \A i \in 1 .. n : k[i] = s[l - n + i]
    <3>1. CASE n = 0
      <4>1. l - n + 1 = l + 1
        BY <1>1, <3>1
      <4>2. Len(SubSeq(s, l + 1, l)) = 0
        BY <1>1
      <4>. QED BY <2>1, <3>1, <4>1, <4>2
    <3>2. CASE n # 0
      <4>1. /\ l - n + 1 \in 1 .. l /\ l \in 1 .. l /\ l - (l - n + 1) + 1 = n
            /\ \A i \in 1 .. n : l - n + i = (l - n + 1) + i - 1 /\ l - n + i \in 1 .. l
        BY <1>1, <2>1, <3>2
      <4>2. Len(k) = n /\ \A i \in 1 .. n : k[i] = s[(l - n + 1) + i - 1]
        <5>. DEFINE lo == l - n + 1
        <5>1. lo \in 1 .. l /\ l \in 1 .. l /\ lo <= l /\ l - lo + 1 = n
          BY <1>1, <2>1, <4>1
        <5>2. k = SubSeq(s, lo, l)
          BY <2>1
        <5>. HIDE DEF lo
        <5>3. Len(k) = n /\ \A i \in 1 .. n : k[i] = s[lo + i - 1]
          BY <5>1, <5>2, PartOf
        <5>. QED BY <5>3 DEF lo
      <4>. QED BY <4>1, <4>2
    <3>. QED BY <3>1, <3>2
  <2>3. Ends(k, s)
    BY <1>1, <2>1, <2>2 DEF Ends
  <2>. QED BY <1>1, <1>3, <2>2, <2>3 DEF k
<1>. QED BY <1>2, <1>3

\* The end of a sequence is a suffix of it.
LEMMA EndsSuffix ==
    ASSUME NEW S, NEW s \in Seq(S), NEW t \in Seq(S), Ends(s, t)
    PROVE  IsSuffix(s, t)
<1>. DEFINE a == Reverse(s)
            b == Reverse(t)
            n == Len(s)
            m == Len(t)
<1>1. n \in Nat /\ m \in Nat /\ n <= m
  BY DEF Ends
<1>2. /\ \A i \in 1 .. n : (n - i) + 1 \in 1 .. n
      /\ \A i \in 1 .. m : (m - i) + 1 \in 1 .. m
  BY <1>1
<1>3. /\ a \in [1 .. n -> S] /\ \A i \in 1 .. n : a[i] = s[(n - i) + 1]
      /\ b \in [1 .. m -> S] /\ \A i \in 1 .. m : b[i] = t[(m - i) + 1]
  BY <1>2 DEF Reverse
<1>. HIDE DEF a, b
<1>4. a \in Seq(S) /\ Len(a) = n /\ b \in Seq(S) /\ Len(b) = m
  <2>1. a \in Seq(S) /\ b \in Seq(S)
    BY <1>1, <1>3, SeqDef
  <2>2. DOMAIN a = 1 .. n /\ DOMAIN b = 1 .. m
    BY <1>3
  <2>. QED BY <1>1, <2>1, <2>2
<1>5. ASSUME NEW i \in 1 .. n PROVE a[i] = b[i]
  <2>1. /\ (n - i) + 1 \in 1 .. n /\ m - n + ((n - i) + 1) = (m - i) + 1 /\ i \in 1 .. m
    BY <1>1
  <2>2. s[(n - i) + 1] = t[m - n + ((n - i) + 1)]
    BY <2>1 DEF Ends
  <2>. QED BY <1>3, <2>1, <2>2
<1>6. SubSeq(a, 1, n) = SubSeq(b, 1, n)
  <2>. DEFINE x == SubSeq(a, 1, n)
              y == SubSeq(b, 1, n)
  <2>1. /\ x \in Seq(S) /\ y \in Seq(S) /\ Len(x) = n /\ Len(y) = n
        /\ \A i \in 1 .. n : x[i] = a[i]
        /\ \A i \in 1 .. n : y[i] = b[i]
    BY <1>1, <1>4
  <2>. HIDE DEF x, y
  <2>2. x = y
    BY <1>5, <2>1, SeqEqual
  <2>. QED BY <2>2 DEF x, y
<1>7. IsPrefix(a, b)
  BY <1>1, <1>4, <1>6 DEF IsPrefix
<1>. QED BY <1>7 DEF IsSuffix, a, b

-----------------------------------------------------------------------------
(***************************************************************************)
(* The lines of a room among those of a screen.                            *)
(***************************************************************************)

\* One line is selected or not.
Select(sel, m) == IF m.room = 0 THEN sel ELSE Append(sel, m)

\* The selections that a sequence of lines leads through.
IsSelecting(f, lines, n) ==
    f = [i \in 0 .. n |-> IF i = 0 THEN <<>> ELSE Select(f[i - 1], lines[i])]

\* There are such selections.
LEMMA SelectingExists ==
    ASSUME NEW lines
    PROVE  \A n \in Nat : \E f : IsSelecting(f, lines, n)
<1>. DEFINE S == {n \in Nat : \E f : IsSelecting(f, lines, n)}
<1>1. 0 \in S
  <2>. DEFINE f == [i \in 0 .. 0 |-> <<>>]
  <2>1. IsSelecting(f, lines, 0)
    BY DEF IsSelecting
  <2>. QED BY <2>1
<1>2. ASSUME NEW n \in Nat, n \in S PROVE n + 1 \in S
  <2>1. PICK f : IsSelecting(f, lines, n)
    BY <1>2
  <2>. DEFINE next(i) == IF i = 0 THEN <<>> ELSE Select(f[i - 1], lines[i])
              g == [i \in 0 .. n + 1 |-> next(i)]
  <2>2. ASSUME NEW i \in 0 .. n PROVE g[i] = f[i]
    <3>1. f[i] = next(i)
      BY <2>1 DEF IsSelecting
    <3>2. g[i] = next(i)
      <4>1. i \in 0 .. n + 1
        OBVIOUS
      <4>. HIDE DEF next
      <4>. QED BY <4>1
    <3>. QED BY <3>1, <3>2
  <2>3. ASSUME NEW i \in 0 .. n + 1
        PROVE  next(i) = IF i = 0 THEN <<>> ELSE Select(g[i - 1], lines[i])
    <3>1. CASE i = 0
      BY <3>1
    <3>2. CASE i # 0
      <4>1. i - 1 \in 0 .. n
        BY <3>2
      <4>2. g[i - 1] = f[i - 1]
        BY <2>2, <4>1
      <4>. HIDE DEF g
      <4>. QED BY <3>2, <4>2
    <3>. QED BY <3>1, <3>2
  <2>4. IsSelecting(g, lines, n + 1)
    <3>1. g = [i \in 0 .. n + 1 |-> IF i = 0 THEN <<>> ELSE Select(g[i - 1], lines[i])]
      BY <2>3
    <3>. QED BY <3>1 DEF IsSelecting
  <2>. QED BY <2>4
<1>3. Nat \subseteq S
  <2>. HIDE DEF S
  <2>. QED BY <1>1, <1>2, SetInduction
<1>. QED BY <1>3

\* Selecting chooses them.
LEMMA SelectingIs ==
    ASSUME NEW S, NEW lines \in Seq(S)
    PROVE  /\ Selecting(lines)[0] = <<>>
           /\ \A i \in 1 .. Len(lines) :
                 Selecting(lines)[i] = Select(Selecting(lines)[i - 1], lines[i])
<1>. DEFINE n == Len(lines)
            f == Selecting(lines)
<1>1. n \in Nat
  OBVIOUS
<1>2. f = CHOOSE upTo : upTo = [i \in 0 .. n |-> IF i = 0 THEN <<>>
              ELSE IF lines[i].room = 0 THEN upTo[i - 1] ELSE Append(upTo[i - 1], lines[i])]
  BY DEF Selecting
<1>. HIDE DEF f, n
<1>3. \E upTo : upTo = [i \in 0 .. n |-> IF i = 0 THEN <<>>
              ELSE IF lines[i].room = 0 THEN upTo[i - 1] ELSE Append(upTo[i - 1], lines[i])]
  <2>1. PICK g : IsSelecting(g, lines, n)
    BY <1>1, SelectingExists
  <2>2. g = [i \in 0 .. n |-> IF i = 0 THEN <<>>
                ELSE IF lines[i].room = 0 THEN g[i - 1] ELSE Append(g[i - 1], lines[i])]
    BY <2>1 DEF IsSelecting, Select
  <2>. QED BY <2>2
<1>4. f = [i \in 0 .. n |-> IF i = 0 THEN <<>>
              ELSE IF lines[i].room = 0 THEN f[i - 1] ELSE Append(f[i - 1], lines[i])]
  BY <1>2, <1>3
<1>5. f[0] = <<>>
  BY <1>1, <1>4
<1>6. ASSUME NEW i \in 1 .. n PROVE f[i] = Select(f[i - 1], lines[i])
  <2>1. i \in 0 .. n /\ i # 0
    BY <1>1
  <2>. QED BY <1>4, <2>1 DEF Select
<1>. QED BY <1>5, <1>6 DEF f, n

\* A selection is of the lines.
LEMMA SelectedIn ==
    ASSUME NEW S, NEW lines \in Seq(S)
    PROVE  /\ \A i \in 0 .. Len(lines) : Selecting(lines)[i] \in Seq(S)
           /\ RoomLines(lines) \in Seq(S)
<1>. DEFINE n == Len(lines)
            f == Selecting(lines)
            T == {i \in Nat : i <= n => f[i] \in Seq(S)}
<1>1. n \in Nat
  OBVIOUS
<1>2. f[0] = <<>> /\ \A i \in 1 .. n : f[i] = Select(f[i - 1], lines[i])
  BY SelectingIs
<1>. HIDE DEF f
<1>3. 0 \in T
  BY <1>2, Short
<1>4. ASSUME NEW i \in Nat, i \in T PROVE i + 1 \in T
  <2>1. CASE i + 1 <= n
    <3>1. i + 1 \in 1 .. n /\ (i + 1) - 1 = i /\ i <= n
      BY <1>1, <2>1
    <3>2. f[i] \in Seq(S) /\ lines[i + 1] \in S
      BY <1>4, <3>1
    <3>3. f[i + 1] = Select(f[(i + 1) - 1], lines[i + 1])
      BY <1>2, <3>1
    <3>4. f[i + 1] = Select(f[i], lines[i + 1])
      BY <3>1, <3>3
    <3>5. f[i + 1] \in Seq(S)
      BY <3>2, <3>4 DEF Select
    <3>. QED BY <3>5
  <2>2. CASE ~(i + 1 <= n)
    BY <2>2
  <2>. QED BY <2>1, <2>2
<1>5. Nat \subseteq T
  <2>. HIDE DEF T
  <2>. QED BY <1>3, <1>4, SetInduction
<1>6. \A i \in 0 .. n : f[i] \in Seq(S)
  BY <1>1, <1>5
<1>7. f[n] \in Seq(S)
  BY <1>1, <1>6
<1>. QED BY <1>6, <1>7 DEF RoomLines, f

\* The lines after the first k: what is selected of them is the end of what is
\* selected of all.
LEMMA SelectedRest ==
    ASSUME NEW S, NEW lines \in Seq(S), NEW rest \in Seq(S), Ends(rest, lines)
    PROVE  Ends(RoomLines(rest), RoomLines(lines))
<1>. DEFINE n == Len(lines)
            m == Len(rest)
            k == n - m
            f == Selecting(lines)
            g == Selecting(rest)
            Split(i) == f[k + i] = f[k] \o g[i]
            T == {i \in Nat : i <= m => Split(i)}
<1>1. n \in Nat /\ m \in Nat /\ k \in Nat /\ k <= n /\ k + m = n
  BY DEF Ends
<1>2. /\ g[0] = <<>> /\ \A i \in 1 .. m : g[i] = Select(g[i - 1], rest[i])
      /\ \A i \in 0 .. m : g[i] \in Seq(S)
  BY SelectingIs, SelectedIn
<1>3. /\ \A i \in 1 .. n : f[i] = Select(f[i - 1], lines[i])
      /\ \A i \in 0 .. n : f[i] \in Seq(S)
  BY SelectingIs, SelectedIn
<1>4. \A i \in 1 .. m : rest[i] = lines[k + i] /\ rest[i] \in S
  BY DEF Ends
<1>. HIDE DEF f, g, k, n, m
<1>5. f[k] \in Seq(S)
  BY <1>1, <1>3
<1>6. 0 \in T
  <2>1. k + 0 = k
    BY <1>1
  <2>2. f[k] \o <<>> = f[k]
    BY <1>5
  <2>3. Split(0)
    BY <1>2, <2>1, <2>2
  <2>. HIDE DEF Split
  <2>. QED BY <2>3
<1>7. ASSUME NEW i \in Nat, i \in T PROVE i + 1 \in T
  <2>1. CASE i + 1 <= m
    <3>1. /\ i + 1 \in 1 .. m /\ (i + 1) - 1 = i /\ i <= m /\ i \in 0 .. m
          /\ k + (i + 1) \in 1 .. n /\ (k + (i + 1)) - 1 = k + i
      BY <1>1, <2>1
    <3>2. Split(i) /\ g[i] \in Seq(S)
      <4>. HIDE DEF Split
      <4>. QED BY <1>2, <1>7, <3>1
    <3>3. g[i + 1] = Select(g[i], rest[i + 1])
      <4>1. g[i + 1] = Select(g[(i + 1) - 1], rest[i + 1])
        BY <1>2, <3>1
      <4>. QED BY <3>1, <4>1
    <3>4. f[k + (i + 1)] = Select(f[k + i], lines[k + (i + 1)])
      <4>1. f[k + (i + 1)] = Select(f[(k + (i + 1)) - 1], lines[k + (i + 1)])
        BY <1>3, <3>1
      <4>. QED BY <3>1, <4>1
    <3>5. lines[k + (i + 1)] = rest[i + 1] /\ rest[i + 1] \in S
      BY <1>4, <3>1
    <3>. DEFINE a == f[k]
                b == g[i]
                x == rest[i + 1]
    <3>6. Append(a \o b, x) = a \o Append(b, x)
      <4>1. a \in Seq(S) /\ b \in Seq(S) /\ x \in S
        BY <1>5, <3>2, <3>5
      <4>. HIDE DEF a, b, x
      <4>2. Append(a \o b, x) = (a \o b) \o <<x>> /\ Append(b, x) = b \o <<x>>
        BY <4>1, AppendIsConcat, Joined
      <4>3. (a \o b) \o <<x>> = a \o (b \o <<x>>)
        BY <4>1, ConcatAssociative, Short
      <4>. QED BY <4>2, <4>3
    <3>7. Select(a \o b, x) = a \o Select(b, x)
      <4>. HIDE DEF a, b, x
      <4>. QED BY <3>6 DEF Select
    <3>8. Split(i + 1)
      BY <3>2, <3>3, <3>4, <3>5, <3>7
    <3>. HIDE DEF Split
    <3>. QED BY <3>8
  <2>2. CASE ~(i + 1 <= m)
    <3>. HIDE DEF Split
    <3>. QED BY <2>2
  <2>. QED BY <2>1, <2>2
<1>8. Nat \subseteq T
  <2>. HIDE DEF T
  <2>. QED BY <1>6, <1>7, SetInduction
<1>9. f[n] = f[k] \o g[m] /\ g[m] \in Seq(S)
  <2>1. Split(m)
    <3>. HIDE DEF Split
    <3>. QED BY <1>1, <1>8
  <2>2. m \in 0 .. m /\ k + m = n
    BY <1>1
  <2>3. f[n] = f[k] \o g[m]
    BY <2>1, <2>2
  <2>. QED BY <1>2, <2>2, <2>3
<1>10. Ends(g[m], f[n])
  BY <1>5, <1>9, EndsFacts
<1>. QED BY <1>10 DEF RoomLines, f, g, n, m

\* One more line.
LEMMA SelectedAppend ==
    ASSUME NEW S, NEW lines \in Seq(S), NEW x \in S
    PROVE  RoomLines(Append(lines, x)) = Select(RoomLines(lines), x)
<1>. DEFINE n == Len(lines)
            more == Append(lines, x)
            f == Selecting(lines)
            g == Selecting(more)
            T == {i \in Nat : i <= n => f[i] = g[i]}
<1>1. /\ n \in Nat /\ more \in Seq(S) /\ Len(more) = n + 1 /\ more[n + 1] = x
      /\ \A i \in 1 .. n : more[i] = lines[i]
  OBVIOUS
<1>. HIDE DEF more
<1>2. f[0] = <<>> /\ \A i \in 1 .. n : f[i] = Select(f[i - 1], lines[i])
  BY SelectingIs
<1>3. g[0] = <<>> /\ \A i \in 1 .. n + 1 : g[i] = Select(g[i - 1], more[i])
  BY <1>1, SelectingIs
<1>. HIDE DEF f, g
<1>4. 0 \in T
  BY <1>2, <1>3
<1>5. ASSUME NEW i \in Nat, i \in T PROVE i + 1 \in T
  <2>1. CASE i + 1 <= n
    <3>1. i + 1 \in 1 .. n /\ i + 1 \in 1 .. n + 1 /\ (i + 1) - 1 = i /\ i <= n
      BY <1>1, <2>1
    <3>2. f[i] = g[i] /\ more[i + 1] = lines[i + 1]
      BY <1>1, <1>5, <3>1
    <3>3. f[i + 1] = Select(f[(i + 1) - 1], lines[i + 1])
      BY <1>2, <3>1
    <3>4. g[i + 1] = Select(g[(i + 1) - 1], more[i + 1])
      BY <1>3, <3>1
    <3>5. f[i + 1] = g[i + 1]
      BY <3>1, <3>2, <3>3, <3>4
    <3>. QED BY <3>5
  <2>2. CASE ~(i + 1 <= n)
    BY <2>2
  <2>. QED BY <2>1, <2>2
<1>6. Nat \subseteq T
  <2>. HIDE DEF T
  <2>. QED BY <1>4, <1>5, SetInduction
<1>7. f[n] = g[n]
  BY <1>1, <1>6
<1>8. g[n + 1] = Select(g[n], x)
  <2>1. n + 1 \in 1 .. n + 1 /\ (n + 1) - 1 = n
    BY <1>1
  <2>2. g[n + 1] = Select(g[(n + 1) - 1], more[n + 1])
    BY <1>3, <2>1
  <2>. QED BY <1>1, <2>1, <2>2
<1>9. RoomLines(lines) = f[n] /\ RoomLines(more) = g[n + 1]
  BY <1>1 DEF RoomLines, f, g
<1>. QED BY <1>7, <1>8, <1>9 DEF more

\* Of messages of rooms all are selected.
LEMMA SelectedAll ==
    ASSUME NEW S, NEW lines \in Seq(S), \A m \in S : m.room # 0
    PROVE  RoomLines(lines) = lines
<1>. DEFINE n == Len(lines)
            f == Selecting(lines)
            Same(i) == /\ f[i] \in Seq(S) /\ Len(f[i]) = i
                       /\ \A j \in 1 .. i : f[i][j] = lines[j]
            T == {i \in Nat : i <= n => Same(i)}
<1>1. n \in Nat
  OBVIOUS
<1>2. f[0] = <<>> /\ \A i \in 1 .. n : f[i] = Select(f[i - 1], lines[i])
  BY SelectingIs
<1>. HIDE DEF f
<1>3. 0 \in T
  <2>1. <<>> \in Seq(S) /\ Len(<<>>) = 0 /\ 1 .. 0 = {}
    BY Short
  <2>2. Same(0)
    BY <1>2, <2>1
  <2>. QED BY <2>2
<1>4. ASSUME NEW i \in Nat, i \in T PROVE i + 1 \in T
  <2>1. CASE i + 1 <= n
    <3>1. i + 1 \in 1 .. n /\ (i + 1) - 1 = i /\ i <= n
      BY <1>1, <2>1
    <3>2. Same(i) /\ lines[i + 1] \in S
      BY <1>4, <3>1
    <3>3. f[i + 1] = Select(f[(i + 1) - 1], lines[i + 1])
      BY <1>2, <3>1
    <3>4. f[i + 1] = Append(f[i], lines[i + 1])
      BY <3>1, <3>2, <3>3 DEF Select
    <3>. DEFINE a == f[i]
                x == lines[i + 1]
                b == Append(a, x)
    <3>5. /\ b \in Seq(S) /\ Len(b) = i + 1 /\ b[i + 1] = x
          /\ \A j \in 1 .. i : b[j] = a[j]
      <4>1. a \in Seq(S) /\ Len(a) = i /\ x \in S
        BY <3>2
      <4>. HIDE DEF a, x
      <4>. QED BY <4>1
    <3>6. \A j \in 1 .. i : a[j] = lines[j]
      BY <3>2
    <3>. HIDE DEF b
    <3>7. \A j \in 1 .. i + 1 : j = i + 1 \/ j \in 1 .. i
      OBVIOUS
    <3>8. \A j \in 1 .. i + 1 : b[j] = lines[j]
      BY <3>5, <3>6, <3>7
    <3>9. Same(i + 1)
      BY <3>4, <3>5, <3>8 DEF b
    <3>. QED BY <3>9
  <2>2. CASE ~(i + 1 <= n)
    BY <2>2
  <2>. QED BY <2>1, <2>2
<1>5. Nat \subseteq T
  <2>. HIDE DEF T
  <2>. QED BY <1>3, <1>4, SetInduction
<1>6. Same(n)
  BY <1>1, <1>5
<1>7. f[n] = lines
  BY <1>6, SeqEqual
<1>. QED BY <1>7 DEF RoomLines, f

\* A message of the room is added to the screen and to recent_messages.
LEMMA LinesPosted ==
    ASSUME NEW v, NEW lines \in Seq(Message), NEW recent \in Seq(Message), NEW m \in Message,
           m.room # 0, LinesFollow(v, lines, recent)
    PROVE  LinesFollow(v, Keep(lines \o <<m>>, MaxLines), Keep(Append(recent, m), HistoryLimit))
<1>. DEFINE all == Append(lines, m)
            kept == Keep(all, MaxLines)
            more == Append(recent, m)
            new == Keep(more, HistoryLimit)
            l == RoomLines(lines)
            k == RoomLines(kept)
<1>1. MaxLines \in Nat /\ HistoryLimit \in Nat
  BY FeedFacts
<1>2. lines \o <<m>> = all /\ all \in Seq(Message) /\ more \in Seq(Message)
  BY AppendIsConcat
<1>3. Len(all) = Len(lines) + 1 /\ Len(lines) \in Nat
  OBVIOUS
<1>4. l \in Seq(Message) /\ Append(l, m) \in Seq(Message)
  <2>1. l \in Seq(Message)
    BY SelectedIn
  <2>. HIDE DEF l
  <2>. QED BY <2>1
<1>5. RoomLines(all) = Append(l, m)
  BY SelectedAppend DEF Select
<1>. HIDE DEF all, more, l
<1>6. /\ Ends(kept, all) /\ kept \in Seq(Message)
      /\ Len(all) <= MaxLines => kept = all
      /\ Len(all) > MaxLines => Len(kept) = MaxLines
  BY <1>1, <1>2, KeepEnds
<1>7. Ends(new, more) /\ new \in Seq(Message)
  BY <1>1, <1>2, KeepEnds
<1>. HIDE DEF kept, new
<1>8. k \in Seq(Message) /\ Ends(k, Append(l, m))
  BY <1>2, <1>5, <1>6, SelectedIn, SelectedRest
<1>9. kept = all => k = Append(l, m)
  BY <1>5
<1>. HIDE DEF k
<1>10. Len(k) \in Nat /\ Len(new) \in Nat
  BY <1>7, <1>8
<1>11. LinesFollow(v, kept, new)
  <2>1. CASE Ends(recent, l)
    <3>1. Ends(new, Append(l, m))
      <4>1. Ends(more, Append(l, m))
        BY <1>4, <2>1, EndsFacts DEF more
      <4>. QED BY <1>2, <1>4, <1>7, <4>1, EndsFacts
    <3>2. CASE Len(new) <= Len(k)
      <4>1. Ends(new, k)
        BY <1>4, <1>7, <1>8, <3>1, <3>2, EndsEither
      <4>. QED BY <4>1 DEF LinesFollow, k
    <3>3. CASE ~(Len(new) <= Len(k))
      <4>1. Ends(k, new)
        <5>1. Len(k) <= Len(new)
          BY <1>10, <3>3
        <5>. QED BY <1>4, <1>7, <1>8, <3>1, <5>1, EndsEither
      <4>2. kept # all
        BY <1>9, <3>1, <3>3 DEF Ends
      <4>3. Len(kept) = MaxLines
        BY <1>1, <1>3, <1>6, <4>2
      <4>. QED BY <4>1, <4>3 DEF LinesFollow, k
    <3>. QED BY <3>2, <3>3
  <2>2. CASE (Len(lines) = MaxLines \/ v = Host) /\ Ends(l, recent)
    <3>1. Ends(k, more)
      <4>1. Ends(Append(l, m), more)
        BY <1>4, <2>2, EndsFacts DEF more
      <4>. DEFINE x == Append(l, m)
      <4>2. x \in Seq(Message) /\ Ends(k, x) /\ Ends(x, more)
        BY <1>4, <1>8, <4>1
      <4>. HIDE DEF x
      <4>. QED BY <1>2, <1>8, <4>2, EndsFacts
    <3>2. Len(kept) = MaxLines \/ v = Host
      BY <1>1, <1>3, <1>6, <2>2
    <3>3. CASE Len(new) <= Len(k)
      <4>1. Ends(new, k)
        BY <1>2, <1>7, <1>8, <3>1, <3>3, EndsEither
      <4>. QED BY <4>1 DEF LinesFollow, k
    <3>4. CASE ~(Len(new) <= Len(k))
      <4>1. Len(k) <= Len(new)
        BY <1>10, <3>4
      <4>2. Ends(k, new)
        BY <1>2, <1>7, <1>8, <3>1, <4>1, EndsEither
      <4>. QED BY <3>2, <4>2 DEF LinesFollow, k
    <3>. QED BY <3>3, <3>4
  <2>. QED BY <2>1, <2>2 DEF LinesFollow, l
<1>. QED BY <1>2, <1>11 DEF kept, new, more

\* A private message is added to the screen.
LEMMA LinesWhispered ==
    ASSUME NEW v, NEW lines \in Seq(Message), NEW recent \in Seq(Message),
           LinesFollow(v, lines, recent)
    PROVE  LinesFollow(v, Keep(lines \o <<PrivateLine>>, MaxLines), recent)
<1>. DEFINE all == Append(lines, PrivateLine)
            kept == Keep(all, MaxLines)
            l == RoomLines(lines)
            k == RoomLines(kept)
<1>1. MaxLines \in Nat /\ PrivateLine \in Message /\ PrivateLine.room = 0
  BY FeedFacts DEF PrivateLine, Message
<1>2. lines \o <<PrivateLine>> = all /\ all \in Seq(Message)
  BY <1>1, AppendIsConcat
<1>3. Len(all) = Len(lines) + 1 /\ Len(lines) \in Nat
  OBVIOUS
<1>4. l \in Seq(Message)
  BY SelectedIn
<1>5. RoomLines(all) = l
  BY <1>1, SelectedAppend DEF Select
<1>. HIDE DEF all, l
<1>6. /\ Ends(kept, all) /\ kept \in Seq(Message)
      /\ Len(all) <= MaxLines => kept = all
      /\ Len(all) > MaxLines => Len(kept) = MaxLines
  BY <1>1, <1>2, KeepEnds
<1>. HIDE DEF kept
<1>7. k \in Seq(Message) /\ Ends(k, l)
  BY <1>2, <1>5, <1>6, SelectedIn, SelectedRest
<1>8. kept = all => k = l
  BY <1>5
<1>. HIDE DEF k
<1>9. LinesFollow(v, kept, recent)
  <2>1. CASE Ends(recent, l)
    <3>1. CASE Len(recent) <= Len(k)
      <4>1. Ends(recent, k)
        BY <1>4, <1>7, <2>1, <3>1, EndsEither
      <4>. QED BY <4>1 DEF LinesFollow, k
    <3>2. CASE ~(Len(recent) <= Len(k))
      <4>1. Len(k) <= Len(recent)
        <5>1. Len(k) \in Nat /\ Len(recent) \in Nat
          BY <1>7
        <5>. QED BY <3>2, <5>1
      <4>2. Ends(k, recent)
        BY <1>4, <1>7, <2>1, <4>1, EndsEither
      <4>3. kept # all
        BY <1>8, <2>1, <3>2 DEF Ends
      <4>4. Len(kept) = MaxLines
        BY <1>1, <1>3, <1>6, <4>3
      <4>. QED BY <4>2, <4>4 DEF LinesFollow, k
    <3>. QED BY <3>1, <3>2
  <2>2. CASE (Len(lines) = MaxLines \/ v = Host) /\ Ends(l, recent)
    <3>1. Ends(k, recent)
      BY <1>4, <1>7, <2>2, EndsFacts
    <3>2. Len(kept) = MaxLines \/ v = Host
      BY <1>1, <1>3, <1>6, <2>2
    <3>. QED BY <3>1, <3>2 DEF LinesFollow, k
  <2>. QED BY <2>1, <2>2 DEF LinesFollow, l
<1>. QED BY <1>2, <1>9 DEF kept

\* The history is shown on an empty screen.
LEMMA LinesEntered ==
    ASSUME NEW v, NEW S, NEW recent \in Seq(S), \A m \in S : m.room # 0
    PROVE  LinesFollow(v, Keep(<<>> \o recent, MaxLines), recent)
<1>. DEFINE kept == Keep(recent, MaxLines)
<1>1. MaxLines \in Nat /\ <<>> \o recent = recent /\ Len(recent) \in Nat
  BY FeedFacts, ConcatEmptySeq
<1>2. /\ Ends(kept, recent) /\ kept \in Seq(S)
      /\ Len(recent) <= MaxLines => kept = recent
      /\ Len(recent) > MaxLines => Len(kept) = MaxLines
  BY <1>1, KeepEnds
<1>. HIDE DEF kept
<1>3. RoomLines(kept) = kept
  BY <1>2, SelectedAll
<1>4. kept = recent \/ Len(kept) = MaxLines
  BY <1>1, <1>2
<1>5. LinesFollow(v, kept, recent)
  BY <1>2, <1>3, <1>4 DEF LinesFollow
<1>. QED BY <1>1, <1>5 DEF kept

\* The host's screen is empty at the start.
LEMMA LinesStarted ==
    ASSUME NEW S, NEW recent \in Seq(S)
    PROVE  LinesFollow(Host, <<>>, recent)
<1>1. <<>> \in Seq({}) /\ Len(<<>>) = 0
  BY Short
<1>2. RoomLines(<<>>) = <<>>
  BY <1>1, SelectingIs DEF RoomLines
<1>3. Ends(<<>>, recent)
  BY EndsFacts
<1>. QED BY <1>2, <1>3 DEF LinesFollow

-----------------------------------------------------------------------------
(***************************************************************************)
(* Queues, one after the other.                                            *)
(***************************************************************************)

\* The states that a queue leads through.
IsDraining(f, a, p, q, n) ==
    f = [i \in 0 .. n |-> IF i = 0 THEN p ELSE After(a, f[i - 1], q[i])]

\* There are such states.
LEMMA DrainingExists ==
    ASSUME NEW a, NEW p, NEW q
    PROVE  \A n \in Nat : \E f : IsDraining(f, a, p, q, n)
<1>. DEFINE S == {n \in Nat : \E f : IsDraining(f, a, p, q, n)}
<1>1. 0 \in S
  <2>. DEFINE f == [i \in 0 .. 0 |-> p]
  <2>1. IsDraining(f, a, p, q, 0)
    BY DEF IsDraining
  <2>. QED BY <2>1
<1>2. ASSUME NEW n \in Nat, n \in S PROVE n + 1 \in S
  <2>1. PICK f : IsDraining(f, a, p, q, n)
    BY <1>2
  <2>. DEFINE next(i) == IF i = 0 THEN p ELSE After(a, f[i - 1], q[i])
              g == [i \in 0 .. n + 1 |-> next(i)]
  <2>2. ASSUME NEW i \in 0 .. n PROVE g[i] = f[i]
    <3>1. f[i] = next(i)
      BY <2>1 DEF IsDraining
    <3>2. g[i] = next(i)
      <4>1. i \in 0 .. n + 1
        OBVIOUS
      <4>. HIDE DEF next
      <4>. QED BY <4>1
    <3>. QED BY <3>1, <3>2
  <2>3. ASSUME NEW i \in 0 .. n + 1
        PROVE  next(i) = IF i = 0 THEN p ELSE After(a, g[i - 1], q[i])
    <3>1. CASE i = 0
      BY <3>1
    <3>2. CASE i # 0
      <4>1. i - 1 \in 0 .. n
        BY <3>2
      <4>2. g[i - 1] = f[i - 1]
        BY <2>2, <4>1
      <4>. HIDE DEF g
      <4>. QED BY <3>2, <4>2
    <3>. QED BY <3>1, <3>2
  <2>4. IsDraining(g, a, p, q, n + 1)
    <3>1. g = [i \in 0 .. n + 1 |-> IF i = 0 THEN p ELSE After(a, g[i - 1], q[i])]
      BY <2>3
    <3>. QED BY <3>1 DEF IsDraining
  <2>. QED BY <2>4
<1>3. Nat \subseteq S
  <2>. HIDE DEF S
  <2>. QED BY <1>1, <1>2, SetInduction
<1>. QED BY <1>3

\* Draining chooses them.
LEMMA DrainingIs ==
    ASSUME NEW S, NEW a, NEW p, NEW q \in Seq(S)
    PROVE  /\ Draining(a, p, q)[0] = p
           /\ \A i \in 1 .. Len(q) : Draining(a, p, q)[i] = After(a, Draining(a, p, q)[i - 1], q[i])
<1>. DEFINE n == Len(q)
            f == Draining(a, p, q)
<1>1. n \in Nat
  OBVIOUS
<1>2. f = CHOOSE after :
              after = [i \in 0 .. n |-> IF i = 0 THEN p ELSE After(a, after[i - 1], q[i])]
  BY DEF Draining
<1>. HIDE DEF f, n
<1>3. \E after : after = [i \in 0 .. n |-> IF i = 0 THEN p ELSE After(a, after[i - 1], q[i])]
  <2>1. PICK g : IsDraining(g, a, p, q, n)
    BY <1>1, DrainingExists
  <2>2. g = [i \in 0 .. n |-> IF i = 0 THEN p ELSE After(a, g[i - 1], q[i])]
    BY <2>1 DEF IsDraining
  <2>. QED BY <2>2
<1>4. f = [i \in 0 .. n |-> IF i = 0 THEN p ELSE After(a, f[i - 1], q[i])]
  BY <1>2, <1>3
<1>5. f[0] = p
  BY <1>1, <1>4
<1>6. ASSUME NEW i \in 1 .. n PROVE f[i] = After(a, f[i - 1], q[i])
  <2>1. i \in 0 .. n /\ i # 0
    BY <1>1
  <2>. QED BY <1>4, <2>1
<1>. QED BY <1>5, <1>6 DEF f, n

\* A queue, and after it another.
LEMMA DrainJoined ==
    ASSUME NEW S, NEW a, NEW p, NEW x \in Seq(S), NEW y \in Seq(S)
    PROVE  Drained(a, p, x \o y) = Drained(a, Drained(a, p, x), y)
<1>. DEFINE n == Len(x)
            m == Len(y)
            q == x \o y
            f == Draining(a, p, q)
            g == Draining(a, p, x)
            h == Draining(a, g[n], y)
<1>1. /\ n \in Nat /\ m \in Nat /\ q \in Seq(S) /\ Len(q) = n + m
      /\ \A i \in 1 .. n : q[i] = x[i]
      /\ \A i \in 1 .. m : q[n + i] = y[i]
  BY Joined
<1>. HIDE DEF q
<1>2. f[0] = p /\ \A i \in 1 .. n + m : f[i] = After(a, f[i - 1], q[i])
  BY <1>1, DrainingIs
<1>3. g[0] = p /\ \A i \in 1 .. n : g[i] = After(a, g[i - 1], x[i])
  BY DrainingIs
<1>4. h[0] = g[n] /\ \A i \in 1 .. m : h[i] = After(a, h[i - 1], y[i])
  BY DrainingIs
<1>. HIDE DEF f, g, h, n, m
<1>5. f[n] = g[n]
  <2>. DEFINE T == {i \in Nat : i <= n => f[i] = g[i]}
  <2>1. 0 \in T
    BY <1>2, <1>3
  <2>2. ASSUME NEW i \in Nat, i \in T PROVE i + 1 \in T
    <3>1. CASE i + 1 <= n
      <4>1. i + 1 \in 1 .. n /\ i + 1 \in 1 .. n + m /\ (i + 1) - 1 = i /\ i <= n
        BY <1>1, <3>1
      <4>2. f[i] = g[i] /\ q[i + 1] = x[i + 1]
        BY <1>1, <2>2, <4>1
      <4>3. f[i + 1] = After(a, f[(i + 1) - 1], q[i + 1])
        BY <1>2, <4>1
      <4>4. g[i + 1] = After(a, g[(i + 1) - 1], x[i + 1])
        BY <1>3, <4>1
      <4>5. f[i + 1] = g[i + 1]
        BY <4>1, <4>2, <4>3, <4>4
      <4>. QED BY <4>5
    <3>2. CASE ~(i + 1 <= n)
      BY <3>2
    <3>. QED BY <3>1, <3>2
  <2>3. Nat \subseteq T
    <3>. HIDE DEF T
    <3>. QED BY <2>1, <2>2, SetInduction
  <2>. QED BY <1>1, <2>3
<1>6. f[n + m] = h[m]
  <2>. DEFINE T == {i \in Nat : i <= m => f[n + i] = h[i]}
  <2>1. 0 \in T
    <3>1. n + 0 = n
      BY <1>1
    <3>. QED BY <1>4, <1>5, <3>1
  <2>2. ASSUME NEW i \in Nat, i \in T PROVE i + 1 \in T
    <3>1. CASE i + 1 <= m
      <4>1. /\ i + 1 \in 1 .. m /\ n + (i + 1) \in 1 .. n + m /\ (i + 1) - 1 = i
            /\ (n + (i + 1)) - 1 = n + i /\ i <= m
        BY <1>1, <3>1
      <4>2. f[n + i] = h[i] /\ q[n + (i + 1)] = y[i + 1]
        BY <1>1, <2>2, <4>1
      <4>3. f[n + (i + 1)] = After(a, f[(n + (i + 1)) - 1], q[n + (i + 1)])
        BY <1>2, <4>1
      <4>4. h[i + 1] = After(a, h[(i + 1) - 1], y[i + 1])
        BY <1>4, <4>1
      <4>5. f[n + (i + 1)] = h[i + 1]
        BY <4>1, <4>2, <4>3, <4>4
      <4>. QED BY <4>5
    <3>2. CASE ~(i + 1 <= m)
      BY <3>2
    <3>. QED BY <3>1, <3>2
  <2>3. Nat \subseteq T
    <3>. HIDE DEF T
    <3>. QED BY <2>1, <2>2, SetInduction
  <2>. QED BY <1>1, <2>3
<1>7. /\ Drained(a, p, q) = f[n + m] /\ Drained(a, p, x) = g[n]
      /\ Drained(a, g[n], y) = h[m]
  BY <1>1 DEF Drained, f, g, h, n, m
<1>. QED BY <1>6, <1>7 DEF q

\* An empty queue, and the first steps of a short one.
LEMMA DrainSteps ==
    ASSUME NEW S, NEW a, NEW p, NEW q \in Seq(S), NEW n \in 0 .. 4, Len(q) = n
    PROVE  /\ n = 0 => Drained(a, p, q) = p
           /\ n = 1 => Drained(a, p, q) = After(a, p, q[1])
           /\ n = 2 => Drained(a, p, q) = After(a, After(a, p, q[1]), q[2])
           /\ n = 3 => Drained(a, p, q) = After(a, After(a, After(a, p, q[1]), q[2]), q[3])
           /\ n = 4 => Drained(a, p, q)
                          = After(a, After(a, After(a, After(a, p, q[1]), q[2]), q[3]), q[4])
<1>. DEFINE f == Draining(a, p, q)
<1>1. f[0] = p /\ \A i \in 1 .. n : f[i] = After(a, f[i - 1], q[i])
  BY DrainingIs
<1>2. Drained(a, p, q) = f[n]
  BY DEF Drained
<1>. HIDE DEF f
<1>3. 1 - 1 = 0 /\ 2 - 1 = 1 /\ 3 - 1 = 2 /\ 4 - 1 = 3
  OBVIOUS
<1>4. n >= 1 => f[1] = After(a, p, q[1])
  <2>1. n >= 1 => 1 \in 1 .. n
    OBVIOUS
  <2>. QED BY <1>1, <1>3, <2>1
<1>5. n >= 2 => f[2] = After(a, f[1], q[2])
  <2>1. n >= 2 => 2 \in 1 .. n
    OBVIOUS
  <2>. QED BY <1>1, <1>3, <2>1
<1>6. n >= 3 => f[3] = After(a, f[2], q[3])
  <2>1. n >= 3 => 3 \in 1 .. n
    OBVIOUS
  <2>. QED BY <1>1, <1>3, <2>1
<1>7. n >= 4 => f[4] = After(a, f[3], q[4])
  <2>1. n >= 4 => 4 \in 1 .. n
    OBVIOUS
  <2>. QED BY <1>1, <1>3, <2>1
<1>. QED BY <1>1, <1>2, <1>4, <1>5, <1>6, <1>7

\* No step.
LEMMA DrainNothing ==
    ASSUME NEW a, NEW p
    PROVE  Drained(a, p, <<>>) = p
<1>1. <<>> \in Seq(Message)
  OBVIOUS
<1>2. Draining(a, p, <<>>)[0] = p
  <2>1. \A q \in Seq(Message) : Draining(a, p, q)[0] = p
    BY DrainingIs
  <2>. QED BY <1>1, <2>1
<1>3. Len(<<>>) = 0
  OBVIOUS
<1>. QED BY <1>2, <1>3 DEF Drained

\* One step.
LEMMA DrainOne ==
    ASSUME NEW a, NEW p, NEW c
    PROVE  Drained(a, p, <<c>>) = After(a, p, c)
<1>. DEFINE q == <<c>>
<1>1. q \in Seq({c}) /\ Len(q) = 1 /\ q[1] = c
  OBVIOUS
<1>. HIDE DEF q
<1>2. Drained(a, p, q) = After(a, p, q[1])
  BY <1>1, DrainSteps
<1>. QED BY <1>1, <1>2 DEF q

\* Two steps.
LEMMA DrainTwo ==
    ASSUME NEW a, NEW p, NEW c, NEW d
    PROVE  Drained(a, p, <<c, d>>) = After(a, After(a, p, c), d)
<1>. DEFINE q == <<c, d>>
<1>1. q \in Seq({c, d}) /\ Len(q) = 2 /\ q[1] = c /\ q[2] = d
  BY Short
<1>. HIDE DEF q
<1>2. Drained(a, p, q) = After(a, After(a, p, q[1]), q[2])
  BY <1>1, DrainSteps
<1>. QED BY <1>1, <1>2 DEF q

\* Three steps.
LEMMA DrainThree ==
    ASSUME NEW a, NEW p, NEW c, NEW d, NEW e
    PROVE  Drained(a, p, <<c, d, e>>) = After(a, After(a, After(a, p, c), d), e)
<1>. DEFINE q == <<c, d, e>>
<1>1. q \in Seq({c, d, e}) /\ Len(q) = 3 /\ q[1] = c /\ q[2] = d /\ q[3] = e
  BY Short
<1>. HIDE DEF q
<1>2. Drained(a, p, q) = After(a, After(a, After(a, p, q[1]), q[2]), q[3])
  BY <1>1, DrainSteps
<1>. QED BY <1>1, <1>2 DEF q

\* Four steps.
LEMMA DrainFour ==
    ASSUME NEW a, NEW p, NEW c, NEW d, NEW e, NEW f
    PROVE  Drained(a, p, <<c, d, e, f>>) = After(a, After(a, After(a, After(a, p, c), d), e), f)
<1>. DEFINE q == <<c, d, e, f>>
<1>1. /\ q \in Seq({c, d, e, f}) /\ Len(q) = 4
      /\ q[1] = c /\ q[2] = d /\ q[3] = e /\ q[4] = f
  BY Short
<1>. HIDE DEF q
<1>2. Drained(a, p, q) = After(a, After(a, After(a, After(a, p, q[1]), q[2]), q[3]), q[4])
  BY <1>1, DrainSteps
<1>. QED BY <1>1, <1>2 DEF q

\* The head of a queue, and the rest.
LEMMA DrainHead ==
    ASSUME NEW S, NEW a, NEW p, NEW q \in Seq(S), q # <<>>
    PROVE  Drained(a, p, q) = Drained(a, After(a, p, Head(q)), Tail(q))
<1>. DEFINE h == Head(q)
            one == <<h>>
            r == Tail(q)
<1>1. r \in Seq(S) /\ one \in Seq(S) /\ q = one \o r
  BY QueueParts, Short
<1>2. Drained(a, p, one) = After(a, p, h)
  <2>. HIDE DEF h
  <2>. QED BY DrainOne
<1>. HIDE DEF one, r, h
<1>3. Drained(a, p, one \o r) = Drained(a, Drained(a, p, one), r)
  BY <1>1, DrainJoined
<1>. QED BY <1>1, <1>2, <1>3 DEF r, h

-----------------------------------------------------------------------------
(***************************************************************************)
(* What a frame changes on a screen.                                       *)
(***************************************************************************)

\* A list of users changes the users, and only if it is of the room and fits.
LEMMA ShowUsers ==
    ASSUME NEW v, NEW x \in ViewType, NEW r, NEW u \in SUBSET Viewers
    PROVE  LET h == Receive(v, x, UserList(r, u))
           IN  /\ h \in ViewType /\ h.room = x.room /\ h.topic = x.topic
               /\ h.lines = x.lines /\ h.rooms = x.rooms
               /\ x.room = r /\ r # Gone /\ (v = Host \/ u \in Listable) => h.users = u
<1>. DEFINE f == UserList(r, u)
            h == Receive(v, x, f)
            y == [x EXCEPT !.users = u]
<1>1. f.kind = "users" /\ f.room = r /\ f.val = u
  BY DEF UserList
<1>. HIDE DEF f
<1>2. h = IF (v = Host \/ u \in Listable) /\ x.room # Gone /\ r = x.room THEN y ELSE x
  BY <1>1 DEF Receive, Encodes, Handle
<1>3. /\ y \in ViewType /\ y.room = x.room /\ y.topic = x.topic
      /\ y.lines = x.lines /\ y.rooms = x.rooms /\ y.users = u
  BY DEF ViewType
<1>. HIDE DEF h, y
<1>4. /\ h \in ViewType /\ h.room = x.room /\ h.topic = x.topic
      /\ h.lines = x.lines /\ h.rooms = x.rooms
      /\ x.room = r /\ r # Gone /\ (v = Host \/ u \in Listable) => h.users = u
  BY <1>2, <1>3
<1>. QED BY <1>4 DEF h, f

\* A topic changes the topic, and only if it is of the room.
LEMMA ShowTopic ==
    ASSUME NEW v, NEW x \in ViewType, NEW r, NEW topic \in TopicVals
    PROVE  LET h == Receive(v, x, RoomTopic(r, topic))
           IN  /\ h \in ViewType /\ h.room = x.room /\ h.users = x.users
               /\ h.lines = x.lines /\ h.rooms = x.rooms
               /\ x.room = r /\ r # Gone => h.topic = topic
<1>. DEFINE f == RoomTopic(r, topic)
            h == Receive(v, x, f)
            y == [x EXCEPT !.topic = topic]
<1>1. f.kind = "topic" /\ f.room = r /\ f.val = topic
  BY DEF RoomTopic
<1>. HIDE DEF f
<1>2. h = IF x.room # Gone /\ r = x.room THEN y ELSE x
  BY <1>1 DEF Receive, Encodes, Handle
<1>3. /\ y \in ViewType /\ y.room = x.room /\ y.topic = topic
      /\ y.lines = x.lines /\ y.rooms = x.rooms /\ y.users = x.users
  BY DEF ViewType
<1>. HIDE DEF h, y
<1>4. /\ h \in ViewType /\ h.room = x.room /\ h.users = x.users
      /\ h.lines = x.lines /\ h.rooms = x.rooms
      /\ x.room = r /\ r # Gone => h.topic = topic
  BY <1>2, <1>3
<1>. QED BY <1>4 DEF h, f

\* A list of rooms changes the list of rooms.
LEMMA ShowRooms ==
    ASSUME NEW v, NEW x \in ViewType, NEW n \in CountVals
    PROVE  LET h == Receive(v, x, RoomList(n))
           IN  /\ h \in ViewType /\ h.room = x.room /\ h.users = x.users
               /\ h.lines = x.lines /\ h.topic = x.topic
               /\ x.room # Gone => h.rooms = n
<1>. DEFINE f == RoomList(n)
            h == Receive(v, x, f)
            y == [x EXCEPT !.rooms = n]
<1>1. f.kind = "rooms" /\ f.val = n
  BY DEF RoomList
<1>. HIDE DEF f
<1>2. h = IF x.room # Gone THEN y ELSE x
  BY <1>1 DEF Receive, Encodes, Handle
<1>3. /\ y \in ViewType /\ y.room = x.room /\ y.topic = x.topic
      /\ y.lines = x.lines /\ y.rooms = n /\ y.users = x.users
  BY DEF ViewType
<1>. HIDE DEF h, y
<1>4. /\ h \in ViewType /\ h.room = x.room /\ h.users = x.users
      /\ h.lines = x.lines /\ h.topic = x.topic
      /\ x.room # Gone => h.rooms = n
  BY <1>2, <1>3
<1>. QED BY <1>4 DEF h, f

\* Lines are added.
LEMMA PushFields ==
    ASSUME NEW x \in ViewType, NEW ls \in Seq(Message)
    PROVE  /\ Push(x, ls) \in ViewType /\ Push(x, ls).room = x.room
           /\ Push(x, ls).topic = x.topic /\ Push(x, ls).users = x.users
           /\ Push(x, ls).rooms = x.rooms
           /\ Push(x, ls).lines = Keep(x.lines \o ls, MaxLines)
<1>. DEFINE k == Keep(x.lines \o ls, MaxLines)
            y == [x EXCEPT !.lines = k]
<1>1. k \in Seq(Message)
  <2>1. MaxLines \in Nat /\ x.lines \in Seq(Message)
    BY FeedFacts, ViewFields
  <2>. QED BY <2>1, Joined, KeepIn
<1>. HIDE DEF k
<1>2. /\ y \in ViewType /\ y.room = x.room /\ y.topic = x.topic
      /\ y.lines = k /\ y.rooms = x.rooms /\ y.users = x.users
  BY <1>1 DEF ViewType
<1>3. Push(x, ls) = y
  BY DEF Push, k
<1>. QED BY <1>2, <1>3 DEF k

\* A text adds lines, if it is of the room.
LEMMA ShowText ==
    ASSUME NEW v, NEW x \in ViewType, NEW r, NEW ls \in Seq(Message)
    PROVE  LET h == Receive(v, x, RoomText(r, ls))
           IN  /\ h \in ViewType /\ h.room = x.room /\ h.users = x.users
               /\ h.topic = x.topic /\ h.rooms = x.rooms
               /\ x.room = r /\ r # Gone => h.lines = Keep(x.lines \o ls, MaxLines)
<1>. DEFINE f == RoomText(r, ls)
            h == Receive(v, x, f)
            y == Push(x, ls)
<1>1. f.kind = "text" /\ f.room = r /\ f.val = ls
  BY DEF RoomText
<1>. HIDE DEF f
<1>2. h = IF x.room # Gone /\ Shown(v, x, f) THEN y ELSE x
  BY <1>1 DEF Receive, Encodes, Handle
<1>3. r = x.room => Shown(v, x, f)
  BY <1>1 DEF Shown
<1>4. /\ y \in ViewType /\ y.room = x.room /\ y.topic = x.topic
      /\ y.rooms = x.rooms /\ y.users = x.users
      /\ y.lines = Keep(x.lines \o ls, MaxLines)
  BY PushFields
<1>. HIDE DEF h, y
<1>5. /\ h \in ViewType /\ h.room = x.room /\ h.users = x.users
      /\ h.topic = x.topic /\ h.rooms = x.rooms
      /\ x.room = r /\ r # Gone => h.lines = Keep(x.lines \o ls, MaxLines)
  BY <1>2, <1>3, <1>4
<1>. QED BY <1>5 DEF h, f

\* A private message adds a line.
LEMMA ShowWhisper ==
    ASSUME NEW v, NEW x \in ViewType
    PROVE  LET h == Receive(v, x, Whisper)
           IN  /\ h \in ViewType /\ h.room = x.room /\ h.users = x.users
               /\ h.topic = x.topic /\ h.rooms = x.rooms
               /\ x.room # Gone => h.lines = Keep(x.lines \o <<PrivateLine>>, MaxLines)
<1>. DEFINE f == Whisper
            h == Receive(v, x, f)
            y == Push(x, <<PrivateLine>>)
<1>1. f.kind = "private"
  BY DEF Whisper
<1>. HIDE DEF f
<1>2. h = IF x.room # Gone THEN y ELSE x
  BY <1>1 DEF Receive, Encodes, Handle
<1>3. <<PrivateLine>> \in Seq(Message)
  <2>1. PrivateLine \in Message
    BY DEF PrivateLine, Message
  <2>. QED BY <2>1, Short
<1>4. /\ y \in ViewType /\ y.room = x.room /\ y.topic = x.topic
      /\ y.rooms = x.rooms /\ y.users = x.users
      /\ y.lines = Keep(x.lines \o <<PrivateLine>>, MaxLines)
  BY <1>3, PushFields
<1>. HIDE DEF h, y
<1>5. /\ h \in ViewType /\ h.room = x.room /\ h.users = x.users
      /\ h.topic = x.topic /\ h.rooms = x.rooms
      /\ x.room # Gone => h.lines = Keep(x.lines \o <<PrivateLine>>, MaxLines)
  BY <1>2, <1>4
<1>. QED BY <1>5 DEF h, f

\* A new room is shown.
LEMMA ShowJoined ==
    ASSUME NEW v, NEW x \in ViewType, NEW r \in RoomIds, NEW topic \in TopicVals
    PROVE  LET h == Receive(v, x, RoomJoined(r, topic))
           IN  /\ h \in ViewType
               /\ x.room # Gone => h.room = r /\ h.topic = topic /\ h.lines = <<>>
<1>. DEFINE f == RoomJoined(r, topic)
            h == Receive(v, x, f)
            y == [Blank(r) EXCEPT !.topic = topic, !.rooms = x.rooms]
<1>1. f.kind = "joined" /\ f.room = r /\ f.val = topic
  BY DEF RoomJoined
<1>. HIDE DEF f
<1>2. h = IF x.room # Gone THEN y ELSE x
  BY <1>1 DEF Receive, Encodes, Handle
<1>3. r \in 0 .. Gone /\ x.rooms \in CountVals
  BY FeedFacts, ViewFields DEF RoomIds, Gone
<1>4. y \in ViewType /\ y.room = r /\ y.lines = <<>>
  <2>1. \A p \in TopicVals, n \in CountVals :
            /\ [Blank(r) EXCEPT !.topic = p, !.rooms = n] \in ViewType
            /\ [Blank(r) EXCEPT !.topic = p, !.rooms = n].room = r
            /\ [Blank(r) EXCEPT !.topic = p, !.rooms = n].lines = <<>>
    BY <1>3, BlankScreen
  <2>. QED BY <1>3, <2>1
<1>5. y.topic = topic
  BY DEF Blank
<1>. HIDE DEF h, y
<1>6. h \in ViewType /\ (x.room # Gone => h.room = r /\ h.topic = topic /\ h.lines = <<>>)
  BY <1>2, <1>4, <1>5
<1>. QED BY <1>6 DEF h, f

-----------------------------------------------------------------------------
(***************************************************************************)
(* What a step changes on the screens.                                     *)
(***************************************************************************)

\* Users who are at a, rooms, screens and numbers that can be together.
StateOK(a, p) ==
    /\ a \in [Viewers -> {0} \cup RoomIds]
    /\ p.rooms \in [RoomIds -> Room \cup {Absent}]
    /\ \A v \in Viewers : a[v] # 0 => p.rooms[a[v]] # Absent
    /\ p.view \in [Viewers -> ViewType] /\ p.posts \in Nat

\* Steps with a room.
LEMMA AfterRoom ==
    ASSUME NEW a, NEW p, NEW r
    PROVE  /\ After(a, p, Post(r)) = Shows(Posted(p, r), MembersAt(a, r), TextAt(p, r))
           /\ After(a, p, Users(r)) = Shows(p, MembersAt(a, r), UserList(r, MembersAt(a, r)))
           /\ After(a, p, Persist(r)) = p
<1>1. /\ Post(r).op = "post" /\ Post(r).room = r /\ Users(r).op = "users" /\ Users(r).room = r
      /\ Persist(r).op = "persist"
  BY DEF Post, Users, Persist
<1>. QED BY <1>1 DEF After

\* Deliveries.
LEMMA AfterFrame ==
    ASSUME NEW a, NEW p, NEW f, NEW to
    PROVE  After(a, p, Deliver(to, f)) = Shows(p, to, f)
<1>1. Deliver(to, f).op = "deliver" /\ Deliver(to, f).to = to /\ Deliver(to, f).frame = f
  BY DEF Deliver
<1>. QED BY <1>1 DEF After

\* A delivery to all.
LEMMA AfterAll ==
    ASSUME NEW a, NEW p, NEW f
    PROVE  After(a, p, DeliverAll(f)) = Shows(p, OnlineAt(a), f)
<1>1. DeliverAll(f).op = "deliverAll" /\ DeliverAll(f).frame = f
  BY DEF DeliverAll
<1>. QED BY <1>1 DEF After

\* The list of rooms.
LEMMA AfterList ==
    ASSUME NEW a, NEW p
    PROVE  After(a, p, Lists) = Shows(p, OnlineAt(a), RoomList(CountsAt(a, p.rooms)))
<1>1. Lists.op = "lists"
  BY DEF Lists
<1>. QED BY <1>1 DEF After

\* A write shows nothing.
LEMMA AfterStore ==
    ASSUME NEW a, NEW p, NEW c, c.op \in {"store", "persist"}
    PROVE  After(a, p, c) = p
BY DEF After

\* The fields of a state, and those that a delivery changes.
LEMMA StateFields ==
    ASSUME NEW rs, NEW vw, NEW n
    PROVE  State(rs, vw, n).rooms = rs /\ State(rs, vw, n).view = vw /\ State(rs, vw, n).posts = n
BY DEF State

\* A delivery changes screens.
LEMMA ShowsFields ==
    ASSUME NEW p, NEW to, NEW f
    PROVE  /\ Shows(p, to, f).rooms = p.rooms /\ Shows(p, to, f).posts = p.posts
           /\ \A v \in Viewers : Shows(p, to, f).view[v] =
                  IF v \in to THEN Receive(v, p.view[v], f) ELSE p.view[v]
           /\ Shows(p, to, f).view =
                  [v \in Viewers |-> IF v \in to THEN Receive(v, p.view[v], f) ELSE p.view[v]]
BY StateFields DEF Shows

\* The state stays one when every screen is shown something that it can show.
LEMMA ShowsOK ==
    ASSUME NEW a, NEW p, StateOK(a, p), NEW to, NEW f,
           \A v \in Viewers : v \in to => Receive(v, p.view[v], f) \in ViewType
    PROVE  StateOK(a, Shows(p, to, f))
<1>. DEFINE q == Shows(p, to, f)
<1>1. /\ q.rooms = p.rooms /\ q.posts = p.posts
      /\ q.view = [v \in Viewers |-> IF v \in to THEN Receive(v, p.view[v], f) ELSE p.view[v]]
  BY ShowsFields
<1>2. \A v \in Viewers : p.view[v] \in ViewType
  BY DEF StateOK
<1>. HIDE DEF q
<1>3. q.view \in [Viewers -> ViewType]
  BY <1>1, <1>2
<1>4. StateOK(a, q)
  BY <1>1, <1>3 DEF StateOK
<1>. QED BY <1>4 DEF q

\* Somebody who is online is in a room, and a screen that shows it is not that
\* of somebody who has left.
LEMMA OnlineFacts ==
    ASSUME NEW a, NEW p, StateOK(a, p), NEW v \in OnlineAt(a)
    PROVE  /\ v \in Viewers /\ a[v] \in RoomIds /\ a[v] # 0 /\ a[v] # Gone
           /\ p.rooms[a[v]] # Absent /\ p.rooms[a[v]] \in Room /\ p.view[v] \in ViewType
           /\ p.rooms[a[v]].recent \in Seq(Message) /\ p.rooms[a[v]].topic \in TopicVals
           /\ p.view[v].lines \in Seq(Message)
<1>1. v \in Viewers /\ a[v] # 0
  BY DEF OnlineAt
<1>2. a[v] \in RoomIds
  BY <1>1 DEF StateOK
<1>3. p.rooms[a[v]] # Absent /\ p.rooms[a[v]] \in Room /\ p.view[v] \in ViewType
  BY <1>1, <1>2 DEF StateOK
<1>4. p.rooms[a[v]].recent \in Seq(Message) /\ p.rooms[a[v]].topic \in TopicVals
  BY <1>3 DEF Room, TopicVals
<1>. QED BY <1>1, <1>2, <1>3, <1>4, FeedFacts, ViewFields

\* The sizes of the rooms can be shown.
LEMMA CountsShown ==
    ASSUME NEW a, NEW rs
    PROVE  CountsAt(a, rs) \in CountVals
<1>. DEFINE D == {i \in RoomIds : rs[i] # Absent}
            N == Nat \cup {Cardinality(S) : S \in SUBSET Viewers}
<1>1. \A r \in D : Cardinality(MembersAt(a, r)) \in N
  <2>1. \A r \in D : MembersAt(a, r) \in SUBSET Viewers
    BY DEF MembersAt
  <2>. QED BY <2>1
<1>2. D \in SUBSET RoomIds
  OBVIOUS
<1>3. CountsAt(a, rs) \in [D -> N]
  <2>. HIDE DEF N
  <2>. QED BY <1>1 DEF CountsAt
<1>. HIDE DEF D, N
<1>4. CountsAt(a, rs) \in UNION {[E -> N] : E \in SUBSET RoomIds}
  BY <1>2, <1>3
<1>. QED BY <1>4 DEF CountVals, N

\* broadcast_users: the users of the room are shown, and nothing else changes.
LEMMA AfterUsers ==
    ASSUME NEW a, NEW p, StateOK(a, p), NEW r \in RoomIds
    PROVE  LET q == After(a, p, Users(r))
           IN  /\ StateOK(a, q) /\ q.rooms = p.rooms
               /\ \A v \in Viewers : a[v] # r => q.view[v] = p.view[v]
               /\ \A v \in OnlineAt(a) :
                     /\ RoomRight(a, p, v) => RoomRight(a, q, v)
                     /\ LinesRight(a, p, v) => LinesRight(a, q, v)
                     /\ CountsRight(a, p, v) => CountsRight(a, q, v)
                     /\ RoomRight(a, p, v) /\ (a[v] = r \/ UsersRight(a, p, v))
                           => UsersRight(a, q, v)
<1>. DEFINE here == MembersAt(a, r)
            f == UserList(r, here)
            q == Shows(p, here, f)
<1>1. After(a, p, Users(r)) = q
  BY AfterRoom
<1>2. /\ q.rooms = p.rooms
      /\ \A v \in Viewers : q.view[v] = IF v \in here THEN Receive(v, p.view[v], f) ELSE p.view[v]
  <2>. HIDE DEF here, f
  <2>1. /\ q.rooms = p.rooms
        /\ q.view = [v \in Viewers |-> IF v \in here THEN Receive(v, p.view[v], f) ELSE p.view[v]]
    BY ShowsFields
  <2>. HIDE DEF q
  <2>. QED BY <2>1
<1>3. ASSUME NEW v \in Viewers
      PROVE  LET h == Receive(v, p.view[v], f)
             IN  /\ h \in ViewType /\ h.room = p.view[v].room /\ h.topic = p.view[v].topic
                 /\ h.lines = p.view[v].lines /\ h.rooms = p.view[v].rooms
                 /\ p.view[v].room = r /\ (v = Host \/ here \in Listable) => h.users = here
  <2>1. p.view[v] \in ViewType /\ here \in SUBSET Viewers /\ r # Gone
    BY FeedFacts DEF StateOK, MembersAt
  <2>. HIDE DEF here
  <2>. QED BY <2>1, ShowUsers
<1>4. StateOK(a, q)
  BY <1>3, ShowsOK
<1>. HIDE DEF q, f
<1>5. \A v \in Viewers : v \in here <=> a[v] = r
  BY DEF MembersAt
<1>6. ASSUME NEW v \in OnlineAt(a)
      PROVE  /\ RoomRight(a, p, v) => RoomRight(a, q, v)
             /\ LinesRight(a, p, v) => LinesRight(a, q, v)
             /\ CountsRight(a, p, v) => CountsRight(a, q, v)
             /\ RoomRight(a, p, v) /\ (a[v] = r \/ UsersRight(a, p, v)) => UsersRight(a, q, v)
  <2>1. v \in Viewers
    BY DEF OnlineAt
  <2>2. /\ q.view[v].room = p.view[v].room /\ q.view[v].topic = p.view[v].topic
        /\ q.view[v].lines = p.view[v].lines /\ q.view[v].rooms = p.view[v].rooms
        /\ a[v] = r /\ p.view[v].room = r /\ (v = Host \/ here \in Listable)
             => q.view[v].users = here
        /\ a[v] # r => q.view[v].users = p.view[v].users
    BY <1>2, <1>3, <1>5, <2>1
  <2>. QED BY <1>2, <2>2 DEF RoomRight, LinesRight, CountsRight, UsersRight
<1>7. \A v \in Viewers : a[v] # r => q.view[v] = p.view[v]
  BY <1>2, <1>5
<1>. QED BY <1>1, <1>2, <1>4, <1>6, <1>7

\* broadcast_room_lists: the sizes are shown to all, and nothing else changes.
LEMMA AfterLists ==
    ASSUME NEW a, NEW p, StateOK(a, p)
    PROVE  LET q == After(a, p, Lists)
           IN  /\ StateOK(a, q) /\ q.rooms = p.rooms
               /\ \A v \in OnlineAt(a) :
                     /\ RoomRight(a, p, v) => RoomRight(a, q, v)
                     /\ LinesRight(a, p, v) => LinesRight(a, q, v)
                     /\ UsersRight(a, p, v) => UsersRight(a, q, v)
                     /\ RoomRight(a, p, v) => CountsRight(a, q, v)
<1>. DEFINE n == CountsAt(a, p.rooms)
            f == RoomList(n)
            q == Shows(p, OnlineAt(a), f)
<1>1. After(a, p, Lists) = q
  BY AfterList
<1>2. /\ q.rooms = p.rooms
      /\ \A v \in Viewers :
            q.view[v] = IF v \in OnlineAt(a) THEN Receive(v, p.view[v], f) ELSE p.view[v]
  <2>. HIDE DEF f
  <2>1. /\ q.rooms = p.rooms
        /\ q.view = [v \in Viewers |-> IF v \in OnlineAt(a) THEN Receive(v, p.view[v], f)
                                        ELSE p.view[v]]
    BY ShowsFields
  <2>. HIDE DEF q
  <2>. QED BY <2>1
<1>3. ASSUME NEW v \in Viewers
      PROVE  LET h == Receive(v, p.view[v], f)
             IN  /\ h \in ViewType /\ h.room = p.view[v].room /\ h.topic = p.view[v].topic
                 /\ h.lines = p.view[v].lines /\ h.users = p.view[v].users
                 /\ p.view[v].room # Gone => h.rooms = n
  <2>1. p.view[v] \in ViewType /\ n \in CountVals
    BY CountsShown DEF StateOK
  <2>. HIDE DEF n
  <2>. QED BY <2>1, ShowRooms
<1>4. StateOK(a, q)
  BY <1>3, ShowsOK
<1>. HIDE DEF q, f
<1>5. ASSUME NEW v \in OnlineAt(a)
      PROVE  /\ RoomRight(a, p, v) => RoomRight(a, q, v)
             /\ LinesRight(a, p, v) => LinesRight(a, q, v)
             /\ UsersRight(a, p, v) => UsersRight(a, q, v)
             /\ RoomRight(a, p, v) => CountsRight(a, q, v)
  <2>1. v \in Viewers /\ a[v] # Gone
    BY OnlineFacts
  <2>2. /\ q.view[v].room = p.view[v].room /\ q.view[v].topic = p.view[v].topic
        /\ q.view[v].lines = p.view[v].lines /\ q.view[v].users = p.view[v].users
        /\ p.view[v].room # Gone => q.view[v].rooms = n
    BY <1>2, <1>3, <2>1
  <2>. QED BY <1>2, <2>1, <2>2 DEF RoomRight, LinesRight, CountsRight, UsersRight
<1>. QED BY <1>1, <1>2, <1>4, <1>5

\* The sizes of the rooms depend on which rooms there are.
LEMMA CountsSame ==
    ASSUME NEW a, NEW rs, NEW ss, \A s \in RoomIds : rs[s] # Absent <=> ss[s] # Absent
    PROVE  CountsAt(a, rs) = CountsAt(a, ss)
<1>1. {i \in RoomIds : rs[i] # Absent} = {i \in RoomIds : ss[i] # Absent}
  OBVIOUS
<1>. QED BY <1>1 DEF CountsAt

\* A room is changed and stays one.
LEMMA RoomChanged ==
    ASSUME NEW a, NEW p, StateOK(a, p), NEW r \in RoomIds, p.rooms[r] # Absent,
           NEW x \in Room, NEW n \in Nat
    PROVE  LET q == State([p.rooms EXCEPT ![r] = x], p.view, n)
           IN  /\ StateOK(a, q) /\ q.rooms[r] = x /\ q.view = p.view
               /\ \A s \in RoomIds : s # r => q.rooms[s] = p.rooms[s]
               /\ \A s \in RoomIds : q.rooms[s] # Absent <=> p.rooms[s] # Absent
               /\ CountsAt(a, q.rooms) = CountsAt(a, p.rooms)
<1>. DEFINE q == State([p.rooms EXCEPT ![r] = x], p.view, n)
<1>1. q.rooms = [p.rooms EXCEPT ![r] = x] /\ q.view = p.view /\ q.posts = n
  BY StateFields
<1>. HIDE DEF q
<1>2. x # Absent /\ p.rooms \in [RoomIds -> Room \cup {Absent}]
  BY FeedFacts DEF StateOK
<1>3. q.rooms[r] = x /\ \A s \in RoomIds : s # r => q.rooms[s] = p.rooms[s]
  BY <1>1, <1>2
<1>4. \A s \in RoomIds : q.rooms[s] # Absent <=> p.rooms[s] # Absent
  BY <1>2, <1>3
<1>5. CountsAt(a, q.rooms) = CountsAt(a, p.rooms)
  BY <1>4, CountsSame
<1>6. q.rooms \in [RoomIds -> Room \cup {Absent}]
  BY <1>1, <1>2
<1>7. \A v \in Viewers : a[v] # 0 => q.rooms[a[v]] # Absent
  BY <1>4 DEF StateOK
<1>8. StateOK(a, q)
  BY <1>1, <1>6, <1>7 DEF StateOK
<1>. QED BY <1>1, <1>3, <1>4, <1>5, <1>8 DEF q

\* A message joins recent_messages.
LEMMA PostedRoom ==
    ASSUME NEW a, NEW p, StateOK(a, p), NEW r \in RoomIds, p.rooms[r] # Absent
    PROVE  LET q == Posted(p, r)
           IN  /\ StateOK(a, q) /\ q.view = p.view
               /\ q.rooms[r].topic = p.rooms[r].topic
               /\ q.rooms[r].recent =
                      Keep(Append(p.rooms[r].recent, NewMessage(p, r)), HistoryLimit)
               /\ \A s \in RoomIds : s # r => q.rooms[s] = p.rooms[s]
               /\ \A s \in RoomIds : q.rooms[s] # Absent <=> p.rooms[s] # Absent
               /\ CountsAt(a, q.rooms) = CountsAt(a, p.rooms)
               /\ NewMessage(p, r) \in Message /\ NewMessage(p, r).room = r
<1>. DEFINE m == NewMessage(p, r)
            old == p.rooms[r]
            k == Keep(Append(old.recent, m), HistoryLimit)
            x == [old EXCEPT !.recent = k]
            q == Posted(p, r)
<1>1. old \in Room /\ p.posts + 1 \in Nat
  BY DEF StateOK
<1>2. m \in Message /\ m.room = r
  <2>1. r \in Nat /\ old.born \in Nat
    BY <1>1, FeedFacts DEF Room
  <2>. QED BY <1>1, <2>1 DEF NewMessage, Message
<1>. HIDE DEF m
<1>3. k \in Seq(Message)
  <2>1. old.recent \in Seq(Message) /\ HistoryLimit \in Nat
    BY <1>1, FeedFacts DEF Room
  <2>2. Append(old.recent, m) \in Seq(Message)
    BY <1>2, <2>1
  <2>. QED BY <2>1, <2>2, KeepIn
<1>4. q = State([p.rooms EXCEPT ![r] = x], p.view, p.posts + 1)
  <2>1. [p.rooms EXCEPT ![r].recent = Keep(Append(@, m), HistoryLimit)] = [p.rooms EXCEPT ![r] = x]
    OBVIOUS
  <2>. QED BY <2>1 DEF Posted, m
<1>. HIDE DEF k, q
<1>5. x \in Room /\ x.recent = k /\ x.topic = old.topic
  <2>. HIDE DEF old
  <2>. QED BY <1>1, <1>3 DEF Room
<1>. HIDE DEF x
<1>6. /\ StateOK(a, q) /\ q.rooms[r] = x /\ q.view = p.view
      /\ \A s \in RoomIds : s # r => q.rooms[s] = p.rooms[s]
      /\ \A s \in RoomIds : q.rooms[s] # Absent <=> p.rooms[s] # Absent
      /\ CountsAt(a, q.rooms) = CountsAt(a, p.rooms)
  BY <1>1, <1>4, <1>5, RoomChanged
<1>. QED BY <1>2, <1>5, <1>6 DEF q, k, m

\* broadcast_room: the message is in recent_messages and on the screens of the
\* members, and nothing else changes.
LEMMA AfterPost ==
    ASSUME NEW a, NEW p, StateOK(a, p), NEW r \in RoomIds, p.rooms[r] # Absent
    PROVE  LET q == After(a, p, Post(r))
           IN  /\ StateOK(a, q)
               /\ \A s \in RoomIds : s # r => q.rooms[s] = p.rooms[s]
               /\ \A s \in RoomIds : q.rooms[s] # Absent <=> p.rooms[s] # Absent
               /\ q.rooms[r].topic = p.rooms[r].topic
               /\ \A v \in Viewers : a[v] # r => q.view[v] = p.view[v]
               /\ \A v \in OnlineAt(a) :
                     /\ RoomRight(a, p, v) => RoomRight(a, q, v)
                     /\ UsersRight(a, p, v) => UsersRight(a, q, v)
                     /\ CountsRight(a, p, v) => CountsRight(a, q, v)
                     /\ (RoomRight(a, p, v) \/ a[v] # r) /\ LinesRight(a, p, v)
                           => LinesRight(a, q, v)
<1>. DEFINE m == NewMessage(p, r)
            here == MembersAt(a, r)
            f == TextAt(p, r)
            b == Posted(p, r)
            q == Shows(b, here, f)
            new == Keep(Append(p.rooms[r].recent, m), HistoryLimit)
<1>1. After(a, p, Post(r)) = q
  BY AfterRoom
<1>2. /\ StateOK(a, b) /\ b.view = p.view
      /\ b.rooms[r].topic = p.rooms[r].topic
      /\ b.rooms[r].recent = new
      /\ \A s \in RoomIds : s # r => b.rooms[s] = p.rooms[s]
      /\ \A s \in RoomIds : b.rooms[s] # Absent <=> p.rooms[s] # Absent
      /\ CountsAt(a, b.rooms) = CountsAt(a, p.rooms)
      /\ m \in Message /\ m.room = r
  BY PostedRoom
<1>3. f = RoomText(r, <<m>>)
  BY DEF TextAt
<1>. HIDE DEF b, f, m, here, new
<1>4. /\ q.rooms = b.rooms
      /\ q.view = [v \in Viewers |-> IF v \in here THEN Receive(v, b.view[v], f) ELSE b.view[v]]
  BY ShowsFields
<1>. HIDE DEF q
<1>5. \A v \in Viewers : q.view[v] = IF v \in here THEN Receive(v, p.view[v], f) ELSE p.view[v]
  BY <1>2, <1>4
<1>6. ASSUME NEW v \in Viewers
      PROVE  LET h == Receive(v, p.view[v], f)
             IN  /\ h \in ViewType /\ h.room = p.view[v].room /\ h.topic = p.view[v].topic
                 /\ h.users = p.view[v].users /\ h.rooms = p.view[v].rooms
                 /\ p.view[v].room = r => h.lines = Keep(p.view[v].lines \o <<m>>, MaxLines)
  <2>1. p.view[v] \in ViewType /\ <<m>> \in Seq(Message) /\ r # Gone
    BY <1>2, FeedFacts, Short DEF StateOK
  <2>. DEFINE ls == <<m>>
              x == p.view[v]
              h == Receive(v, x, RoomText(r, ls))
  <2>2. x \in ViewType /\ ls \in Seq(Message)
    BY <2>1
  <2>. HIDE DEF ls, x
  <2>3. /\ h \in ViewType /\ h.room = x.room /\ h.topic = x.topic
        /\ h.users = x.users /\ h.rooms = x.rooms
        /\ x.room = r => h.lines = Keep(x.lines \o ls, MaxLines)
    BY <2>1, <2>2, ShowText
  <2>4. h = Receive(v, x, f)
    BY <1>3 DEF ls
  <2>. HIDE DEF h
  <2>. QED BY <2>3, <2>4 DEF x, ls
<1>7. StateOK(a, q)
  BY <1>2, <1>6, ShowsOK DEF q
<1>8. \A v \in Viewers : v \in here <=> a[v] = r
  BY DEF MembersAt, here
<1>9. ASSUME NEW v \in OnlineAt(a)
      PROVE  /\ RoomRight(a, p, v) => RoomRight(a, q, v)
             /\ UsersRight(a, p, v) => UsersRight(a, q, v)
             /\ CountsRight(a, p, v) => CountsRight(a, q, v)
             /\ (RoomRight(a, p, v) \/ a[v] # r) /\ LinesRight(a, p, v) => LinesRight(a, q, v)
  <2>1. /\ v \in Viewers /\ a[v] \in RoomIds
        /\ p.view[v].lines \in Seq(Message) /\ p.rooms[a[v]].recent \in Seq(Message)
    BY OnlineFacts
  <2>2. /\ q.view[v].room = p.view[v].room /\ q.view[v].topic = p.view[v].topic
        /\ q.view[v].users = p.view[v].users /\ q.view[v].rooms = p.view[v].rooms
    BY <1>5, <1>6, <2>1
  <2>3. q.rooms[a[v]].topic = p.rooms[a[v]].topic /\ CountsAt(a, q.rooms) = CountsAt(a, p.rooms)
    BY <1>2, <1>4, <2>1
  <2>4. ASSUME RoomRight(a, p, v) \/ a[v] # r, LinesRight(a, p, v)
        PROVE  LinesRight(a, q, v)
    <3>1. CASE a[v] # r
      <4>1. q.view[v] = p.view[v] /\ q.rooms[a[v]] = p.rooms[a[v]]
        BY <1>2, <1>4, <1>5, <1>8, <2>1, <3>1
      <4>. QED BY <2>4, <4>1 DEF LinesRight
    <3>2. CASE a[v] = r
      <4>1. p.view[v].room = r
        BY <2>4, <3>2 DEF RoomRight
      <4>2. q.view[v].lines = Keep(p.view[v].lines \o <<m>>, MaxLines) /\ q.rooms[r].recent = new
        BY <1>2, <1>4, <1>5, <1>6, <1>8, <2>1, <3>2, <4>1
      <4>3. m.room # 0
        BY <1>2, FeedFacts
      <4>4. LinesFollow(v, p.view[v].lines, p.rooms[r].recent)
        BY <2>4, <3>2 DEF LinesRight
      <4>5. p.rooms[r].recent \in Seq(Message)
        BY <2>1, <3>2
      <4>6. LinesFollow(v, Keep(p.view[v].lines \o <<m>>, MaxLines), new)
        BY <1>2, <2>1, <4>3, <4>4, <4>5, LinesPosted DEF new
      <4>. QED BY <3>2, <4>2, <4>6 DEF LinesRight
    <3>. QED BY <3>1, <3>2
  <2>. QED BY <2>2, <2>3, <2>4 DEF RoomRight, UsersRight, CountsRight
<1>10. \A v \in Viewers : a[v] # r => q.view[v] = p.view[v]
  BY <1>5, <1>8
<1>. QED BY <1>1, <1>2, <1>4, <1>7, <1>9, <1>10

-----------------------------------------------------------------------------
(***************************************************************************)
(* What an operation changes on the screens, taken as a whole.             *)
(***************************************************************************)

\* The screens are right but for those of W, for the users of the rooms R and
\* for the sizes of the rooms.
PartRight(a, p, W, R) ==
    \A v \in OnlineAt(a) : v \notin W =>
        RoomRight(a, p, v) /\ LinesRight(a, p, v) /\ (a[v] \notin R => UsersRight(a, p, v))

\* Nothing but the sizes is left out.
LEMMA PartNearly ==
    ASSUME NEW a, NEW p
    PROVE  PartRight(a, p, {}, {}) <=> NearlyRight(a, p)
BY DEF PartRight, NearlyRight

\* A message leaves right what is right.
LEMMA PartPost ==
    ASSUME NEW a, NEW p, StateOK(a, p), NEW r \in RoomIds, p.rooms[r] # Absent, NEW W, NEW R,
           PartRight(a, p, W, R)
    PROVE  StateOK(a, After(a, p, Post(r))) /\ PartRight(a, After(a, p, Post(r)), W, R)
<1>. DEFINE q == After(a, p, Post(r))
<1>1. /\ StateOK(a, q)
      /\ \A v \in OnlineAt(a) :
            /\ RoomRight(a, p, v) => RoomRight(a, q, v)
            /\ UsersRight(a, p, v) => UsersRight(a, q, v)
            /\ (RoomRight(a, p, v) \/ a[v] # r) /\ LinesRight(a, p, v) => LinesRight(a, q, v)
  BY AfterPost
<1>. HIDE DEF q
<1>2. PartRight(a, q, W, R)
  BY <1>1 DEF PartRight
<1>. QED BY <1>1, <1>2 DEF q

\* The users of a room are shown.
LEMMA PartUsers ==
    ASSUME NEW a, NEW p, StateOK(a, p), NEW r \in RoomIds, NEW W, NEW R, PartRight(a, p, W, R)
    PROVE  StateOK(a, After(a, p, Users(r))) /\ PartRight(a, After(a, p, Users(r)), W, R \ {r})
<1>. DEFINE q == After(a, p, Users(r))
<1>1. /\ StateOK(a, q)
      /\ \A v \in OnlineAt(a) :
            /\ RoomRight(a, p, v) => RoomRight(a, q, v)
            /\ LinesRight(a, p, v) => LinesRight(a, q, v)
            /\ RoomRight(a, p, v) /\ (a[v] = r \/ UsersRight(a, p, v)) => UsersRight(a, q, v)
  BY AfterUsers
<1>. HIDE DEF q
<1>2. PartRight(a, q, W, R \ {r})
  BY <1>1 DEF PartRight
<1>. QED BY <1>1, <1>2 DEF q

\* The sizes are shown, and all is right.
LEMMA PartLists ==
    ASSUME NEW a, NEW p, StateOK(a, p), NearlyRight(a, p)
    PROVE  AllRight(a, After(a, p, Lists))
<1>. DEFINE q == After(a, p, Lists)
<1>1. /\ StateOK(a, q)
      /\ \A v \in OnlineAt(a) :
            /\ RoomRight(a, p, v) => RoomRight(a, q, v)
            /\ LinesRight(a, p, v) => LinesRight(a, q, v)
            /\ UsersRight(a, p, v) => UsersRight(a, q, v)
            /\ RoomRight(a, p, v) => CountsRight(a, q, v)
  BY AfterLists
<1>. HIDE DEF q
<1>2. AllRight(a, q)
  BY <1>1 DEF AllRight, NearlyRight
<1>. QED BY <1>2 DEF q

\* A message leaves all right.
LEMMA AllPost ==
    ASSUME NEW a, NEW p, StateOK(a, p), AllRight(a, p), NEW r \in RoomIds, p.rooms[r] # Absent
    PROVE  LET q == After(a, p, Post(r))
           IN  /\ StateOK(a, q) /\ AllRight(a, q)
               /\ \A s \in RoomIds : q.rooms[s] # Absent <=> p.rooms[s] # Absent
<1>. DEFINE q == After(a, p, Post(r))
<1>1. /\ StateOK(a, q)
      /\ \A s \in RoomIds : q.rooms[s] # Absent <=> p.rooms[s] # Absent
      /\ \A v \in OnlineAt(a) :
            /\ RoomRight(a, p, v) => RoomRight(a, q, v)
            /\ UsersRight(a, p, v) => UsersRight(a, q, v)
            /\ CountsRight(a, p, v) => CountsRight(a, q, v)
            /\ (RoomRight(a, p, v) \/ a[v] # r) /\ LinesRight(a, p, v) => LinesRight(a, q, v)
  BY AfterPost
<1>. HIDE DEF q
<1>2. AllRight(a, q)
  BY <1>1 DEF AllRight, NearlyRight
<1>. QED BY <1>1, <1>2 DEF q

\* The users of a room, shown once more, leave all right.
LEMMA AllUsers ==
    ASSUME NEW a, NEW p, StateOK(a, p), AllRight(a, p), NEW r \in RoomIds
    PROVE  AllRight(a, After(a, p, Users(r)))
<1>. DEFINE q == After(a, p, Users(r))
<1>1. \A v \in OnlineAt(a) :
          /\ RoomRight(a, p, v) => RoomRight(a, q, v)
          /\ LinesRight(a, p, v) => LinesRight(a, q, v)
          /\ CountsRight(a, p, v) => CountsRight(a, q, v)
          /\ RoomRight(a, p, v) /\ (a[v] = r \/ UsersRight(a, p, v)) => UsersRight(a, q, v)
  BY AfterUsers
<1>. HIDE DEF q
<1>2. AllRight(a, q)
  BY <1>1 DEF AllRight, NearlyRight
<1>. QED BY <1>2 DEF q

\* All of a screen is right.
ScreenRight(a, rs, v, x) ==
    /\ x.room = a[v] /\ x.topic = rs[a[v]].topic
    /\ v = Host \/ MembersAt(a, a[v]) \in Listable => x.users = MembersAt(a, a[v])
    /\ LinesFollow(v, x.lines, rs[a[v]].recent) /\ x.rooms = CountsAt(a, rs)

\* All is right when every screen is.
LEMMA AllScreens ==
    ASSUME NEW a, NEW p
    PROVE  AllRight(a, p) <=> \A v \in OnlineAt(a) : ScreenRight(a, p.rooms, v, p.view[v])
BY DEF AllRight, NearlyRight, ScreenRight, RoomRight, UsersRight, LinesRight, CountsRight

\* A delivery that makes every screen right.
LEMMA FrameRight ==
    ASSUME NEW a, NEW p, StateOK(a, p), NEW to, NEW f,
           \A v \in Viewers : v \in to => Receive(v, p.view[v], f) \in ViewType,
           \A v \in OnlineAt(a) :
               /\ v \in to => ScreenRight(a, p.rooms, v, Receive(v, p.view[v], f))
               /\ v \notin to => ScreenRight(a, p.rooms, v, p.view[v])
    PROVE  LET q == After(a, p, Deliver(to, f))
           IN  StateOK(a, q) /\ AllRight(a, q) /\ q.rooms = p.rooms
<1>. DEFINE q == Shows(p, to, f)
<1>1. After(a, p, Deliver(to, f)) = q
  BY AfterFrame
<1>2. StateOK(a, q)
  BY ShowsOK
<1>3. /\ q.rooms = p.rooms
      /\ q.view = [v \in Viewers |-> IF v \in to THEN Receive(v, p.view[v], f) ELSE p.view[v]]
  BY ShowsFields
<1>. HIDE DEF q
<1>4. \A v \in Viewers : q.view[v] = IF v \in to THEN Receive(v, p.view[v], f) ELSE p.view[v]
  BY <1>3
<1>5. ASSUME NEW v \in OnlineAt(a) PROVE ScreenRight(a, q.rooms, v, q.view[v])
  <2>1. v \in Viewers
    BY DEF OnlineAt
  <2>2. CASE v \in to
    <3>1. q.view[v] = Receive(v, p.view[v], f)
      BY <1>4, <2>1, <2>2
    <3>. QED BY <1>3, <2>2, <3>1
  <2>3. CASE v \notin to
    <3>1. q.view[v] = p.view[v]
      BY <1>4, <2>1, <2>3
    <3>. QED BY <1>3, <2>3, <3>1
  <2>. QED BY <2>2, <2>3
<1>6. AllRight(a, q)
  BY <1>5, AllScreens
<1>. QED BY <1>1, <1>2, <1>3, <1>6

\* send_private_in_room: a line that belongs to no room.
LEMMA WhisperRight ==
    ASSUME NEW a, NEW p, StateOK(a, p), AllRight(a, p), NEW to
    PROVE  AllRight(a, After(a, p, Deliver(to, Whisper)))
<1>. DEFINE f == Whisper
<1>1. ASSUME NEW v \in Viewers
      PROVE  LET h == Receive(v, p.view[v], f)
                 x == p.view[v]
             IN  /\ h \in ViewType /\ h.room = x.room /\ h.users = x.users
                 /\ h.topic = x.topic /\ h.rooms = x.rooms
                 /\ x.room # Gone => h.lines = Keep(x.lines \o <<PrivateLine>>, MaxLines)
  <2>1. p.view[v] \in ViewType
    BY DEF StateOK
  <2>. QED BY <2>1, ShowWhisper
<1>. HIDE DEF f
<1>2. ASSUME NEW v \in OnlineAt(a)
      PROVE  /\ ScreenRight(a, p.rooms, v, p.view[v])
             /\ ScreenRight(a, p.rooms, v, Receive(v, p.view[v], f))
  <2>. DEFINE h == Receive(v, p.view[v], f)
              x == p.view[v]
              recent == p.rooms[a[v]].recent
              ls == Keep(x.lines \o <<PrivateLine>>, MaxLines)
  <2>1. ScreenRight(a, p.rooms, v, x)
    BY AllScreens
  <2>2. v \in Viewers /\ a[v] # Gone /\ x.lines \in Seq(Message) /\ recent \in Seq(Message)
    BY OnlineFacts
  <2>3. x.room # Gone /\ LinesFollow(v, x.lines, recent)
    BY <2>1, <2>2 DEF ScreenRight
  <2>4. /\ h.room = x.room /\ h.users = x.users /\ h.topic = x.topic /\ h.rooms = x.rooms
        /\ h.lines = ls
    BY <1>1, <2>2, <2>3
  <2>5. LinesFollow(v, ls, recent)
    <3>. HIDE DEF recent, x
    <3>1. \A lines \in Seq(Message), old \in Seq(Message) :
              LinesFollow(v, lines, old)
                 => LinesFollow(v, Keep(lines \o <<PrivateLine>>, MaxLines), old)
      BY LinesWhispered
    <3>. QED BY <2>2, <2>3, <3>1
  <2>. HIDE DEF ls, h
  <2>6. ScreenRight(a, p.rooms, v, h)
    BY <2>1, <2>4, <2>5 DEF ScreenRight
  <2>. QED BY <2>1, <2>6 DEF h
<1>3. AllRight(a, After(a, p, Deliver(to, f)))
  BY <1>1, <1>2, FrameRight
<1>. QED BY <1>3 DEF f

\* A frame that changes no more than the topic: it is right if the topic is the
\* one of the room.
LEMMA TopicRight ==
    ASSUME NEW a, NEW p, StateOK(a, p), NEW r \in RoomIds, p.rooms[r] # Absent, NEW to,
           \A v \in OnlineAt(a) :
               /\ p.view[v].topic = p.rooms[a[v]].topic \/ (a[v] = r /\ v \in to)
               /\ p.view[v].room = a[v] /\ UsersRight(a, p, v)
               /\ LinesRight(a, p, v) /\ CountsRight(a, p, v)
    PROVE  LET q == After(a, p, Deliver(to, RoomTopic(r, p.rooms[r].topic)))
           IN  StateOK(a, q) /\ AllRight(a, q) /\ q.rooms = p.rooms
<1>. DEFINE topic == p.rooms[r].topic
            f == RoomTopic(r, topic)
<1>1. topic \in TopicVals /\ r # Gone
  <2>1. p.rooms[r] \in Room
    BY DEF StateOK
  <2>. QED BY <2>1, FeedFacts DEF Room, TopicVals
<1>. HIDE DEF topic
<1>2. ASSUME NEW v \in Viewers
      PROVE  LET h == Receive(v, p.view[v], f)
                 x == p.view[v]
             IN  /\ h \in ViewType /\ h.room = x.room /\ h.users = x.users
                 /\ h.lines = x.lines /\ h.rooms = x.rooms
                 /\ x.room = r => h.topic = topic
                 /\ x.room # r => h.topic = x.topic
  <2>1. p.view[v] \in ViewType
    BY DEF StateOK
  <2>2. p.view[v].room # r => Receive(v, p.view[v], f) = p.view[v]
    BY DEF Receive, Encodes, Handle, RoomTopic
  <2>. QED BY <1>1, <2>1, <2>2, ShowTopic
<1>. HIDE DEF f
<1>3. ASSUME NEW v \in OnlineAt(a)
      PROVE  /\ v \notin to => ScreenRight(a, p.rooms, v, p.view[v])
             /\ v \in to => ScreenRight(a, p.rooms, v, Receive(v, p.view[v], f))
  <2>. DEFINE h == Receive(v, p.view[v], f)
              x == p.view[v]
  <2>1. /\ x.room = a[v]
        /\ v = Host \/ MembersAt(a, a[v]) \in Listable => x.users = MembersAt(a, a[v])
        /\ LinesFollow(v, x.lines, p.rooms[a[v]].recent) /\ x.rooms = CountsAt(a, p.rooms)
        /\ x.topic = p.rooms[a[v]].topic \/ (a[v] = r /\ v \in to)
    BY DEF UsersRight, LinesRight, CountsRight
  <2>2. /\ h.room = x.room /\ h.users = x.users /\ h.lines = x.lines /\ h.rooms = x.rooms
        /\ x.room = r => h.topic = topic
        /\ x.room # r => h.topic = x.topic
    BY <1>2 DEF OnlineAt
  <2>3. a[v] = r => topic = p.rooms[a[v]].topic
    BY DEF topic
  <2>. HIDE DEF h, x
  <2>4. v \notin to => ScreenRight(a, p.rooms, v, x)
    BY <2>1 DEF ScreenRight
  <2>5. v \in to => ScreenRight(a, p.rooms, v, h)
    BY <2>1, <2>2, <2>3 DEF ScreenRight
  <2>. QED BY <2>4, <2>5 DEF h, x
<1>4. LET q == After(a, p, Deliver(to, f))
      IN  StateOK(a, q) /\ AllRight(a, q) /\ q.rooms = p.rooms
  BY <1>2, <1>3, FrameRight
<1>. QED BY <1>4 DEF f, topic

\* send_topic: the topic of the room that the client is in.
LEMMA TopicAnswered ==
    ASSUME NEW a, NEW p, StateOK(a, p), AllRight(a, p), NEW c \in OnlineAt(a)
    PROVE  AllRight(a, After(a, p, Deliver({c}, RoomTopic(a[c], p.rooms[a[c]].topic))))
<1>. DEFINE r == a[c]
<1>1. r \in RoomIds /\ p.rooms[r] # Absent
  BY OnlineFacts
<1>. HIDE DEF r
<1>2. ASSUME NEW v \in OnlineAt(a)
      PROVE  /\ p.view[v].topic = p.rooms[a[v]].topic \/ (a[v] = r /\ v \in {c})
             /\ p.view[v].room = a[v] /\ UsersRight(a, p, v)
             /\ LinesRight(a, p, v) /\ CountsRight(a, p, v)
  <2>1. RoomRight(a, p, v) /\ UsersRight(a, p, v) /\ LinesRight(a, p, v) /\ CountsRight(a, p, v)
    BY DEF AllRight, NearlyRight
  <2>. QED BY <2>1 DEF RoomRight
<1>3. AllRight(a, After(a, p, Deliver({c}, RoomTopic(r, p.rooms[r].topic))))
  BY <1>1, <1>2, TopicRight
<1>. QED BY <1>3 DEF r

\* send_room_list: the sizes of the rooms.
LEMMA ListAnswered ==
    ASSUME NEW a, NEW p, StateOK(a, p), AllRight(a, p), NEW to
    PROVE  AllRight(a, After(a, p, Deliver(to, RoomList(CountsAt(a, p.rooms)))))
<1>. DEFINE n == CountsAt(a, p.rooms)
            f == RoomList(n)
<1>1. n \in CountVals
  BY CountsShown
<1>. HIDE DEF n
<1>2. ASSUME NEW v \in Viewers
      PROVE  LET h == Receive(v, p.view[v], f)
                 x == p.view[v]
             IN  /\ h \in ViewType /\ h.room = x.room /\ h.users = x.users
                 /\ h.lines = x.lines /\ h.topic = x.topic
                 /\ x.room # Gone => h.rooms = n
  <2>1. p.view[v] \in ViewType
    BY DEF StateOK
  <2>. QED BY <1>1, <2>1, ShowRooms
<1>. HIDE DEF f
<1>3. ASSUME NEW v \in OnlineAt(a)
      PROVE  /\ ScreenRight(a, p.rooms, v, p.view[v])
             /\ ScreenRight(a, p.rooms, v, Receive(v, p.view[v], f))
  <2>. DEFINE h == Receive(v, p.view[v], f)
              x == p.view[v]
  <2>1. ScreenRight(a, p.rooms, v, x)
    BY AllScreens
  <2>2. v \in Viewers /\ x.room # Gone
    BY <2>1, OnlineFacts DEF ScreenRight
  <2>3. /\ h.room = x.room /\ h.users = x.users /\ h.lines = x.lines /\ h.topic = x.topic
        /\ h.rooms = CountsAt(a, p.rooms)
    BY <1>2, <2>2 DEF n
  <2>. HIDE DEF h, x
  <2>4. ScreenRight(a, p.rooms, v, h)
    BY <2>1, <2>3 DEF ScreenRight
  <2>. QED BY <2>1, <2>4 DEF h, x
<1>4. AllRight(a, After(a, p, Deliver(to, f)))
  BY <1>2, <1>3, FrameRight
<1>. QED BY <1>4 DEF f, n

\* set_topic_for_room: the topic is stored, shown to the members, and a message
\* tells them.
LEMMA TopicSet ==
    ASSUME NEW a, NEW p, StateOK(a, p), AllRight(a, p), NEW r \in RoomIds, p.rooms[r] # Absent,
           NEW topic \in TopicVals, NEW w
    PROVE  LET b == State([p.rooms EXCEPT ![r] = [p.rooms[r] EXCEPT !.topic = topic]], p.view,
                          p.posts)
               s == <<Store(w), Deliver(MembersAt(a, r), RoomTopic(r, topic)), Post(r)>>
           IN  AllRight(a, Drained(a, b, s))
<1>. DEFINE old == p.rooms[r]
            x == [old EXCEPT !.topic = topic]
            b == State([p.rooms EXCEPT ![r] = x], p.view, p.posts)
            here == MembersAt(a, r)
            y == Deliver(here, RoomTopic(r, topic))
            s == <<Store(w), y, Post(r)>>
<1>1. old \in Room /\ p.posts \in Nat
  BY DEF StateOK
<1>2. x \in Room /\ x.topic = topic /\ x.recent = old.recent
  <2>. HIDE DEF old
  <2>. QED BY <1>1 DEF Room, TopicVals
<1>. HIDE DEF x
<1>3. /\ StateOK(a, b) /\ b.rooms[r] = x /\ b.view = p.view
      /\ \A i \in RoomIds : i # r => b.rooms[i] = p.rooms[i]
      /\ \A i \in RoomIds : b.rooms[i] # Absent <=> p.rooms[i] # Absent
      /\ CountsAt(a, b.rooms) = CountsAt(a, p.rooms)
  BY <1>1, <1>2, RoomChanged
<1>. HIDE DEF b
<1>4. ASSUME NEW v \in OnlineAt(a)
      PROVE  /\ b.view[v].topic = b.rooms[a[v]].topic \/ (a[v] = r /\ v \in here)
             /\ b.view[v].room = a[v] /\ UsersRight(a, b, v)
             /\ LinesRight(a, b, v) /\ CountsRight(a, b, v)
  <2>1. RoomRight(a, p, v) /\ UsersRight(a, p, v) /\ LinesRight(a, p, v) /\ CountsRight(a, p, v)
    BY DEF AllRight, NearlyRight
  <2>2. v \in Viewers /\ a[v] \in RoomIds
    BY OnlineFacts
  <2>3. b.rooms[a[v]].recent = p.rooms[a[v]].recent
    BY <1>2, <1>3, <2>2
  <2>4. b.view[v].topic = b.rooms[a[v]].topic \/ (a[v] = r /\ v \in here)
    <3>1. CASE a[v] = r
      BY <2>2, <3>1 DEF MembersAt
    <3>2. CASE a[v] # r
      BY <1>3, <2>1, <2>2, <3>2 DEF RoomRight
    <3>. QED BY <3>1, <3>2
  <2>. QED BY <1>3, <2>1, <2>3, <2>4 DEF RoomRight, UsersRight, LinesRight, CountsRight
<1>5. b.rooms[r] # Absent /\ b.rooms[r].topic = topic
  BY <1>2, <1>3
<1>. DEFINE q == After(a, b, y)
<1>6. StateOK(a, q) /\ AllRight(a, q) /\ q.rooms = b.rooms
  <2>. HIDE DEF here
  <2>1. \A v \in OnlineAt(a) :
            /\ b.view[v].topic = b.rooms[a[v]].topic \/ (a[v] = r /\ v \in here)
            /\ b.view[v].room = a[v] /\ UsersRight(a, b, v)
            /\ LinesRight(a, b, v) /\ CountsRight(a, b, v)
    BY <1>4
  <2>2. StateOK(a, b) /\ b.rooms[r] # Absent
    BY <1>3, <1>5
  <2>3. LET e == After(a, b, Deliver(here, RoomTopic(r, b.rooms[r].topic)))
        IN  StateOK(a, e) /\ AllRight(a, e) /\ e.rooms = b.rooms
    BY <2>1, <2>2, TopicRight
  <2>. QED BY <1>5, <2>3
<1>7. Store(w).op = "store"
  BY DEF Store
<1>8. After(a, b, Store(w)) = b
  BY <1>7, AfterStore
<1>. HIDE DEF y, q
<1>9. AllRight(a, After(a, q, Post(r)))
  BY <1>5, <1>6, AllPost
<1>10. Drained(a, b, s) = After(a, q, Post(r))
  BY <1>8, DrainThree DEF q
<1>11. AllRight(a, Drained(a, b, s))
  BY <1>9, <1>10
<1>. QED BY <1>11 DEF b, y, x

\* A new room, in which nobody is: the screens are as right as before.
LEMMA RoomCreated ==
    ASSUME NEW a, NEW p, StateOK(a, p), NearlyRight(a, p), NEW r \in RoomIds,
           p.rooms[r] = Absent, NEW x \in Room
    PROVE  LET q == State([p.rooms EXCEPT ![r] = x], p.view, p.posts)
           IN  StateOK(a, q) /\ NearlyRight(a, q)
<1>. DEFINE q == State([p.rooms EXCEPT ![r] = x], p.view, p.posts)
<1>1. q.rooms = [p.rooms EXCEPT ![r] = x] /\ q.view = p.view /\ q.posts = p.posts
  BY StateFields
<1>. HIDE DEF q
<1>2. x # Absent /\ p.rooms \in [RoomIds -> Room \cup {Absent}]
  BY FeedFacts DEF StateOK
<1>3. q.rooms[r] = x /\ \A s \in RoomIds : s # r => q.rooms[s] = p.rooms[s]
  BY <1>1, <1>2
<1>4. q.rooms \in [RoomIds -> Room \cup {Absent}]
  BY <1>1, <1>2
<1>5. \A v \in Viewers : a[v] # 0 => q.rooms[a[v]] # Absent /\ q.rooms[a[v]] = p.rooms[a[v]]
  BY <1>3 DEF StateOK
<1>6. StateOK(a, q)
  BY <1>1, <1>4, <1>5 DEF StateOK
<1>7. NearlyRight(a, q)
  BY <1>1, <1>5 DEF NearlyRight, OnlineAt, RoomRight, UsersRight, LinesRight
<1>. QED BY <1>6, <1>7 DEF q

\* Somebody goes from one room to another: the other rooms keep their members.
LEMMA Moved ==
    ASSUME NEW a \in [Viewers -> {0} \cup RoomIds], NEW v \in Viewers, NEW r \in {0} \cup RoomIds
    PROVE  LET b == [a EXCEPT ![v] = r]
           IN  /\ b \in [Viewers -> {0} \cup RoomIds] /\ b[v] = r
               /\ \A w \in Viewers : w # v => b[w] = a[w]
               /\ \A s : s \notin {a[v], r} => MembersAt(b, s) = MembersAt(a, s)
<1>. DEFINE b == [a EXCEPT ![v] = r]
<1>1. /\ b \in [Viewers -> {0} \cup RoomIds] /\ b[v] = r
      /\ \A w \in Viewers : w # v => b[w] = a[w]
  OBVIOUS
<1>. HIDE DEF b
<1>2. ASSUME NEW s, s \notin {a[v], r} PROVE MembersAt(b, s) = MembersAt(a, s)
  <2>1. \A w \in Viewers : b[w] = s <=> a[w] = s
    BY <1>1, <1>2
  <2>. QED BY <2>1 DEF MembersAt
<1>. QED BY <1>1, <1>2 DEF b

\* The screens of those who stay are right but for the users of the two rooms.
LEMMA MovedRight ==
    ASSUME NEW a, NEW p, StateOK(a, p), NearlyRight(a, p), NEW v \in Viewers,
           NEW r \in {0} \cup RoomIds, r # 0 => p.rooms[r] # Absent,
           NEW q, StateOK([a EXCEPT ![v] = r], q), q.rooms = p.rooms,
           \A w \in Viewers : w # v => q.view[w] = p.view[w]
    PROVE  PartRight([a EXCEPT ![v] = r], q, {v}, {a[v], r})
<1>. DEFINE b == [a EXCEPT ![v] = r]
<1>1. a \in [Viewers -> {0} \cup RoomIds]
  BY DEF StateOK
<1>2. /\ b[v] = r /\ \A w \in Viewers : w # v => b[w] = a[w]
      /\ \A s : s \notin {a[v], r} => MembersAt(b, s) = MembersAt(a, s)
  BY <1>1, Moved
<1>. HIDE DEF b
<1>3. ASSUME NEW w \in OnlineAt(b), w # v
      PROVE  /\ RoomRight(b, q, w) /\ LinesRight(b, q, w)
             /\ b[w] \notin {a[v], r} => UsersRight(b, q, w)
  <2>1. w \in Viewers /\ b[w] = a[w] /\ w \in OnlineAt(a) /\ q.view[w] = p.view[w]
    BY <1>2, <1>3 DEF OnlineAt
  <2>2. RoomRight(a, p, w) /\ UsersRight(a, p, w) /\ LinesRight(a, p, w)
    BY <2>1 DEF NearlyRight
  <2>3. RoomRight(b, q, w) /\ LinesRight(b, q, w)
    BY <2>1, <2>2 DEF RoomRight, LinesRight
  <2>4. ASSUME b[w] \notin {a[v], r} PROVE UsersRight(b, q, w)
    <3>1. MembersAt(b, b[w]) = MembersAt(a, a[w])
      BY <1>2, <2>1, <2>4
    <3>. QED BY <2>1, <2>2, <3>1 DEF UsersRight
  <2>. QED BY <2>3, <2>4
<1>4. PartRight(b, q, {v}, {a[v], r})
  BY <1>3 DEF PartRight
<1>. QED BY <1>4 DEF b

\* A client that has gone: the others are shown all but that.
GoneFrom(a, c)   == [a EXCEPT ![c] = 0]
ShownGone(p, c)  == State(p.rooms, [p.view EXCEPT ![c] = Blank(Gone)], p.posts)

LEMMA Departed ==
    ASSUME NEW a, NEW p, StateOK(a, p), AllRight(a, p), NEW c \in OnlineAt(a)
    PROVE  /\ StateOK(GoneFrom(a, c), ShownGone(p, c)) /\ ShownGone(p, c).rooms = p.rooms
           /\ PartRight(GoneFrom(a, c), ShownGone(p, c), {}, {a[c]})
           /\ a[c] \in RoomIds /\ p.rooms[a[c]] # Absent
<1>. DEFINE b == [a EXCEPT ![c] = 0]
            q == State(p.rooms, [p.view EXCEPT ![c] = Blank(Gone)], p.posts)
            r == a[c]
<1>1. c \in Viewers /\ r \in RoomIds /\ p.rooms[r] # Absent /\ NearlyRight(a, p)
  BY OnlineFacts DEF AllRight
<1>2. /\ q.rooms = p.rooms /\ q.view = [p.view EXCEPT ![c] = Blank(Gone)] /\ q.posts = p.posts
  BY StateFields
<1>3. Blank(Gone) \in ViewType
  <2>1. Gone \in 0 .. Gone
    BY FeedFacts DEF Gone
  <2>. QED BY <2>1, BlankScreen
<1>. HIDE DEF q
<1>4. q.view \in [Viewers -> ViewType] /\ \A w \in Viewers : w # c => q.view[w] = p.view[w]
  BY <1>1, <1>2, <1>3 DEF StateOK
<1>5. /\ b \in [Viewers -> {0} \cup RoomIds] /\ b[c] = 0
      /\ \A w \in Viewers : w # c => b[w] = a[w]
  BY <1>1, Moved DEF StateOK
<1>6. StateOK(b, q)
  <2>. HIDE DEF b
  <2>. QED BY <1>2, <1>4, <1>5 DEF StateOK
<1>7. PartRight(b, q, {c}, {r, 0})
  <2>. HIDE DEF r
  <2>1. PartRight(b, q, {c}, {a[c], 0})
    BY <1>1, <1>2, <1>4, <1>6, MovedRight
  <2>. QED BY <2>1 DEF r
<1>. HIDE DEF b, r
<1>8. PartRight(b, q, {}, {r})
  BY <1>5, <1>7 DEF PartRight, OnlineAt
<1>. QED BY <1>1, <1>2, <1>6, <1>8 DEF b, q, r, GoneFrom, ShownGone

\* The users of the room are shown, and all are shown the sizes.
LEMMA RoomTold ==
    ASSUME NEW a, NEW p, StateOK(a, p), NEW r \in RoomIds, PartRight(a, p, {}, {r})
    PROVE  LET q == After(a, After(a, p, Users(r)), Lists)
           IN  StateOK(a, q) /\ AllRight(a, q) /\ q.rooms = p.rooms
<1>. DEFINE u == After(a, p, Users(r))
<1>1. StateOK(a, u) /\ PartRight(a, u, {}, {r} \ {r}) /\ u.rooms = p.rooms
  BY PartUsers, AfterUsers
<1>. HIDE DEF u
<1>2. NearlyRight(a, u)
  <2>1. {r} \ {r} = {}
    OBVIOUS
  <2>. QED BY <1>1, <2>1, PartNearly
<1>3. LET q == After(a, u, Lists)
      IN  StateOK(a, q) /\ AllRight(a, q) /\ q.rooms = p.rooms
  BY <1>1, <1>2, PartLists, AfterLists
<1>. QED BY <1>3 DEF u

\* disconnect: the room is told, and all are shown the sizes.
LEMMA Disconnected ==
    ASSUME NEW a, NEW p, StateOK(a, p), NEW r \in RoomIds, p.rooms[r] # Absent,
           PartRight(a, p, {}, {r})
    PROVE  AllRight(a, Drained(a, p, LeftSteps(r)))
<1>. DEFINE q == After(a, p, Post(r))
<1>1. StateOK(a, q) /\ PartRight(a, q, {}, {r})
  BY PartPost
<1>. HIDE DEF q
<1>2. AllRight(a, After(a, After(a, q, Users(r)), Lists))
  BY <1>1, RoomTold
<1>. QED BY <1>2, DrainThree DEF q, LeftSteps

\* kick_user_in_room and ban_user: the line comes last, with the users again.
LEMMA Kicked ==
    ASSUME NEW a, NEW p, StateOK(a, p), NEW r \in RoomIds, p.rooms[r] # Absent,
           PartRight(a, p, {}, {r})
    PROVE  AllRight(a, Drained(a, p, KickedSteps(r)))
<1>. DEFINE q == After(a, After(a, p, Users(r)), Lists)
            u == After(a, q, Post(r))
<1>1. StateOK(a, q) /\ AllRight(a, q) /\ q.rooms = p.rooms
  BY RoomTold
<1>. HIDE DEF q
<1>2. StateOK(a, u) /\ AllRight(a, u)
  BY <1>1, AllPost
<1>. HIDE DEF u
<1>3. AllRight(a, After(a, u, Users(r)))
  BY <1>2, AllUsers
<1>. QED BY <1>3, DrainFour DEF q, u, KickedSteps

\* The room that a user has left is told.
LEMMA OldRoomTold ==
    ASSUME NEW b, NEW p, StateOK(b, p), NEW v \in Viewers, NEW r \in RoomIds, b[v] = r,
           NEW old \in RoomIds, old # r, p.rooms[old] # Absent, PartRight(b, p, {v}, {old, r})
    PROVE  LET q == After(b, After(b, p, Post(old)), Users(old))
           IN  /\ StateOK(b, q) /\ PartRight(b, q, {v}, {r})
               /\ q.rooms[r] = p.rooms[r] /\ q.view[v] = p.view[v]
<1>. DEFINE s == After(b, p, Post(old))
            u == After(b, s, Users(old))
<1>1. StateOK(b, s) /\ PartRight(b, s, {v}, {old, r})
  BY PartPost
<1>2. /\ \A i \in RoomIds : i # old => s.rooms[i] = p.rooms[i]
      /\ \A w \in Viewers : b[w] # old => s.view[w] = p.view[w]
  BY AfterPost
<1>. HIDE DEF s
<1>3. StateOK(b, u) /\ PartRight(b, u, {v}, {old, r} \ {old})
  BY <1>1, PartUsers
<1>4. u.rooms = s.rooms /\ \A w \in Viewers : b[w] # old => u.view[w] = s.view[w]
  BY <1>1, AfterUsers
<1>. HIDE DEF u
<1>5. {old, r} \ {old} = {r}
  OBVIOUS
<1>6. PartRight(b, u, {v}, {r})
  BY <1>3, <1>5
<1>7. u.rooms[r] = p.rooms[r] /\ u.view[v] = p.view[v]
  BY <1>2, <1>4
<1>. QED BY <1>3, <1>6, <1>7 DEF s, u

\* The new room, its topic and its history are shown to the one who enters.
LEMMA NewRoomShown ==
    ASSUME NEW b, NEW p, StateOK(b, p), NEW v \in Viewers, NEW r \in RoomIds, b[v] = r,
           p.rooms[r] # Absent, p.view[v].room # Gone, PartRight(b, p, {v}, {r}),
           LinesFollow(v, Keep(<<>> \o p.rooms[r].recent, MaxLines), p.rooms[r].recent)
    PROVE  LET s == After(b, p, Deliver({v}, RoomJoined(r, p.rooms[r].topic)))
               u == After(b, s, Deliver({v}, RoomText(r, p.rooms[r].recent)))
           IN  StateOK(b, u) /\ PartRight(b, u, {}, {r}) /\ u.rooms = p.rooms
<1>. DEFINE topic == p.rooms[r].topic
            recent == p.rooms[r].recent
            f == RoomJoined(r, topic)
            g == RoomText(r, recent)
            s == Shows(p, {v}, f)
            u == Shows(s, {v}, g)
<1>1. topic \in TopicVals /\ recent \in Seq(Message) /\ r # Gone
  <2>1. p.rooms[r] \in Room
    BY DEF StateOK
  <2>. QED BY <2>1, FeedFacts DEF Room, TopicVals
<1>2. After(b, p, Deliver({v}, f)) = s /\ After(b, s, Deliver({v}, g)) = u
  <2>. HIDE DEF f, g, s
  <2>1. After(b, s, Deliver({v}, g)) = u
    BY AfterFrame
  <2>2. After(b, p, Deliver({v}, f)) = Shows(p, {v}, f)
    BY AfterFrame
  <2>. QED BY <2>1, <2>2 DEF s
<1>. HIDE DEF topic, recent
<1>3. ASSUME NEW w \in Viewers
      PROVE  LET h == Receive(w, p.view[w], f)
             IN  /\ h \in ViewType
                 /\ p.view[w].room # Gone => h.room = r /\ h.topic = topic /\ h.lines = <<>>
  <2>1. p.view[w] \in ViewType
    BY DEF StateOK
  <2>. QED BY <1>1, <2>1, ShowJoined
<1>. HIDE DEF f
<1>4. /\ s.rooms = p.rooms
      /\ s.view = [w \in Viewers |-> IF w \in {v} THEN Receive(w, p.view[w], f) ELSE p.view[w]]
  BY ShowsFields
<1>5. StateOK(b, s)
  BY <1>3, ShowsOK
<1>. HIDE DEF s
<1>6. \A w \in Viewers : s.view[w] = IF w \in {v} THEN Receive(w, p.view[w], f) ELSE p.view[w]
  BY <1>4
<1>7. s.view[v].room = r /\ s.view[v].topic = topic /\ s.view[v].lines = <<>>
  BY <1>3, <1>6
<1>8. ASSUME NEW w \in Viewers
      PROVE  LET h == Receive(w, s.view[w], g)
                 x == s.view[w]
             IN  /\ h \in ViewType /\ h.room = x.room /\ h.topic = x.topic
                 /\ x.room = r => h.lines = Keep(x.lines \o recent, MaxLines)
  <2>1. s.view[w] \in ViewType
    BY <1>5 DEF StateOK
  <2>. QED BY <1>1, <2>1, ShowText
<1>. HIDE DEF g
<1>9. /\ u.rooms = s.rooms
      /\ u.view = [w \in Viewers |-> IF w \in {v} THEN Receive(w, s.view[w], g) ELSE s.view[w]]
  BY ShowsFields
<1>10. StateOK(b, u)
  BY <1>5, <1>8, ShowsOK
<1>. HIDE DEF u
<1>11. \A w \in Viewers : u.view[w] = IF w \in {v} THEN Receive(w, s.view[w], g) ELSE s.view[w]
  BY <1>9
<1>12. u.view[v].room = r /\ u.view[v].topic = topic
       /\ u.view[v].lines = Keep(<<>> \o recent, MaxLines)
  <2>. DEFINE h == Receive(v, s.view[v], g)
  <2>1. u.view[v] = h
    BY <1>11
  <2>2. /\ h.room = s.view[v].room /\ h.topic = s.view[v].topic
        /\ h.lines = Keep(s.view[v].lines \o recent, MaxLines)
    BY <1>7, <1>8
  <2>. HIDE DEF h
  <2>. QED BY <1>7, <2>1, <2>2
<1>13. LinesFollow(v, Keep(<<>> \o recent, MaxLines), recent)
  BY DEF recent
<1>14. RoomRight(b, u, v) /\ LinesRight(b, u, v)
  BY <1>4, <1>9, <1>12, <1>13 DEF RoomRight, LinesRight, topic, recent
<1>15. ASSUME NEW w \in OnlineAt(b)
       PROVE  /\ RoomRight(b, u, w) /\ LinesRight(b, u, w)
              /\ b[w] \notin {r} => UsersRight(b, u, w)
  <2>1. CASE w = v
    BY <1>14, <2>1
  <2>2. CASE w # v
    <3>1. w \in Viewers /\ w \notin {v}
      BY <2>2 DEF OnlineAt
    <3>2. u.view[w] = p.view[w] /\ u.rooms = p.rooms
      BY <1>4, <1>6, <1>9, <1>11, <3>1
    <3>3. RoomRight(b, p, w) /\ LinesRight(b, p, w) /\ (b[w] \notin {r} => UsersRight(b, p, w))
      BY <3>1 DEF PartRight
    <3>. QED BY <3>2, <3>3 DEF RoomRight, LinesRight, UsersRight
  <2>. QED BY <2>1, <2>2
<1>16. PartRight(b, u, {}, {r})
  BY <1>15 DEF PartRight
<1>17. u.rooms = p.rooms
  BY <1>4, <1>9
<1>. QED BY <1>2, <1>10, <1>16, <1>17 DEF f, g, topic, recent

\* What the invariants say of the rooms and the screens now.
LEMMA StateNow ==
    ASSUME FeedInv, ViewsInv
    PROVE  /\ StateOK(at, Now) /\ Now.rooms = rooms /\ Now.view = view /\ Now.posts = posts
           /\ OnlineAt(at) = Online /\ \A r : MembersAt(at, r) = Members(r)
           /\ CountsAt(at, rooms) = Counts
<1>1. Now.rooms = rooms /\ Now.view = view /\ Now.posts = posts
  BY StateFields DEF Now
<1>2. StateOK(at, Now)
  BY <1>1 DEF StateOK, FeedInv, RoomsInv, PlacesInv, ViewsInv
<1>3. OnlineAt(at) = Online /\ \A r : MembersAt(at, r) = Members(r)
  BY DEF OnlineAt, Online, MembersAt, Members
<1>4. CountsAt(at, rooms) = Counts
  BY <1>3 DEF CountsAt, Counts, Exists
<1>. QED BY <1>1, <1>2, <1>3, <1>4

\* move_session_to_room and move_local_to_room: the old room is told, the new one
\* is shown, and so are its users and the sizes.
LEMMA MoveRight ==
    ASSUME FeedInv, ViewsInv, NEW c \in StepType, StepOK(rooms, c), NearlyRight(at, Now),
           MoveOK(at, Now, c)
    PROVE  LET b == [at EXCEPT ![c.who] = c.room]
           IN  Moveless(MoveSteps(c)) /\ AllRight(b, Drained(b, Now, MoveSteps(c)))
<1>. DEFINE v == c.who
            r == c.room
            b == [at EXCEPT ![v] = r]
            told == Told(c, at[v])
            enter == Enter(v, r)
            shown == <<Users(r), Lists>>
            p == Now
            q == Drained(b, p, told)
<1>1. /\ c.op = "move" /\ at[v] # r /\ p.view[v].room # Gone /\ (c.tell \/ at[v] = 0)
  BY DEF MoveOK
<1>2. /\ v \in Viewers /\ r \in RoomIds /\ rooms[r] # Absent
      /\ told \in Seq(GoodSteps(rooms)) /\ enter \in Seq(GoodSteps(rooms))
      /\ shown \in Seq(GoodSteps(rooms))
  BY <1>1, MoveGood
<1>3. Moveless(MoveSteps(c))
  BY MoveShows DEF Moveless
<1>4. StateOK(at, p) /\ p.rooms = rooms /\ NearlyRight(at, p) /\ p.rooms[r] # Absent
  BY <1>2, StateNow
<1>5. \A m \in GoodLines(rooms, r) : m.room # 0
  BY <1>2, FeedFacts DEF GoodLines
<1>6. rooms[r].recent \in Seq(GoodLines(rooms, r))
  BY <1>2, RoomFields
<1>7. MoveSteps(c) = told \o enter \o shown
  BY DEF MoveSteps
<1>. DEFINE S == GoodSteps(rooms)
            L == GoodLines(rooms, r)
            x == Deliver({v}, RoomJoined(r, rooms[r].topic))
            y == Deliver({v}, RoomText(r, rooms[r].recent))
<1>8. enter = <<x, y, Post(r)>>
  BY DEF Enter
<1>9. /\ StateOK(b, q) /\ b[v] = r /\ PartRight(b, q, {v}, {r})
      /\ q.rooms[r] = p.rooms[r] /\ q.view[v] = p.view[v]
  <2>. DEFINE old == at[v]
  <2>1. told = IF old # 0 THEN <<Post(old), Users(old)>> ELSE <<>>
    BY <1>1 DEF Told
  <2>. HIDE DEF p, v, r, told
  <2>2. old \in {0} \cup RoomIds /\ (old # 0 => p.rooms[old] # Absent)
    BY <1>2, <1>4 DEF StateOK
  <2>3. /\ b \in [Viewers -> {0} \cup RoomIds] /\ b[v] = r
        /\ \A w \in Viewers : w # v => b[w] = at[w]
    BY <1>2, <1>4, Moved DEF StateOK
  <2>4. StateOK(b, p)
    <3>. HIDE DEF b
    <3>. QED BY <1>4, <2>3 DEF StateOK
  <2>5. PartRight(b, p, {v}, {old, r})
    BY <1>2, <1>4, <2>4, MovedRight
  <2>. HIDE DEF b, old
  <2>6. old # r
    BY <1>1 DEF old
  <2>7. CASE old = 0
    <3>1. q = p
      BY <2>1, <2>7, DrainNothing
    <3>2. PartRight(b, p, {v}, {r})
      BY <2>5, <2>7 DEF PartRight, OnlineAt
    <3>. QED BY <2>3, <2>4, <3>1, <3>2
  <2>8. CASE old # 0
    <3>. DEFINE e == After(b, After(b, p, Post(old)), Users(old))
    <3>1. q = e
      BY <2>1, <2>8, DrainTwo
    <3>2. old \in RoomIds /\ p.rooms[old] # Absent
      BY <2>2, <2>8
    <3>3. /\ StateOK(b, e) /\ PartRight(b, e, {v}, {r})
          /\ e.rooms[r] = p.rooms[r] /\ e.view[v] = p.view[v]
      <4>1. v \in Viewers /\ r \in RoomIds /\ b[v] = r
        BY <1>2, <2>3
      <4>. QED BY <2>4, <2>5, <2>6, <3>2, <4>1, OldRoomTold
    <3>. HIDE DEF e, q
    <3>. QED BY <2>3, <3>1, <3>3
  <2>. QED BY <2>7, <2>8
<1>10. q.rooms[r] = rooms[r] /\ q.view[v].room # Gone
  BY <1>1, <1>4, <1>9
<1>. HIDE DEF b, q, p, S, L, told, enter, shown
<1>. DEFINE s == After(b, q, x)
            u == After(b, s, y)
<1>11. StateOK(b, u) /\ PartRight(b, u, {}, {r}) /\ u.rooms = q.rooms
  <2>1. /\ q.rooms[r].recent \in Seq(L) /\ (\A m \in L : m.room # 0) /\ q.rooms[r] # Absent
        /\ q.rooms[r].topic = rooms[r].topic /\ q.rooms[r].recent = rooms[r].recent
    BY <1>2, <1>5, <1>6, <1>10 DEF L
  <2>. DEFINE ss == After(b, q, Deliver({v}, RoomJoined(r, q.rooms[r].topic)))
              uu == After(b, ss, Deliver({v}, RoomText(r, q.rooms[r].recent)))
  <2>2. StateOK(b, uu) /\ PartRight(b, uu, {}, {r}) /\ uu.rooms = q.rooms
    <3>. HIDE DEF v, r
    <3>1. StateOK(b, q) /\ b[v] = r /\ PartRight(b, q, {v}, {r}) /\ q.view[v].room # Gone
      BY <1>9, <1>10
    <3>2. /\ LinesFollow(v, Keep(<<>> \o q.rooms[r].recent, MaxLines), q.rooms[r].recent)
          /\ q.rooms[r] # Absent
      BY <2>1, LinesEntered
    <3>. QED BY <1>2, <3>1, <3>2, NewRoomShown
  <2>3. uu = u
    BY <2>1
  <2>. HIDE DEF u, uu
  <2>. QED BY <2>2, <2>3
<1>12. Drained(b, q, enter) = After(b, u, Post(r))
  <2>. HIDE DEF x, y
  <2>. QED BY <1>8, DrainThree
<1>. HIDE DEF u, s, x, y, v, r
<1>. DEFINE d == After(b, u, Post(r))
            e == After(b, d, Users(r))
<1>13. StateOK(b, d) /\ PartRight(b, d, {}, {r})
  BY <1>2, <1>10, <1>11, PartPost
<1>. HIDE DEF d
<1>14. StateOK(b, e) /\ PartRight(b, e, {}, {r} \ {r})
  BY <1>2, <1>13, PartUsers
<1>. HIDE DEF e
<1>15. NearlyRight(b, e)
  <2>1. {r} \ {r} = {}
    OBVIOUS
  <2>. QED BY <1>14, <2>1, PartNearly
<1>16. AllRight(b, After(b, e, Lists))
  BY <1>14, <1>15, PartLists
<1>17. Drained(b, d, shown) = After(b, e, Lists)
  BY DrainTwo DEF e, shown
<1>18. Drained(b, p, told \o enter \o shown) = After(b, e, Lists)
  <2>1. told \in Seq(S) /\ enter \in Seq(S) /\ shown \in Seq(S) /\ told \o enter \in Seq(S)
    BY <1>2, Joined DEF S
  <2>2. Drained(b, p, told \o enter) = Drained(b, Drained(b, p, told), enter)
    BY <2>1, DrainJoined
  <2>3. Drained(b, p, told \o enter) = d
    BY <1>12, <2>2 DEF d, q
  <2>. DEFINE te == told \o enter
  <2>. HIDE DEF te
  <2>4. te \in Seq(S)
    BY <2>1 DEF te
  <2>5. Drained(b, p, te \o shown) = Drained(b, Drained(b, p, te), shown)
    BY <2>1, <2>4, DrainJoined
  <2>. QED BY <1>17, <2>3, <2>5 DEF te
<1>19. AllRight(b, Drained(b, p, MoveSteps(c)))
  BY <1>7, <1>16, <1>18
<1>. QED BY <1>3, <1>19 DEF b, p, v, r

\* Messages to any number of rooms, one after the other.
LEMMA PostsRight ==
    ASSUME NEW a, NEW p, StateOK(a, p), AllRight(a, p), NEW S, NEW q \in Seq(S),
           \A i \in 1 .. Len(q) : /\ q[i].op = "post" /\ q[i].room \in RoomIds
                                  /\ p.rooms[q[i].room] # Absent
    PROVE  AllRight(a, Drained(a, p, q))
<1>. DEFINE n == Len(q)
            f == Draining(a, p, q)
            Fine(x) == /\ StateOK(a, x) /\ AllRight(a, x)
                       /\ \A s \in RoomIds : x.rooms[s] # Absent <=> p.rooms[s] # Absent
            T == {i \in Nat : i <= n => Fine(f[i])}
<1>1. n \in Nat
  OBVIOUS
<1>2. f[0] = p /\ \A i \in 1 .. n : f[i] = After(a, f[i - 1], q[i])
  BY DrainingIs
<1>. HIDE DEF f
<1>3. 0 \in T
  BY <1>2
<1>4. ASSUME NEW i \in Nat, i \in T PROVE i + 1 \in T
  <2>1. SUFFICES ASSUME i + 1 <= n PROVE Fine(f[i + 1])
    OBVIOUS
  <2>2. i + 1 \in 1 .. n /\ (i + 1) - 1 = i
    BY <1>1, <2>1
  <2>. DEFINE x == f[i]
              c == q[i + 1]
              r == c.room
  <2>3. Fine(x)
    BY <1>1, <1>4, <2>1
  <2>4. c.op = "post" /\ r \in RoomIds /\ p.rooms[r] # Absent
    BY <2>2
  <2>5. f[i + 1] = After(a, x, c)
    BY <1>2, <2>2
  <2>6. After(a, x, c) = After(a, x, Post(r))
    BY <2>4 DEF After, Post
  <2>. HIDE DEF x, c, r, n
  <2>7. Fine(After(a, x, Post(r)))
    BY <2>3, <2>4, AllPost
  <2>. HIDE DEF Fine
  <2>. QED BY <2>5, <2>6, <2>7
<1>5. Nat \subseteq T
  <2>. HIDE DEF T
  <2>. QED BY <1>3, <1>4, SetInduction
<1>6. Fine(f[n])
  <2>. HIDE DEF Fine
  <2>. QED BY <1>1, <1>5
<1>. QED BY <1>6 DEF Drained, f

-----------------------------------------------------------------------------
(***************************************************************************)
(* The steps of the threads: what their queues lead to stays the same.     *)
(***************************************************************************)

\* The thread that goes on is the only busy one; what is shown of its new queue
\* is enough.
LEMMA CatchContinue ==
    ASSUME FeedInv, CatchInv, NEW t \in Threads, todo[t] # <<>>, NEW s, Continue(t, s)
    PROVE  /\ todo[t] \in Seq(GoodSteps(rooms)) /\ Tail(todo[t]) \in Seq(GoodSteps(rooms))
           /\ Catches(at, Now, todo[t])
           /\ Catches(at', Now', s \o Tail(todo[t])) => CatchInv'
<1>1. PICK t0 \in Threads :
          (\A u \in Threads : u # t0 => todo[u] = <<>>) /\ Catches(at, Now, todo[t0])
  BY DEF CatchInv
<1>2. t0 = t
  BY <1>1
<1>3. todo \in [Threads -> Seq(GoodSteps(rooms))]
  BY DEF FeedInv, QueuesInv
<1>4. todo[t] \in Seq(GoodSteps(rooms)) /\ Tail(todo[t]) \in Seq(GoodSteps(rooms))
  BY <1>3, QueueParts
<1>5. todo'[t] = s \o Tail(todo[t]) /\ \A u \in Threads : u # t => todo'[u] = <<>>
  BY <1>1, <1>2, <1>3 DEF Continue
<1>6. ASSUME Catches(at', Now', s \o Tail(todo[t])) PROVE CatchInv'
  BY <1>5, <1>6 DEF CatchInv
<1>. QED BY <1>1, <1>2, <1>4, <1>6

\* Queues without moves, joined.
LEMMA MovelessJoined ==
    ASSUME NEW S, NEW x \in Seq(S), NEW y \in Seq(S), Moveless(x), Moveless(y)
    PROVE  Moveless(x \o y)
<1>. DEFINE q == x \o y
<1>1. /\ Len(q) = Len(x) + Len(y) /\ Len(x) \in Nat /\ Len(y) \in Nat
      /\ \A i \in 1 .. Len(x) : q[i] = x[i]
      /\ \A i \in 1 .. Len(y) : q[Len(x) + i] = y[i]
  BY Joined
<1>. HIDE DEF q
<1>2. ASSUME NEW i \in 1 .. Len(q) PROVE q[i].op # "move"
  <2>1. CASE i \in 1 .. Len(x)
    BY <1>1, <2>1 DEF Moveless
  <2>2. CASE i \notin 1 .. Len(x)
    <3>1. i - Len(x) \in 1 .. Len(y) /\ Len(x) + (i - Len(x)) = i
      BY <1>1, <2>2
    <3>2. q[i] = y[i - Len(x)]
      BY <1>1, <3>1
    <3>. QED BY <3>1, <3>2 DEF Moveless
  <2>. QED BY <2>1, <2>2
<1>3. Moveless(q)
  BY <1>2 DEF Moveless
<1>. QED BY <1>3 DEF q

\* Short queues without moves.
LEMMA ShortMoveless ==
    /\ Moveless(<<>>)
    /\ \A x : x.op # "move" => Moveless(<<x>>)
    /\ \A x, y : x.op # "move" /\ y.op # "move" => Moveless(<<x, y>>)
    /\ \A x, y, z : x.op # "move" /\ y.op # "move" /\ z.op # "move" => Moveless(<<x, y, z>>)
<1>1. Moveless(<<>>)
  BY DEF Moveless
<1>2. ASSUME NEW x, x.op # "move" PROVE Moveless(<<x>>)
  BY <1>2 DEF Moveless
<1>3. ASSUME NEW x, NEW y, x.op # "move", y.op # "move" PROVE Moveless(<<x, y>>)
  BY <1>3 DEF Moveless
<1>4. ASSUME NEW x, NEW y, NEW z, x.op # "move", y.op # "move", z.op # "move"
      PROVE  Moveless(<<x, y, z>>)
  BY <1>4 DEF Moveless
<1>. QED BY <1>1, <1>2, <1>3, <1>4

\* No step other than a move is one.
LEMMA StepMoveless ==
    /\ \A to, f : Deliver(to, f).op = "deliver"
    /\ \A f : DeliverAll(f).op = "deliverAll"
    /\ \A w : Store(w).op = "store"
    /\ \A r : Post(r).op = "post" /\ Users(r).op = "users" /\ Persist(r).op = "persist"
    /\ Lists.op = "lists"
    /\ \A v, r, tell : Move(v, r, tell).op = "move" /\ Move(v, r, tell).who = v
                       /\ Move(v, r, tell).room = r /\ Move(v, r, tell).tell = tell
BY DEF Deliver, DeliverAll, Store, Post, Users, Persist, Lists, Move

\* The step that comes next in a queue that makes the screens right.
LEMMA CatchesHead ==
    ASSUME NEW S, NEW a, NEW p, NEW q \in Seq(S), q # <<>>, Catches(a, p, q)
    PROVE  /\ Head(q).op \notin {"store", "persist", "move"}
                 => /\ Moveless(Tail(q))
                    /\ AllRight(a, Drained(a, After(a, p, Head(q)), Tail(q)))
           /\ Head(q).op = "move"
                 => Tail(q) = <<>> /\ NearlyRight(a, p) /\ MoveOK(a, p, Head(q))
<1>. DEFINE r == Tail(q)
            n == Len(q)
<1>1. /\ Head(q) = q[1] /\ r \in Seq(S) /\ n \in Nat /\ n >= 1 /\ Len(r) = n - 1
      /\ \A i \in 1 .. Len(r) : r[i] = q[i + 1]
  BY QueueParts
<1>. HIDE DEF r
<1>2. CASE Moveless(q) /\ AllRight(a, Drained(a, p, q))
  <2>1. Head(q).op # "move"
    BY <1>1, <1>2 DEF Moveless
  <2>2. Moveless(r)
    <3>1. \A i \in 1 .. Len(r) : i + 1 \in 1 .. n
      BY <1>1
    <3>. QED BY <1>1, <1>2, <3>1 DEF Moveless
  <2>3. Drained(a, p, q) = Drained(a, After(a, p, Head(q)), r)
    BY DrainHead DEF r
  <2>. QED BY <1>2, <2>1, <2>2, <2>3 DEF r
<1>3. CASE /\ NearlyRight(a, p) /\ MoveOK(a, p, q[n])
           /\ \A i \in 1 .. n - 1 : q[i].op \in {"persist", "store"}
  <2>1. CASE n = 1
    <3>1. Len(r) = 0
      BY <1>1, <2>1
    <3>2. r = <<>>
      BY <1>1, <3>1
    <3>3. Head(q) = q[n] /\ Head(q).op = "move"
      BY <1>1, <1>3, <2>1 DEF MoveOK
    <3>. QED BY <1>3, <3>2, <3>3 DEF r
  <2>2. CASE n # 1
    <3>1. 1 \in 1 .. n - 1
      BY <1>1, <2>2
    <3>2. Head(q).op \in {"persist", "store"}
      BY <1>1, <1>3, <3>1
    <3>. QED BY <3>2
  <2>. QED BY <2>1, <2>2
<1>. QED BY <1>2, <1>3 DEF Catches

\* A write is queued, or will be: the rest makes the screens right as before.
LEMMA CatchesWrite ==
    ASSUME NEW S, NEW a, NEW p, NEW q \in Seq(S), q # <<>>, Catches(a, p, q),
           Head(q).op \in {"store", "persist"}
    PROVE  Catches(a, p, Tail(q))
<1>. DEFINE r == Tail(q)
            n == Len(q)
            h == Head(q)
<1>1. /\ h = q[1] /\ r \in Seq(S) /\ n \in Nat /\ n >= 1 /\ Len(r) = n - 1
      /\ \A i \in 1 .. Len(r) : r[i] = q[i + 1]
  BY QueueParts
<1>2. Drained(a, p, q) = Drained(a, p, r)
  <2>1. Drained(a, p, q) = Drained(a, After(a, p, h), r)
    BY DrainHead
  <2>. HIDE DEF h, r
  <2>2. h.op \in {"store", "persist"}
    BY DEF h
  <2>3. After(a, p, h) = p
    BY <2>2, AfterStore
  <2>. QED BY <2>1, <2>3
<1>. HIDE DEF r, h
<1>3. CASE Moveless(q) /\ AllRight(a, Drained(a, p, q))
  <2>1. Moveless(r)
    <3>1. \A i \in 1 .. Len(r) : i + 1 \in 1 .. n
      BY <1>1
    <3>. QED BY <1>1, <1>3, <3>1 DEF Moveless
  <2>2. Catches(a, p, r)
    BY <1>2, <1>3, <2>1 DEF Catches
  <2>. QED BY <2>2 DEF r
<1>4. CASE /\ NearlyRight(a, p) /\ MoveOK(a, p, q[n])
           /\ \A i \in 1 .. n - 1 : q[i].op \in {"persist", "store"}
  <2>1. n # 1
    <3>1. q[n].op = "move"
      BY <1>4 DEF MoveOK
    <3>. QED BY <1>1, <3>1 DEF h
  <2>2. /\ Len(r) \in 1 .. Len(r) /\ Len(r) + 1 = n /\ r # <<>>
        /\ \A i \in 1 .. Len(r) - 1 : i \in 1 .. Len(r) /\ i + 1 \in 1 .. n - 1
    BY <1>1, <2>1
  <2>3. r[Len(r)] = q[n] /\ \A i \in 1 .. Len(r) - 1 : r[i].op \in {"persist", "store"}
    BY <1>1, <1>4, <2>2
  <2>4. Catches(a, p, r)
    BY <1>4, <2>2, <2>3 DEF Catches
  <2>. QED BY <2>4 DEF r
<1>. QED BY <1>3, <1>4 DEF Catches

\* A write before a queue that makes the screens right.
LEMMA CatchesMore ==
    ASSUME NEW S, NEW a, NEW p, NEW r \in Seq(S), Catches(a, p, r), NEW x \in S, x.op = "store"
    PROVE  Catches(a, p, <<x>> \o r)
<1>. DEFINE s == <<x>>
            q == s \o r
<1>1. s \in Seq(S) /\ Len(s) = 1 /\ s[1] = x
  BY Short
<1>2. Moveless(s)
  BY ShortMoveless
<1>3. Drained(a, p, s) = p
  <2>1. Drained(a, p, s) = After(a, p, x) /\ After(a, p, x) = p
    BY DrainOne, AfterStore
  <2>. QED BY <2>1
<1>. HIDE DEF s
<1>4. /\ q \in Seq(S) /\ Len(q) = 1 + Len(r) /\ Len(r) \in Nat /\ q[1] = x
      /\ \A i \in 1 .. Len(r) : q[1 + i] = r[i]
  BY <1>1, Joined
<1>5. CASE Moveless(r) /\ AllRight(a, Drained(a, p, r))
  <2>1. Moveless(q)
    BY <1>1, <1>2, <1>5, MovelessJoined
  <2>2. Drained(a, p, q) = Drained(a, Drained(a, p, s), r)
    BY <1>1, DrainJoined
  <2>3. AllRight(a, Drained(a, p, q))
    BY <1>3, <1>5, <2>2
  <2>. HIDE DEF q
  <2>4. Catches(a, p, q)
    BY <2>1, <2>3 DEF Catches
  <2>. QED BY <2>4 DEF q, s
<1>6. CASE /\ r # <<>> /\ NearlyRight(a, p) /\ MoveOK(a, p, r[Len(r)])
           /\ \A i \in 1 .. Len(r) - 1 : r[i].op \in {"persist", "store"}
  <2>. HIDE DEF q
  <2>1. Len(r) >= 1
    BY <1>4, <1>6
  <2>2. q # <<>> /\ q[Len(q)] = r[Len(r)]
    BY <1>4, <2>1
  <2>3. ASSUME NEW i \in 1 .. Len(q) - 1 PROVE q[i].op \in {"persist", "store"}
    <3>1. CASE i = 1
      BY <1>4, <3>1
    <3>2. CASE i # 1
      <4>1. i - 1 \in 1 .. Len(r) - 1 /\ i - 1 \in 1 .. Len(r) /\ 1 + (i - 1) = i
        BY <1>4, <3>2
      <4>2. q[i] = r[i - 1]
        BY <1>4, <4>1
      <4>. QED BY <1>6, <4>1, <4>2
    <3>. QED BY <3>1, <3>2
  <2>4. Catches(a, p, q)
    BY <1>6, <2>2, <2>3 DEF Catches
  <2>. QED BY <2>4 DEF q, s
<1>. QED BY <1>5, <1>6 DEF Catches

\* A step gives way to steps that lead to the same screens.
LEMMA CatchOn ==
    ASSUME FeedInv, CatchInv, NEW t \in Threads, todo[t] # <<>>,
           Head(todo[t]).op \notin {"store", "persist", "move"},
           NEW T, NEW s \in Seq(T), Moveless(s), Continue(t, s), at' = at,
           Drained(at, Now', s) = After(at, Now, Head(todo[t]))
    PROVE  CatchInv'
<1>. DEFINE q == todo[t]
            r == Tail(q)
            S == GoodSteps(rooms) \cup T
<1>1. /\ q \in Seq(GoodSteps(rooms)) /\ r \in Seq(GoodSteps(rooms)) /\ Catches(at, Now, q)
      /\ Catches(at', Now', s \o r) => CatchInv'
  BY CatchContinue
<1>. HIDE DEF q
<1>2. q # <<>> /\ Head(q).op \notin {"store", "persist", "move"}
  BY DEF q
<1>3. Moveless(r) /\ AllRight(at, Drained(at, After(at, Now, Head(q)), r))
  BY <1>1, <1>2, CatchesHead
<1>4. r \in Seq(S) /\ s \in Seq(S)
  BY <1>1, SeqGrows
<1>. HIDE DEF r, S
<1>5. Moveless(s \o r)
  BY <1>3, <1>4, MovelessJoined
<1>6. Drained(at, Now', s \o r) = Drained(at, Drained(at, Now', s), r)
  BY <1>4, DrainJoined
<1>7. AllRight(at, Drained(at, Now', s \o r))
  BY <1>3, <1>6 DEF q
<1>8. Catches(at', Now', s \o r)
  BY <1>5, <1>7 DEF Catches
<1>. QED BY <1>1, <1>8

\* broadcast_room: the message is in recent_messages and will be delivered.
LEMMA CatchPost ==
    ASSUME FeedInv, ViewsInv, CatchInv, NEW t \in Threads, PostStep(t)
    PROVE  CatchInv'
<1>. DEFINE h == Head(todo[t])
            r == h.room
            m == [n |-> posts + 1, room |-> r, born |-> rooms[r].born]
            f == RoomText(r, <<m>>)
            x == Deliver(Members(r), f)
            y == Store(MessageWrite(r, m))
            s == <<x, y>>
<1>1. /\ todo[t] # <<>> /\ h.op = "post" /\ Continue(t, s) /\ at' = at /\ view' = view
      /\ rooms' = [rooms EXCEPT ![r].recent = Keep(Append(@, m), HistoryLimit)]
      /\ posts' = posts + 1
  BY DEF PostStep, AtOp, Cur
<1>2. x.op = "deliver" /\ y.op = "store"
  BY StepMoveless
<1>3. Now.rooms = rooms /\ Now.view = view /\ Now.posts = posts /\ MembersAt(at, r) = Members(r)
  BY StateNow
<1>4. NewMessage(Now, r) = m /\ TextAt(Now, r) = f
  BY <1>3 DEF NewMessage, TextAt
<1>5. Posted(Now, r) = Now'
  <2>1. Posted(Now, r) = State([rooms EXCEPT ![r].recent = Keep(Append(@, m), HistoryLimit)],
                               view, posts + 1)
    <3>. HIDE DEF m
    <3>. QED BY <1>3, <1>4 DEF Posted
  <2>2. Now' = State(rooms', view', posts')
    BY DEF Now, State
  <2>. HIDE DEF m
  <2>. QED BY <1>1, <2>1, <2>2
<1>. HIDE DEF m
<1>6. After(at, Now, h) = Shows(Now', Members(r), f)
  <2>. HIDE DEF f
  <2>1. After(at, Now, h) = Shows(Posted(Now, r), MembersAt(at, r), TextAt(Now, r))
    BY <1>1 DEF After
  <2>. QED BY <1>3, <1>4, <1>5, <2>1
<1>. HIDE DEF f
<1>7. After(at, Now', x) = Shows(Now', Members(r), f)
  BY AfterFrame
<1>. HIDE DEF x, y
<1>8. Drained(at, Now', s) = Shows(Now', Members(r), f)
  <2>. DEFINE p == After(at, Now', x)
  <2>1. Drained(at, Now', s) = After(at, p, y)
    BY DrainTwo
  <2>. HIDE DEF p
  <2>2. After(at, p, y) = p
    BY <1>2, AfterStore
  <2>. QED BY <1>7, <2>1, <2>2 DEF p
<1>9. s \in Seq({x, y}) /\ Moveless(s)
  BY <1>2, Short, ShortMoveless
<1>. HIDE DEF s, r
<1>. QED BY <1>1, <1>6, <1>8, <1>9, CatchOn DEF h

\* broadcast_users and broadcast_room_lists: the frame is made and will be
\* delivered.
LEMMA CatchReads ==
    ASSUME FeedInv, ViewsInv, CatchInv, NEW t \in Threads, UsersStep(t) \/ ListsStep(t)
    PROVE  CatchInv'
<1>. DEFINE h == Head(todo[t])
<1>1. todo[t] # <<>> /\ at' = at /\ Now' = Now
  BY DEF UsersStep, ListsStep, AtOp, memory, Now, State
<1>2. /\ Now.rooms = rooms /\ (\A r : MembersAt(at, r) = Members(r)) /\ OnlineAt(at) = Online
      /\ CountsAt(at, rooms) = Counts
  BY StateNow
<1>3. CASE UsersStep(t)
  <2>. DEFINE r == h.room
              x == Deliver(Members(r), UserList(r, Members(r)))
  <2>1. h.op = "users" /\ Continue(t, <<x>>)
    BY <1>3 DEF UsersStep, AtOp, Cur
  <2>2. x.op = "deliver"
    BY StepMoveless
  <2>3. After(at, Now, h) = Shows(Now, Members(r), UserList(r, Members(r)))
    BY <1>2, <2>1 DEF After
  <2>4. After(at, Now, x) = Shows(Now, Members(r), UserList(r, Members(r)))
    BY AfterFrame
  <2>. HIDE DEF x
  <2>5. Drained(at, Now', <<x>>) = After(at, Now, h)
    BY <1>1, <2>3, <2>4, DrainOne
  <2>6. <<x>> \in Seq({x}) /\ Moveless(<<x>>)
    BY <2>2, Short, ShortMoveless
  <2>. QED BY <1>1, <2>1, <2>5, <2>6, CatchOn
<1>4. CASE ListsStep(t)
  <2>. DEFINE x == DeliverAll(RoomList(Counts))
  <2>1. h.op = "lists" /\ Continue(t, <<x>>)
    BY <1>4 DEF ListsStep, AtOp
  <2>2. x.op = "deliverAll"
    BY StepMoveless
  <2>3. After(at, Now, h) = Shows(Now, OnlineAt(at), RoomList(Counts))
    BY <1>2, <2>1 DEF After
  <2>4. After(at, Now, x) = Shows(Now, OnlineAt(at), RoomList(Counts))
    BY AfterAll
  <2>. HIDE DEF x
  <2>5. Drained(at, Now', <<x>>) = After(at, Now, h)
    BY <1>1, <2>3, <2>4, DrainOne
  <2>6. <<x>> \in Seq({x}) /\ Moveless(<<x>>)
    BY <2>2, Short, ShortMoveless
  <2>. QED BY <1>1, <2>1, <2>5, <2>6, CatchOn
<1>. QED BY <1>3, <1>4

\* deliver: the screens are what they were going to be.
LEMMA CatchDeliver ==
    ASSUME FeedInv, ViewsInv, CatchInv, NEW t \in Threads, DeliverStep(t)
    PROVE  CatchInv'
<1>. DEFINE h == Head(todo[t])
<1>1. /\ todo[t] # <<>> /\ h.op \in {"deliver", "deliverAll"} /\ Continue(t, <<>>)
      /\ at' = at /\ rooms' = rooms /\ posts' = posts
  BY DEF DeliverStep, AtOp, memory
<1>2. Now.rooms = rooms /\ Now.view = view /\ Now.posts = posts /\ OnlineAt(at) = Online
  BY StateNow
<1>3. After(at, Now, h) = Now'
  <2>1. Now' = State(rooms', view', posts')
    BY DEF Now, State
  <2>2. CASE h.op = "deliver"
    <3>1. ShowTo(h.to, h.frame)
      BY <2>2 DEF DeliverStep, AtOp, Cur
    <3>2. After(at, Now, h) = Shows(Now, h.to, h.frame)
      BY <2>2 DEF After
    <3>3. Shows(Now, h.to, h.frame) = State(rooms, view', posts)
      BY <1>2, <3>1 DEF Shows, ShowTo
    <3>. QED BY <1>1, <2>1, <3>2, <3>3
  <2>3. CASE h.op = "deliverAll"
    <3>1. ShowTo(Online, h.frame)
      BY <2>3 DEF DeliverStep, AtOp, Cur
    <3>2. After(at, Now, h) = Shows(Now, Online, h.frame)
      BY <1>2, <2>3 DEF After
    <3>3. Shows(Now, Online, h.frame) = State(rooms, view', posts)
      BY <1>2, <3>1 DEF Shows, ShowTo
    <3>. QED BY <1>1, <2>1, <3>2, <3>3
  <2>. QED BY <1>1, <2>2, <2>3
<1>4. Drained(at, Now', <<>>) = After(at, Now, h)
  BY <1>3, DrainNothing
<1>5. <<>> \in Seq({}) /\ Moveless(<<>>)
  BY Short, ShortMoveless
<1>. QED BY <1>1, <1>4, <1>5, CatchOn

\* store_message and the other writes change no screen.
LEMMA CatchStore ==
    ASSUME FeedInv, CatchInv, NEW t \in Threads, StoreStep(t) \/ PersistStep(t)
    PROVE  CatchInv'
<1>. DEFINE q == todo[t]
            r == Tail(q)
<1>1. /\ q # <<>> /\ Head(q).op \in {"store", "persist"} /\ at' = at /\ Now' = Now
  BY DEF StoreStep, PersistStep, AtOp, memory, Now, State
<1>2. CASE StoreStep(t)
  <2>1. Continue(t, <<>>)
    BY <1>2 DEF StoreStep
  <2>2. /\ q \in Seq(GoodSteps(rooms)) /\ r \in Seq(GoodSteps(rooms)) /\ Catches(at, Now, q)
        /\ Catches(at', Now', <<>> \o r) => CatchInv'
    BY <1>1, <2>1, CatchContinue
  <2>3. <<>> \o r = r
    BY <2>2
  <2>4. Catches(at, Now, r)
    <3>. HIDE DEF q
    <3>. QED BY <1>1, <2>2, CatchesWrite
  <2>. QED BY <1>1, <2>2, <2>3, <2>4
<1>3. CASE PersistStep(t)
  <2>. DEFINE x == Store(RoomWrite(Cur(t).room, Row(Cur(t).room)))
              S == GoodSteps(rooms) \cup {x}
  <2>1. Continue(t, <<x>>)
    BY <1>3 DEF PersistStep
  <2>2. x.op = "store"
    BY StepMoveless
  <2>. HIDE DEF x
  <2>3. /\ q \in Seq(GoodSteps(rooms)) /\ r \in Seq(GoodSteps(rooms)) /\ Catches(at, Now, q)
        /\ Catches(at', Now', <<x>> \o r) => CatchInv'
    BY <1>1, <2>1, CatchContinue
  <2>. HIDE DEF q
  <2>4. Catches(at, Now, r)
    BY <1>1, <2>3, CatchesWrite
  <2>5. r \in Seq(S) /\ x \in S
    BY <2>3, SeqGrows
  <2>. HIDE DEF r, S
  <2>6. Catches(at, Now, <<x>> \o r)
    BY <2>2, <2>4, <2>5, CatchesMore
  <2>. QED BY <1>1, <2>3, <2>6
<1>. QED BY <1>2, <1>3

\* The move begins to be shown.
LEMMA CatchMove ==
    ASSUME FeedInv, ViewsInv, CatchInv, NEW t \in Threads, MoveStep(t)
    PROVE  CatchInv'
<1>. DEFINE q == todo[t]
            r == Tail(q)
            c == Head(q)
            b == [at EXCEPT ![c.who] = c.room]
<1>1. /\ q # <<>> /\ c.op = "move" /\ Continue(t, MoveSteps(c)) /\ at' = b /\ Now' = Now
  BY DEF MoveStep, AtOp, Cur, MoveSteps, Told, Now, State
<1>2. c \in StepType /\ StepOK(rooms, c)
  BY <1>1, CurGood DEF Cur
<1>3. /\ q \in Seq(GoodSteps(rooms)) /\ Catches(at, Now, q)
      /\ Catches(at', Now', MoveSteps(c) \o r) => CatchInv'
  BY <1>1, CatchContinue
<1>4. r = <<>> /\ NearlyRight(at, Now) /\ MoveOK(at, Now, c)
  <2>. HIDE DEF q
  <2>. QED BY <1>1, <1>3, CatchesHead
<1>. HIDE DEF r, c, q
<1>5. Moveless(MoveSteps(c)) /\ AllRight(b, Drained(b, Now, MoveSteps(c)))
  BY <1>2, <1>4, MoveRight
<1>6. MoveSteps(c) \o r = MoveSteps(c)
  <2>1. MoveSteps(c) \in Seq(GoodSteps(rooms))
    BY <1>1, <1>2, MoveGood
  <2>. QED BY <1>4, <2>1
<1>. HIDE DEF b
<1>7. Catches(at', Now', MoveSteps(c))
  BY <1>1, <1>5 DEF Catches
<1>. QED BY <1>3, <1>6, <1>7

-----------------------------------------------------------------------------
(***************************************************************************)
(* Operations begin.                                                       *)
(***************************************************************************)

\* Nothing is queued: the screens are right.
LEMMA CatchesNothing ==
    ASSUME NEW a, NEW p
    PROVE  Catches(a, p, <<>>) <=> AllRight(a, p)
BY DrainNothing, ShortMoveless DEF Catches

\* An operation begins, and counts as an overlap if the other thread is busy.
LEMMA FollowBegin ==
    ASSUME FeedInv, FollowInv, NEW t \in Threads, CountOverlap, NEW s,
           todo' = [todo EXCEPT ![t] = s], AllRight(at, Now) => Catches(at', Now', s)
    PROVE  FollowInv'
<1>1. CASE ~(\A u \in Threads : Idle(u))
  <2>1. overlaps \in Nat /\ overlaps' = overlaps + 1
    BY <1>1 DEF CountOverlap, FollowInv
  <2>. QED BY <2>1 DEF Raced, FollowInv
<1>2. CASE \A u \in Threads : Idle(u)
  <2>1. overlaps' = overlaps /\ overlaps \in Nat /\ \A u \in Threads : todo[u] = <<>>
    BY <1>2 DEF CountOverlap, FollowInv, Idle
  <2>2. SUFFICES ASSUME ~Raced' PROVE CatchInv'
    BY <2>1 DEF FollowInv
  <2>3. PICK t0 \in Threads : Catches(at, Now, todo[t0])
    BY <2>1, <2>2 DEF Raced, FollowInv, CatchInv
  <2>4. AllRight(at, Now)
    BY <2>1, <2>3, CatchesNothing
  <2>5. todo'[t] = s /\ \A u \in Threads : u # t => todo'[u] = <<>>
    BY <2>1 DEF FeedInv, QueuesInv
  <2>. QED BY <2>4, <2>5 DEF CatchInv
<1>. QED BY <1>1, <1>2

\* One that leaves the rooms and the places alone and moves nobody.
LEMMA FollowOnly ==
    ASSUME FeedInv, FollowInv, NEW t \in Threads, NEW s, BeginOnly(t, s), Moveless(s),
           AllRight(at, Now) => AllRight(at, Drained(at, Now, s))
    PROVE  FollowInv'
<1>1. CountOverlap /\ todo' = [todo EXCEPT ![t] = s] /\ at' = at /\ Now' = Now
  BY DEF BeginOnly, Begin, memory, Now, State
<1>2. AllRight(at, Now) => Catches(at', Now', s)
  BY <1>1 DEF Catches
<1>. QED BY <1>1, <1>2, FollowBegin

\* One that delivers a frame or posts a message.
LEMMA FollowOne ==
    ASSUME FeedInv, FollowInv, NEW t \in Threads, NEW x, BeginOnly(t, <<x>>), x.op # "move",
           AllRight(at, Now) => AllRight(at, After(at, Now, x))
    PROVE  FollowInv'
<1>1. Moveless(<<x>>) /\ Drained(at, Now, <<x>>) = After(at, Now, x)
  BY ShortMoveless, DrainOne
<1>. QED BY <1>1, FollowOnly

\* A message of a client, of the host or of the console.
LEMMA FollowPost ==
    ASSUME FeedInv, ViewsInv, FollowInv, NEW t \in Threads, NEW r \in RoomIds,
           rooms[r] # Absent, BeginOnly(t, <<Post(r)>>)
    PROVE  FollowInv'
<1>. DEFINE x == Post(r)
<1>1. x.op # "move"
  BY StepMoveless
<1>2. ASSUME AllRight(at, Now) PROVE AllRight(at, After(at, Now, x))
  <2>1. StateOK(at, Now) /\ Now.rooms[r] # Absent
    BY StateNow
  <2>. DEFINE p == Now
  <2>. HIDE DEF p
  <2>2. StateOK(at, p) /\ AllRight(at, p) /\ p.rooms[r] # Absent
    BY <1>2, <2>1 DEF p
  <2>3. AllRight(at, After(at, p, Post(r)))
    BY <2>2, AllPost
  <2>. QED BY <2>3 DEF p
<1>. HIDE DEF x
<1>. QED BY <1>1, <1>2, FollowOne DEF x

\* A move begins.
LEMMA FollowMove ==
    ASSUME FeedInv, ViewsInv, FollowInv, NEW t \in Threads, NEW v \in Viewers, NEW r \in RoomIds,
           NEW tell \in BOOLEAN, BeginOnly(t, <<Move(v, r, tell)>>), at[v] # r,
           AllRight(at, Now) => view[v].room # Gone, tell \/ at[v] = 0
    PROVE  FollowInv'
<1>. DEFINE x == Move(v, r, tell)
            s == <<x>>
<1>1. CountOverlap /\ todo' = [todo EXCEPT ![t] = s] /\ at' = at /\ Now' = Now
  BY DEF BeginOnly, Begin, memory, Now, State
<1>2. x.op = "move" /\ x.who = v /\ x.room = r /\ x.tell = tell
  BY StepMoveless
<1>3. Now.view = view
  BY StateNow
<1>. HIDE DEF x
<1>4. s # <<>> /\ Len(s) = 1 /\ s[1] = x
  OBVIOUS
<1>. HIDE DEF s
<1>5. ASSUME AllRight(at, Now) PROVE Catches(at, Now, s)
  <2>1. MoveOK(at, Now, x)
    BY <1>2, <1>3, <1>5 DEF MoveOK
  <2>2. NearlyRight(at, Now)
    BY <1>5 DEF AllRight
  <2>3. \A i \in 1 .. Len(s) - 1 : s[i].op \in {"persist", "store"}
    BY <1>4
  <2>. QED BY <1>4, <2>1, <2>2, <2>3 DEF Catches
<1>. QED BY <1>1, <1>5, FollowBegin

\* Somebody online is shown the room they are in: they have not left.
LEMMA OnlineShown ==
    ASSUME FeedInv, ViewsInv, AllRight(at, Now), NEW v \in Viewers, at[v] # 0
    PROVE  view[v].room # Gone
<1>1. StateOK(at, Now) /\ Now.view = view /\ v \in OnlineAt(at)
  BY StateNow DEF OnlineAt
<1>2. at[v] \in RoomIds /\ RoomRight(at, Now, v)
  BY <1>1 DEF StateOK, OnlineAt, AllRight, NearlyRight
<1>. QED BY <1>1, <1>2, FeedFacts DEF RoomRight

\* A room is created: all are shown the sizes, or the owner moves there.
LEMMA FollowCreate ==
    ASSUME FeedInv, ViewsInv, FollowInv, NEW t \in Threads, NEW nm \in Names,
           NEW owner \in Viewers \cup {Absent}, Create(t, nm, owner),
           owner # Absent => at[owner] # 0
    PROVE  FollowInv'
<1>. DEFINE r == NextRoomId
            n == [name |-> nm, topic |-> Absent, owner |-> owner, born |-> ops + 1,
                  recent |-> <<>>]
            s == CreateSteps(r, owner)
            q == State([rooms EXCEPT ![r] = n], view, posts)
<1>1. /\ r \in RoomIds /\ rooms' = [rooms EXCEPT ![r] = n] /\ CountOverlap
      /\ todo' = [todo EXCEPT ![t] = s] /\ at' = at /\ view' = view /\ posts' = posts
  BY DEF Create, Begin, CreateSteps
<1>2. rooms[r] = Absent
  BY <1>1, NextIsFree
<1>3. n \in Room
  <2>1. ops + 1 \in Nat
    BY DEF FeedInv
  <2>2. <<>> \in Seq(Message)
    BY Short
  <2>. QED BY <2>1, <2>2 DEF Room
<1>4. Now' = q
  <2>1. Now' = State(rooms', view', posts')
    BY DEF Now, State
  <2>. HIDE DEF n, r
  <2>. QED BY <1>1, <2>1
<1>5. \/ owner = Absent /\ s = <<Persist(r), Lists>>
      \/ owner # Absent /\ owner \in Viewers /\ s = <<Persist(r), Move(owner, r, TRUE)>>
  <2>1. CASE owner = Absent
    BY <2>1, PairJoined DEF CreateSteps, PersistFirst
  <2>2. CASE owner # Absent
    BY <2>2, PairJoined DEF CreateSteps, PersistFirst
  <2>. QED BY <2>1, <2>2
<1>. HIDE DEF n, r, s
<1>6. ASSUME AllRight(at, Now) PROVE Catches(at', Now', s)
  <2>. DEFINE p == Now
  <2>1. StateOK(at, p) /\ p.rooms = rooms /\ p.view = view /\ p.posts = posts
    BY StateNow
  <2>2. NearlyRight(at, p)
    BY <1>6 DEF AllRight
  <2>. HIDE DEF p
  <2>3. StateOK(at, q) /\ NearlyRight(at, q) /\ q.view = view
    <3>. DEFINE e == State([p.rooms EXCEPT ![r] = n], p.view, p.posts)
    <3>1. StateOK(at, e) /\ NearlyRight(at, e)
      BY <1>1, <1>2, <1>3, <2>1, <2>2, RoomCreated
    <3>2. e = q
      BY <2>1
    <3>3. q.view = view
      BY StateFields
    <3>. HIDE DEF e, q
    <3>. QED BY <3>1, <3>2, <3>3
  <2>. HIDE DEF q
  <2>. DEFINE x == Persist(r)
  <2>4. x.op = "persist" /\ Lists.op = "lists"
    BY StepMoveless
  <2>. HIDE DEF x
  <2>5. CASE owner = Absent /\ s = <<Persist(r), Lists>>
    <3>1. s = <<x, Lists>>
      BY <2>5 DEF x
    <3>2. Drained(at, q, s) = After(at, After(at, q, x), Lists)
      BY <3>1, DrainTwo
    <3>3. After(at, q, x) = q
      BY <2>4, AfterStore
    <3>4. AllRight(at, Drained(at, q, s))
      BY <2>3, <3>2, <3>3, PartLists
    <3>5. Moveless(s)
      BY <2>4, <3>1, ShortMoveless
    <3>. QED BY <1>1, <1>4, <3>4, <3>5 DEF Catches
  <2>6. CASE owner # Absent /\ owner \in Viewers /\ s = <<Persist(r), Move(owner, r, TRUE)>>
    <3>. DEFINE y == Move(owner, r, TRUE)
    <3>1. y.op = "move" /\ y.who = owner /\ y.room = r /\ y.tell
      BY DEF Move
    <3>2. s = <<x, y>>
      BY <2>6 DEF x
    <3>. HIDE DEF y
    <3>3. s # <<>> /\ Len(s) = 2 /\ s[1] = x /\ s[2] = y
      BY <3>2
    <3>4. at[owner] # r
      <4>1. at[owner] # 0 /\ rooms[at[owner]] # Absent
        BY <2>6 DEF FeedInv, PlacesInv
      <4>. QED BY <1>2, <4>1
    <3>5. view[owner].room # Gone
      BY <1>6, <2>6, OnlineShown
    <3>6. MoveOK(at, q, y)
      BY <2>3, <3>1, <3>4, <3>5 DEF MoveOK
    <3>7. \A i \in 1 .. Len(s) - 1 : s[i].op \in {"persist", "store"}
      BY <2>4, <3>3
    <3>8. Catches(at, q, s)
      BY <2>3, <3>3, <3>6, <3>7 DEF Catches
    <3>. QED BY <1>1, <1>4, <3>8
  <2>. QED BY <1>5, <2>5, <2>6
<1>. QED BY <1>1, <1>6, FollowBegin

\* A topic is set.
LEMMA FollowTopic ==
    ASSUME FeedInv, ViewsInv, FollowInv, NEW t \in Threads, NEW r \in RoomIds,
           rooms[r] # Absent, NEW topic \in Topics, SetTopic(t, r, topic)
    PROVE  FollowInv'
<1>. DEFINE w == TopicWrite(r, topic)
            x == Store(w)
            y == Deliver(Members(r), RoomTopic(r, topic))
            s == <<x, y, Post(r)>>
            new == [rooms[r] EXCEPT !.topic = topic]
            q == State([rooms EXCEPT ![r] = new], view, posts)
<1>1. /\ rooms' = [rooms EXCEPT ![r].topic = topic] /\ CountOverlap
      /\ todo' = [todo EXCEPT ![t] = s] /\ at' = at /\ view' = view /\ posts' = posts
  BY DEF SetTopic, Begin
<1>2. Now' = q
  <2>1. Now' = State(rooms', view', posts')
    BY DEF Now, State
  <2>2. rooms' = [rooms EXCEPT ![r] = new]
    BY <1>1
  <2>. HIDE DEF new
  <2>. QED BY <1>1, <2>1, <2>2
<1>3. topic \in TopicVals
  BY DEF TopicVals
<1>4. Moveless(s)
  <2>1. x.op = "store" /\ y.op = "deliver" /\ Post(r).op = "post"
    BY StepMoveless
  <2>. HIDE DEF x, y
  <2>. QED BY <2>1, ShortMoveless
<1>5. ASSUME AllRight(at, Now) PROVE AllRight(at, Drained(at, q, s))
  <2>. DEFINE p == Now
              e == State([p.rooms EXCEPT ![r] = [p.rooms[r] EXCEPT !.topic = topic]], p.view,
                         p.posts)
              d == <<Store(w), Deliver(MembersAt(at, r), RoomTopic(r, topic)), Post(r)>>
  <2>1. /\ StateOK(at, p) /\ p.rooms = rooms /\ p.view = view /\ p.posts = posts
        /\ MembersAt(at, r) = Members(r) /\ AllRight(at, p)
    BY <1>5, StateNow
  <2>. HIDE DEF p, w
  <2>2. AllRight(at, Drained(at, e, d))
    <3>1. StateOK(at, p) /\ p.rooms[r] # Absent /\ AllRight(at, p)
      BY <2>1
    <3>. QED BY <1>3, <3>1, TopicSet
  <2>3. e = q
    BY <2>1
  <2>4. d = s
    BY <2>1
  <2>. HIDE DEF e, d, q, s
  <2>. QED BY <2>2, <2>3, <2>4
<1>. HIDE DEF q, s
<1>6. AllRight(at, Now) => Catches(at', Now', s)
  BY <1>1, <1>2, <1>4, <1>5 DEF Catches
<1>. QED BY <1>1, <1>6, FollowBegin

\* join_room and send_private_in_room.
LEMMA FollowJoin ==
    ASSUME FeedInv, ViewsInv, FollowInv, NEW t \in Threads, NEW v \in Viewers, NEW r \in RoomIds,
           JoinRoom(t, v, r)
    PROVE  FollowInv'
<1>1. at[v] # 0 /\ at[v] # r /\ BeginOnly(t, <<Move(v, r, TRUE)>>)
  BY DEF JoinRoom
<1>2. AllRight(at, Now) => view[v].room # Gone
  BY <1>1, OnlineShown
<1>3. TRUE \in BOOLEAN
  OBVIOUS
<1>. QED BY <1>1, <1>2, <1>3, FollowMove

\* A private message.
LEMMA FollowPrivate ==
    ASSUME FeedInv, ViewsInv, FollowInv, NEW t \in Threads, NEW v, NEW w, SendPrivate(t, v, w)
    PROVE  FollowInv'
<1>. DEFINE x == Deliver({v, w}, Whisper)
<1>1. BeginOnly(t, <<x>>)
  BY DEF SendPrivate
<1>2. x.op # "move"
  BY StepMoveless
<1>3. AllRight(at, Now) => AllRight(at, After(at, Now, x))
  <2>1. StateOK(at, Now)
    BY StateNow
  <2>. DEFINE p == Now
              to == {v, w}
  <2>. HIDE DEF p, to
  <2>2. StateOK(at, p)
    BY <2>1 DEF p
  <2>3. AllRight(at, p) => AllRight(at, After(at, p, Deliver(to, Whisper)))
    BY <2>2, WhisperRight
  <2>. QED BY <2>3 DEF p, to
<1>. HIDE DEF x
<1>. QED BY <1>1, <1>2, <1>3, FollowOne

\* send_topic and send_room_list.
LEMMA FollowQuestion ==
    ASSUME FeedInv, ViewsInv, FollowInv, NEW c \in Viewers, HandleQuestion(c)
    PROVE  FollowInv'
<1>. DEFINE x == Deliver({c}, RoomTopic(at[c], rooms[at[c]].topic))
            y == Deliver({c}, RoomList(Counts))
            p == Now
            to == {c}
<1>1. at[c] # 0 /\ (BeginOnly("io", <<x>>) \/ BeginOnly("io", <<y>>)) /\ "io" \in Threads
  BY DEF HandleQuestion, Threads
<1>2. x.op # "move" /\ y.op # "move"
  BY StepMoveless
<1>3. StateOK(at, p) /\ p.rooms = rooms /\ c \in OnlineAt(at) /\ CountsAt(at, rooms) = Counts
  BY <1>1, StateNow DEF OnlineAt
<1>. HIDE DEF p
<1>4. AllRight(at, p) => AllRight(at, After(at, p, x))
  <2>1. AllRight(at, p)
           => AllRight(at, After(at, p, Deliver({c}, RoomTopic(at[c], p.rooms[at[c]].topic))))
    BY <1>3, TopicAnswered
  <2>. QED BY <1>3, <2>1
<1>5. AllRight(at, p) => AllRight(at, After(at, p, y))
  <2>. HIDE DEF to
  <2>1. AllRight(at, p) => AllRight(at, After(at, p, Deliver(to, RoomList(CountsAt(at, p.rooms)))))
    BY <1>3, ListAnswered
  <2>. QED BY <1>3, <2>1 DEF to
<1>. HIDE DEF x, y
<1>. QED BY <1>1, <1>2, <1>4, <1>5, FollowOne DEF p

\* The session of a client ends.
LEMMA FollowLeave ==
    ASSUME FeedInv, ViewsInv, FollowInv, NEW t \in Threads, NEW c \in Clients, NEW s,
           Leaves(t, c, s)
    PROVE  FollowInv'
<1>. DEFINE r == at[c]
            p == Now
            b == GoneFrom(at, c)
            q == ShownGone(p, c)
<1>1. /\ r # 0 /\ CountOverlap /\ todo' = [todo EXCEPT ![t] = s] /\ at' = b
      /\ view' = [view EXCEPT ![c] = Blank(Gone)] /\ rooms' = rooms /\ posts' = posts
      /\ s \in {LeftSteps(r), KickedSteps(r)}
  BY DEF Leaves, Depart, GoneFrom
<1>2. /\ c \in Viewers /\ StateOK(at, p) /\ p.rooms = rooms /\ p.view = view /\ p.posts = posts
      /\ c \in OnlineAt(at)
  BY <1>1, FeedFacts, StateNow DEF OnlineAt
<1>3. Now' = q
  <2>1. Now' = State(rooms', view', posts')
    BY DEF Now, State
  <2>. HIDE DEF p
  <2>. QED BY <1>1, <1>2, <2>1 DEF ShownGone
<1>. HIDE DEF p
<1>4. Moveless(s)
  <2>1. r \in RoomIds /\ rooms[r] # Absent
    BY <1>1, <1>2 DEF FeedInv, PlacesInv
  <2>. HIDE DEF r
  <2>. QED BY <1>1, <2>1, LeaveSteps DEF Moveless
<1>5. ASSUME AllRight(at, p) PROVE AllRight(b, Drained(b, q, s))
  <2>1. /\ StateOK(b, q) /\ q.rooms = p.rooms /\ PartRight(b, q, {}, {r})
        /\ r \in RoomIds /\ p.rooms[r] # Absent
    BY <1>2, <1>5, Departed
  <2>. HIDE DEF b, q, r
  <2>2. AllRight(b, Drained(b, q, LeftSteps(r))) /\ AllRight(b, Drained(b, q, KickedSteps(r)))
    BY <2>1, Disconnected, Kicked
  <2>. QED BY <1>1, <2>2
<1>. HIDE DEF q, b
<1>6. AllRight(at, Now) => Catches(at', Now', s)
  BY <1>1, <1>3, <1>4, <1>5 DEF Catches, p
<1>. QED BY <1>1, <1>6, FollowBegin

\* The frames of a client.
LEMMA FollowFrame ==
    ASSUME FeedInv, ViewsInv, FollowInv, NEW c \in Clients, Frame(c)
    PROVE  FollowInv'
<1>1. c \in Viewers /\ c \in Viewers \cup {Absent} /\ "io" \in Threads /\ DefaultRoom \in RoomIds
  BY FeedFacts DEF Threads
<1>2. at[c] # 0 => at[c] \in RoomIds /\ rooms[at[c]] # Absent
  BY <1>1 DEF FeedInv, PlacesInv
<1>3. CASE Admit(c)
  <2>1. /\ at[c] # DefaultRoom /\ view[c].room # Gone /\ at[c] = 0
        /\ BeginOnly("io", <<Move(c, DefaultRoom, FALSE)>>) /\ FALSE \in BOOLEAN
    BY <1>3, FeedFacts DEF Admit
  <2>. QED BY <1>1, <2>1, FollowMove
<1>4. CASE HandleChat(c)
  BY <1>1, <1>2, <1>4, FollowPost DEF HandleChat
<1>5. CASE HandleQuestion(c)
  BY <1>1, <1>5, FollowQuestion
<1>6. CASE HandleDisconnect(c)
  BY <1>1, <1>6, AllLeave, FollowLeave
<1>7. ASSUME NEW nm \in Names, HandleCreate(c, nm) PROVE FollowInv'
  BY <1>1, <1>7, FollowCreate DEF HandleCreate
<1>8. ASSUME NEW topic \in Topics, HandleTopic(c, topic) PROVE FollowInv'
  BY <1>1, <1>2, <1>8, FollowTopic DEF HandleTopic
<1>9. ASSUME NEW r \in RoomIds, JoinRoom("io", c, r) PROVE FollowInv'
  BY <1>1, <1>9, FollowJoin
<1>10. ASSUME NEW v \in Viewers, SendPrivate("io", c, v) PROVE FollowInv'
  BY <1>1, <1>10, FollowPrivate
<1>11. ASSUME NEW v \in Clients, OwnerKick(c, v) PROVE FollowInv'
  BY <1>1, <1>11, AllLeave, FollowLeave
<1>. QED BY <1>3, <1>4, <1>5, <1>6, <1>7, <1>8, <1>9, <1>10, <1>11 DEF Frame

\* The commands of the terminal; the console creates rooms that have no owner.
LEMMA FollowCommand ==
    ASSUME FeedInv, ViewsInv, FollowInv, LocalCommand \/ AdminCommand
    PROVE  FollowInv'
<1>1. /\ "terminal" \in Threads /\ Host \in Viewers /\ Host \in Viewers \cup {Absent}
      /\ Absent \in Viewers \cup {Absent}
  BY FeedFacts DEF Threads
<1>2. at[Host] # 0 => at[Host] \in RoomIds /\ rooms[at[Host]] # Absent
  BY <1>1 DEF FeedInv, PlacesInv
<1>3. ASSUME at[Host] # 0, BeginOnly("terminal", <<Post(at[Host])>>) PROVE FollowInv'
  BY <1>1, <1>2, <1>3, FollowPost
<1>4. ASSUME BeginOnly("terminal", AllPosts) PROVE FollowInv'
  <2>. DEFINE s == AllPosts
              p == Now
  <2>1. /\ s \in Seq(GoodSteps(rooms))
        /\ \A i \in 1 .. Len(s) : s[i].op = "post" /\ s[i].room \in RoomIds
    BY AllPostsGood
  <2>. HIDE DEF s
  <2>2. ASSUME NEW i \in 1 .. Len(s) PROVE rooms[s[i].room] # Absent
    <3>1. s[i] \in GoodSteps(rooms) /\ s[i].op = "post"
      BY <2>1
    <3>. QED BY <3>1 DEF GoodSteps, StepOK
  <2>3. Moveless(s)
    BY <2>1 DEF Moveless
  <2>4. StateOK(at, p) /\ p.rooms = rooms
    BY StateNow
  <2>. HIDE DEF p
  <2>5. \A i \in 1 .. Len(s) : /\ s[i].op = "post" /\ s[i].room \in RoomIds
                               /\ p.rooms[s[i].room] # Absent
    BY <2>1, <2>2, <2>4
  <2>6. AllRight(at, p) => AllRight(at, Drained(at, p, s))
    BY <2>1, <2>4, <2>5, PostsRight
  <2>7. BeginOnly("terminal", s)
    BY <1>4 DEF s
  <2>. QED BY <1>1, <2>3, <2>6, <2>7, FollowOnly DEF p
<1>5. ASSUME NEW nm \in Names, at[Host] # 0, Create("terminal", nm, Host) PROVE FollowInv'
  BY <1>1, <1>5, FollowCreate
<1>6. ASSUME NEW nm \in Names, Create("terminal", nm, Absent) PROVE FollowInv'
  BY <1>1, <1>6, FollowCreate
<1>7. ASSUME NEW r \in RoomIds, rooms[r] # Absent, NEW topic \in Topics,
             SetTopic("terminal", r, topic)
      PROVE  FollowInv'
  BY <1>1, <1>7, FollowTopic
<1>8. ASSUME NEW r \in RoomIds, JoinRoom("terminal", Host, r) PROVE FollowInv'
  BY <1>1, <1>8, FollowJoin
<1>9. ASSUME NEW c \in Clients, SendPrivate("terminal", Host, c) PROVE FollowInv'
  BY <1>1, <1>9, FollowPrivate
<1>10. ASSUME NEW c \in Clients, Kick("terminal", c) PROVE FollowInv'
  BY <1>1, <1>10, AllLeave, FollowLeave
<1>11. CASE LocalCommand
  BY <1>1, <1>2, <1>3, <1>5, <1>7, <1>8, <1>9, <1>10, <1>11 DEF LocalCommand, Hosting
<1>12. CASE AdminCommand
  BY <1>1, <1>4, <1>6, <1>7, <1>10, <1>12 DEF AdminCommand, Hosting, Exists
<1>. QED BY <1>11, <1>12

-----------------------------------------------------------------------------
(***************************************************************************)
(* Start and restart, and the theorem.                                     *)
(***************************************************************************)

\* start_local_user shows the host the lobby as it is: the host alone is in it.
LEMMA StartRight ==
    ASSUME NEW rs, rs[DefaultRoom] # Absent, rs[DefaultRoom].recent \in Seq(Message),
           NEW hosted \in BOOLEAN, NEW n
    PROVE  AllRight(StartAt(hosted), State(rs, StartView(rs, hosted), n))
<1>. DEFINE a == StartAt(hosted)
            p == State(rs, StartView(rs, hosted), n)
            D == {i \in RoomIds : rs[i] # Absent}
            counts == [r \in D |-> IF r = DefaultRoom THEN 1 ELSE 0]
            lobby == [Blank(DefaultRoom) EXCEPT !.topic = rs[DefaultRoom].topic,
                                                !.users = {Host}, !.rooms = counts]
<1>1. p.rooms = rs /\ p.view = StartView(rs, hosted)
  BY StateFields
<1>2. \A v \in Viewers : a[v] = IF v = Host /\ hosted THEN DefaultRoom ELSE 0
  BY DEF StartAt
<1>. HIDE DEF p, a
<1>3. ASSUME NEW v \in OnlineAt(a) PROVE ScreenRight(a, p.rooms, v, p.view[v])
  <2>1. v \in Viewers /\ v = Host /\ hosted /\ a[v] = DefaultRoom
    BY <1>2 DEF OnlineAt
  <2>2. p.view[v] = lobby
    BY <1>1, <2>1 DEF StartView
  <2>3. MembersAt(a, DefaultRoom) = {Host}
    BY <1>2, <2>1, FeedFacts DEF MembersAt
  <2>4. \A r \in RoomIds : r # DefaultRoom => MembersAt(a, r) = {}
    BY <1>2, FeedFacts DEF MembersAt
  <2>5. CountsAt(a, rs) = counts
    <3>1. Cardinality({Host}) = 1 /\ Cardinality({}) = 0
      BY FS_Singleton, FS_EmptySet
    <3>2. \A r \in D : Cardinality(MembersAt(a, r)) = IF r = DefaultRoom THEN 1 ELSE 0
      BY <2>3, <2>4, <3>1
    <3>. QED BY <3>2 DEF CountsAt
  <2>. HIDE DEF counts
  <2>6. /\ lobby.room = DefaultRoom /\ lobby.topic = rs[DefaultRoom].topic
        /\ lobby.users = {Host} /\ lobby.lines = <<>> /\ lobby.rooms = counts
    BY DEF Blank
  <2>. HIDE DEF lobby
  <2>7. LinesFollow(v, <<>>, rs[DefaultRoom].recent)
    BY <2>1, LinesStarted
  <2>. QED BY <1>1, <2>1, <2>2, <2>3, <2>5, <2>6, <2>7 DEF ScreenRight
<1>4. AllRight(a, p)
  BY <1>3, AllScreens
<1>. QED BY <1>4 DEF a, p

\* The first start.
LEMMA FollowInit == Init => FollowInv
<1>. SUFFICES ASSUME Init PROVE FollowInv
  OBVIOUS
<1>1. PICK hosted \in BOOLEAN : at = StartAt(hosted) /\ view = StartView(rooms, hosted)
  BY DEF Init
<1>2. rooms[DefaultRoom] # Absent /\ rooms[DefaultRoom].recent \in Seq(Message)
  <2>1. FeedInv /\ DefaultRoom \in RoomIds
    BY FeedInit, FeedFacts
  <2>. QED BY <2>1, RoomFields DEF FeedInv, RoomsInv
<1>3. AllRight(at, Now)
  BY <1>1, <1>2, StartRight DEF Now
<1>4. Catches(at, Now, <<>>)
  BY <1>3, CatchesNothing
<1>5. overlaps = 0 /\ "io" \in Threads /\ \A u \in Threads : todo[u] = <<>>
  BY DEF Init, Threads
<1>. QED BY <1>4, <1>5 DEF FollowInv, CatchInv

\* A restart.
LEMMA FollowRestart ==
    ASSUME FeedInv, Restart
    PROVE  FollowInv'
<1>1. Hosting \in BOOLEAN /\ at' = StartAt(Hosting) /\ view' = StartView(rooms', Hosting)
  BY DEF Restart, Hosting
<1>2. rooms'[DefaultRoom] # Absent /\ rooms'[DefaultRoom].recent \in Seq(Message)
  <2>1. RoomsInv' /\ DefaultRoom \in RoomIds
    BY FeedRestart, FeedFacts DEF FeedInv
  <2>. QED BY <2>1 DEF RoomsInv, Room
<1>3. AllRight(at', Now')
  <2>. DEFINE h == Hosting
              rs == rooms'
              n == posts'
  <2>. HIDE DEF h, rs, n
  <2>1. h \in BOOLEAN /\ rs[DefaultRoom] # Absent /\ rs[DefaultRoom].recent \in Seq(Message)
    BY <1>1, <1>2 DEF h, rs
  <2>2. AllRight(StartAt(h), State(rs, StartView(rs, h), n))
    BY <2>1, StartRight
  <2>3. Now' = State(rooms', view', posts')
    BY DEF Now, State
  <2>. QED BY <1>1, <2>2, <2>3 DEF h, rs, n
<1>4. Catches(at', Now', <<>>)
  BY <1>3, CatchesNothing
<1>5. overlaps' = 0 /\ "io" \in Threads /\ \A u \in Threads : todo'[u] = <<>>
  BY DEF Restart, Threads
<1>6. CatchInv'
  BY <1>4, <1>5 DEF CatchInv
<1>. QED BY <1>5, <1>6 DEF FollowInv

\* Every step keeps what the queues lead to right.
LEMMA FollowStep == FeedInv /\ ScreensInv /\ FollowInv /\ [Next]_vars => FollowInv'
<1>. SUFFICES ASSUME FeedInv, ScreensInv, FollowInv, [Next]_vars PROVE FollowInv'
  OBVIOUS
<1>1. ViewsInv
  BY DEF ScreensInv
<1>2. ASSUME NEW t \in Threads, ThreadStep(t) PROVE FollowInv'
  <2>1. overlaps' = overlaps
    BY <1>2 DEF ThreadStep, PostStep, UsersStep, ListsStep, DeliverStep, StoreStep, PersistStep,
                MoveStep
  <2>2. ASSUME CatchInv PROVE CatchInv'
    BY <1>1, <1>2, <2>2, CatchPost, CatchReads, CatchDeliver, CatchStore, CatchMove
       DEF ThreadStep
  <2>. QED BY <2>1, <2>2 DEF FollowInv, Raced
<1>3. ASSUME NEW c \in Clients, Frame(c) PROVE FollowInv'
  BY <1>1, <1>3, FollowFrame
<1>4. CASE LocalCommand \/ AdminCommand
  BY <1>1, <1>4, FollowCommand
<1>5. CASE Restart
  BY <1>5, FollowRestart
<1>6. CASE UNCHANGED vars
  <2>1. Now' = Now /\ at' = at /\ todo' = todo /\ overlaps' = overlaps
    BY <1>6 DEF vars, memory, Now, State
  <2>. QED BY <2>1 DEF FollowInv, CatchInv, Raced
<1>. QED BY <1>2, <1>3, <1>4, <1>5, <1>6 DEF Next

\* When nothing is in progress and no two operations have overlapped, everybody
\* online is shown the room they are in, its topic, the sizes of all rooms and
\* its last messages without a gap, whatever lists of users the encoder refused;
\* the host, and everybody in a room whose list fits in a frame, its members.
THEOREM ScreensFollowRooms == Spec => []ScreensFollow
<1>1. FeedInv /\ ScreensInv /\ FollowInv => ScreensFollow
  <2>. SUFFICES ASSUME FeedInv, ViewsInv, FollowInv, Quiet, ~Raced, NEW v \in Online
                PROVE  LET r == at[v]
                           lines == RoomLines(view[v].lines)
                       IN  /\ view[v].room = r /\ view[v].topic = rooms[r].topic
                           /\ v = Host \/ Members(r) \in Listable => view[v].users = Members(r)
                           /\ view[v].rooms = Counts
                           /\ \/ IsSuffix(rooms[r].recent, lines)
                              \/ Len(view[v].lines) = MaxLines /\ IsSuffix(lines, rooms[r].recent)
                              \/ v = Host /\ IsSuffix(lines, rooms[r].recent)
    BY DEF ScreensFollow, ScreensInv
  <2>. DEFINE r == at[v]
              shown == view[v].lines
              lines == RoomLines(shown)
              recent == rooms[r].recent
  <2>1. PICK t \in Threads : Catches(at, Now, todo[t])
    BY DEF FollowInv, CatchInv
  <2>2. AllRight(at, Now)
    <3>1. todo[t] = <<>>
      BY DEF Quiet, Idle
    <3>. QED BY <2>1, <3>1, CatchesNothing
  <2>3. /\ StateOK(at, Now) /\ Now.rooms = rooms /\ Now.view = view /\ v \in OnlineAt(at)
        /\ MembersAt(at, r) = Members(r) /\ CountsAt(at, rooms) = Counts
    BY StateNow
  <2>4. ScreenRight(at, rooms, v, view[v])
    BY <2>2, <2>3, AllScreens
  <2>5. shown \in Seq(Message) /\ recent \in Seq(Message)
    BY <2>3, OnlineFacts
  <2>6. lines \in Seq(Message)
    BY <2>5, SelectedIn
  <2>7. LinesFollow(v, shown, recent)
    BY <2>4 DEF ScreenRight
  <2>. HIDE DEF lines, recent, shown
  <2>8. \/ Ends(recent, lines)
        \/ (Len(shown) = MaxLines \/ v = Host) /\ Ends(lines, recent)
    BY <2>7 DEF LinesFollow, lines
  <2>9. /\ Ends(recent, lines) => IsSuffix(recent, lines)
        /\ Ends(lines, recent) => IsSuffix(lines, recent)
    BY <2>5, <2>6, EndsSuffix
  <2>10. /\ view[v].room = r /\ view[v].topic = rooms[r].topic
         /\ v = Host \/ Members(r) \in Listable => view[v].users = Members(r)
         /\ view[v].rooms = Counts
    BY <2>3, <2>4 DEF ScreenRight
  <2>. QED BY <2>8, <2>9, <2>10 DEF lines, recent, shown
<1>. QED BY <1>1, FeedInit, FeedStep, ScreensInit, ScreensStep, FollowInit, FollowStep, PTL
     DEF Spec
=============================================================================
