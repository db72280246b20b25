------------------------------ MODULE RoomFeed ------------------------------
(***************************************************************************)
(* What the members of a room are shown and what is kept of it: messages,  *)
(* topics, user lists and room lists (chat_server.h), the writes they      *)
(* queue for the database, the application state that shows them           *)
(* (app_state.cpp) and the rebuilding of the rooms at the next start.      *)
(*                                                                         *)
(* The io thread handles the frames of the clients; the terminal thread    *)
(* runs the commands of the hosting user or of the dedicated server's      *)
(* console.  Each runs its steps between two lock acquisitions at once,    *)
(* and has the rest still to do in todo.  A frame given to deliver is      *)
(* taken by the client at once: SessionWriter shows that the order is      *)
(* kept, and the client answers none of these frames.  The deliveries of   *)
(* one frame to its recipients are one step, which no single recipient can *)
(* tell apart.  Login, the right to moderate, the frames that a session    *)
(* still sends after it was kicked and the checks of names are in          *)
(* ChatServer.                                                             *)
(***************************************************************************)
EXTENDS StoreSchema, SequencesExt

CONSTANTS
    Clients,       \* sessions of clients, with their nicknames
    Host,          \* the user of a server that runs in the terminal interface
    Listable,      \* sets of users whose list fits in a frame
    Names,         \* names of rooms that may be created
    Topics,
    Lobby,         \* the lobby's name
    MaxRooms,      \* bound: room ids; ChatServer has the limit of the server
    HistoryLimit,  \* history_limit_, at most MAX_HISTORY_PAGE
    MaxLines,      \* MAX_MESSAGES
    MaxOps,        \* bound: operations
    CrashOps,      \* bound: operations before a restart
    MaxOverlaps,   \* bound: operations that overlap, before the first restart
    MaxCrashes     \* bound: restarts

ASSUME FeedAssumption ==
    /\ Host \notin Clients /\ Lobby \notin Names
    /\ Listable \subseteq SUBSET (Clients \cup {Host})
    /\ MaxRooms \in Nat \ {0} /\ HistoryLimit \in Nat \ {0}
    /\ MaxLines \in Nat \ {0}
    /\ MaxOps \in Nat /\ CrashOps \in Nat /\ MaxOverlaps \in Nat /\ MaxCrashes \in Nat

VARIABLES
    rooms,     \* rooms_: by id, with topic and recent_messages
    at,        \* the room of each session and of the local user, 0 if none
    todo,      \* the steps each thread has yet to take
    view,      \* the application state of every client and of the host
    offered,   \* writes given to the queue since the server started
    db,        \* the database as it was when the server started
    posts,     \* number of the last message
    ops,       \* history: operations begun
    crashes,   \* history: restarts
    overlaps   \* history: operations begun while the other thread was busy

memory == <<rooms, at>>
vars == <<memory, todo, view, offered, db, posts, ops, crashes, overlaps>>

Threads == {"io", "terminal"}
Viewers == Clients \cup {Host}
RoomIds == 1 .. MaxRooms
DefaultRoom == 1
Gone == MaxRooms + 1         \* the room a client that has left is shown

\* A message, the row of a room in the database and the struct Room; born
\* tells apart the rooms that had the same id.
Message == [n : Nat, room : Nat, born : Nat]
RoomRow == [name : Names \cup {Lobby}, topic : Topics \cup {Lobby, Absent},
            owner : Viewers \cup {Absent}, born : Nat]
Room    == [name : Names \cup {Lobby}, topic : Topics \cup {Lobby, Absent},
            owner : Viewers \cup {Absent}, born : Nat, recent : Seq(Message)]

ASSUME AbsentAssumption == Absent \notin RoomRow /\ Absent \notin Room

Exists(r)  == rooms[r] # Absent
Members(r) == {v \in Viewers : at[v] = r}
Online     == {v \in Viewers : at[v] # 0}

-----------------------------------------------------------------------------
(***************************************************************************)
(* Frames, and what a viewer does with them.                               *)
(***************************************************************************)
UserList(r, users)   == [kind |-> "users", room |-> r, val |-> users]
RoomTopic(r, topic)  == [kind |-> "topic", room |-> r, val |-> topic]
RoomText(r, lines)   == [kind |-> "text", room |-> r, val |-> lines]
RoomJoined(r, topic) == [kind |-> "joined", room |-> r, val |-> topic]
RoomList(counts)     == [kind |-> "rooms", room |-> 0, val |-> counts]
Whisper              == [kind |-> "private", room |-> 0, val |-> Absent]

\* A line of a private message: it belongs to no room.
PrivateLine == [n |-> 0, room |-> 0, born |-> 0]

Blank(r) == [room |-> r, topic |-> Absent, users |-> {}, lines |-> <<>>, rooms |-> <<>>]

Latest(s, n) == SubSeq(s, Len(s) - n + 1, Len(s))
Keep(s, n)   == IF Len(s) <= n THEN s ELSE Latest(s, n)

\* push_message
Push(a, lines) == [a EXCEPT !.lines = Keep(@ \o lines, MaxLines)]

ShownAnywhere(v, a, f) == TRUE                             \* mutant

\* The client compares the room of a text with its own; push_message, which
\* shows the messages to the local user, does not.
Shown(v, a, f) == v = Host \/ f.room = a.room

\* The handlers of read_loop and the functions of app_state.cpp.
Handle(v, a, f) ==
    IF a.room = Gone THEN a ELSE
    CASE f.kind = "joined"  -> [Blank(f.room) EXCEPT !.topic = f.val, !.rooms = a.rooms]
      [] f.kind = "text"    -> IF Shown(v, a, f) THEN Push(a, f.val) ELSE a
      [] f.kind = "users"   -> IF f.room = a.room THEN [a EXCEPT !.users = f.val] ELSE a
      [] f.kind = "topic"   -> IF f.room = a.room THEN [a EXCEPT !.topic = f.val] ELSE a
      [] f.kind = "rooms"   -> [a EXCEPT !.rooms = f.val]
      [] f.kind = "private" -> Push(a, <<PrivateLine>>)

\* encode_server_frame refuses a payload of more than 3069 bytes, and deliver
\* drops the frame.  Of the frames of this module only the list of the users
\* has no smaller limit.  The host is shown everything without a frame.
Encodes(f) == f.kind = "users" => f.val \in Listable
Receive(v, a, f) == IF v = Host \/ Encodes(f) THEN Handle(v, a, f) ELSE a

-----------------------------------------------------------------------------
(***************************************************************************)
(* Threads and their steps.                                                *)
(***************************************************************************)
Deliver(to, f)   == [op |-> "deliver", to |-> to, frame |-> f]
DeliverAll(f)    == [op |-> "deliverAll", frame |-> f]
Store(w)         == [op |-> "store", write |-> w]
Post(r)          == [op |-> "post", room |-> r]
Users(r)         == [op |-> "users", room |-> r]
Lists            == [op |-> "lists"]
Persist(r)       == [op |-> "persist", room |-> r]
Move(v, r, tell) == [op |-> "move", who |-> v, room |-> r, tell |-> tell]

Idle(t)      == todo[t] = <<>>
AtOp(t, op)  == todo[t] # <<>> /\ Head(todo[t]).op = op
Cur(t)       == Head(todo[t])
Continue(t, steps) == todo' = [todo EXCEPT ![t] = steps \o Tail(@)]

CountOverlap ==
    IF \A t \in Threads : Idle(t) THEN UNCHANGED overlaps
    ELSE overlaps < MaxOverlaps /\ crashes = 0 /\ overlaps' = overlaps + 1

\* A thread begins an operation.
Begin(t, steps) ==
    /\ Idle(t) /\ ops < MaxOps
    /\ ops' = ops + 1
    /\ CountOverlap
    /\ todo' = [todo EXCEPT ![t] = steps]
    /\ UNCHANGED <<view, offered, db, posts, crashes>>

BeginOnly(t, steps) == Begin(t, steps) /\ UNCHANGED memory

\* broadcast_room: under the lock, the message goes into recent_messages and
\* the members are copied; deliver and store_message follow without it.
PostStep(t) ==
    /\ AtOp(t, "post")
    /\ LET r == Cur(t).room
           m == [n |-> posts + 1, room |-> r, born |-> rooms[r].born]
       IN  /\ posts' = posts + 1
           /\ rooms' = [rooms EXCEPT ![r].recent = Keep(Append(@, m), HistoryLimit)]
           /\ Continue(t, <<Deliver(Members(r), RoomText(r, <<m>>)),
                            Store(MessageWrite(r, m))>>)
    /\ UNCHANGED <<at, view, offered, db, ops, crashes, overlaps>>

\* broadcast_users
UsersStep(t) ==
    /\ AtOp(t, "users")
    /\ LET here == Members(Cur(t).room)
       IN  Continue(t, <<Deliver(here, UserList(Cur(t).room, here))>>)
    /\ UNCHANGED <<memory, view, offered, db, posts, ops, crashes, overlaps>>

Counts == [r \in {i \in RoomIds : Exists(i)} |-> Cardinality(Members(r))]

\* broadcast_room_lists: the sessions are copied after the list was made.
ListsStep(t) ==
    /\ AtOp(t, "lists")
    /\ Continue(t, <<DeliverAll(RoomList(Counts))>>)
    /\ UNCHANGED <<memory, view, offered, db, posts, ops, crashes, overlaps>>

ShowTo(to, f) ==
    view' = [v \in Viewers |-> IF v \in to THEN Receive(v, view[v], f) ELSE view[v]]

DeliverStep(t) ==
    /\ \/ AtOp(t, "deliver") /\ ShowTo(Cur(t).to, Cur(t).frame)
       \/ AtOp(t, "deliverAll") /\ ShowTo(Online, Cur(t).frame)
    /\ Continue(t, <<>>)
    /\ UNCHANGED <<memory, offered, db, posts, ops, crashes, overlaps>>

\* store_room, update_room_topic, store_message.  No caller looks at the result
\* of enqueue: that the queue was full or stopping shows at the next start, and
\* Restart chooses the writes that never got into the database.
StoreStep(t) ==
    /\ AtOp(t, "store")
    /\ offered' = Append(offered, Cur(t).write)
    /\ Continue(t, <<>>)
    /\ UNCHANGED <<memory, view, db, posts, ops, crashes, overlaps>>

Row(r) == [name |-> rooms[r].name, topic |-> rooms[r].topic,
           owner |-> rooms[r].owner, born |-> rooms[r].born]

\* persist_room: reads the room under the lock.
PersistStep(t) ==
    /\ AtOp(t, "persist")
    /\ Continue(t, <<Store(RoomWrite(Cur(t).room, Row(Cur(t).room)))>>)
    /\ UNCHANGED <<memory, view, offered, db, posts, ops, crashes, overlaps>>

\* Mutant: the joining user is told of the room after the others are.
EnterLate(v, r) ==
    <<Post(r), Deliver({v}, RoomJoined(r, rooms[r].topic)),
      Deliver({v}, RoomText(r, rooms[r].recent))>>

Enter(v, r) ==
    <<Deliver({v}, RoomJoined(r, rooms[r].topic)),
      Deliver({v}, RoomText(r, rooms[r].recent)),
      Post(r)>>

\* move_session_to_room and move_local_to_room: topic and history are copied
\* in the lock section that moves the user.
MoveStep(t) ==
    /\ AtOp(t, "move")
    /\ LET c == Cur(t)
           old == at[c.who]
       IN  /\ at' = [at EXCEPT ![c.who] = c.room]
           /\ Continue(t, (IF c.tell /\ old # 0 THEN <<Post(old), Users(old)>> ELSE <<>>)
                          \o Enter(c.who, c.room) \o <<Users(c.room), Lists>>)
    /\ UNCHANGED <<rooms, view, offered, db, posts, ops, crashes, overlaps>>

ThreadStep(t) ==
    \/ PostStep(t) \/ UsersStep(t) \/ ListsStep(t) \/ DeliverStep(t)
    \/ StoreStep(t) \/ PersistStep(t) \/ MoveStep(t)

-----------------------------------------------------------------------------
(***************************************************************************)
(* Operations that both threads begin.                                     *)
(***************************************************************************)
Taken(nm) == \E r \in RoomIds : Exists(r) /\ rooms[r].name = nm

\* next_room_id_: one more than every id in use, rooms are never removed.
NextRoomId == Max({r \in RoomIds : Exists(r)}) + 1

\* Mutant: the room's row is queued when the creator has moved.
PersistLate(r, more) == more \o <<Persist(r)>>
PersistFirst(r, more) == <<Persist(r)>> \o more

\* create_room and create_local_room, which move the owner to the new room,
\* and create_admin_room, whose rooms have no owner.
Create(t, nm, owner) ==
    LET r == NextRoomId IN
    /\ r \in RoomIds /\ ~Taken(nm)
    /\ rooms' = [rooms EXCEPT ![r] = [name |-> nm, topic |-> Absent, owner |-> owner,
                                      born |-> ops + 1, recent |-> <<>>]]
    /\ Begin(t, PersistFirst(r, IF owner = Absent THEN <<Lists>>
                                ELSE <<Move(owner, r, TRUE)>>))
    /\ UNCHANGED at

\* set_topic_for_room: under the lock the topic and the members are taken.
SetTopic(t, r, topic) ==
    /\ rooms' = [rooms EXCEPT ![r].topic = topic]
    /\ Begin(t, <<Store(TopicWrite(r, topic)),
                  Deliver(Members(r), RoomTopic(r, topic)), Post(r)>>)
    /\ UNCHANGED at

\* join_room, leave_room and their local forms.
JoinRoom(t, v, r) ==
    /\ at[v] \notin {0, r} /\ Exists(r)
    /\ BeginOnly(t, <<Move(v, r, TRUE)>>)

\* send_private_in_room, for a target that is in the room.
SendPrivate(t, from, to) ==
    /\ at[from] # 0 /\ to # from /\ at[to] = at[from]
    /\ BeginOnly(t, <<Deliver({from, to}, Whisper)>>)

\* A session ends: it is taken out of its room, and from then on the frames
\* for it go nowhere.
Depart(t, c, steps) ==
    /\ at[c] # 0
    /\ Idle(t) /\ ops < MaxOps
    /\ ops' = ops + 1
    /\ CountOverlap
    /\ at' = [at EXCEPT ![c] = 0]
    /\ view' = [view EXCEPT ![c] = Blank(Gone)]
    /\ todo' = [todo EXCEPT ![t] = steps]
    /\ UNCHANGED <<rooms, offered, db, posts, crashes>>

\* kick_user_in_room and ban_user: disconnect, which says nothing, then the
\* line for the room, and the users once more.
Kick(t, c) == Depart(t, c, <<Users(at[c]), Lists, Post(at[c]), Users(at[c])>>)

-----------------------------------------------------------------------------
(***************************************************************************)
(* Frames of the clients.                                                  *)
(***************************************************************************)

\* admit_to_default_room, at the end of the login.
Admit(c) ==
    /\ at[c] = 0 /\ view[c].room = 0
    /\ BeginOnly("io", <<Move(c, DefaultRoom, FALSE)>>)

HandleChat(c) == at[c] # 0 /\ BeginOnly("io", <<Post(at[c])>>)

HandleCreate(c, nm) == at[c] # 0 /\ Create("io", nm, c)

HandleTopic(c, topic) ==
    /\ at[c] # 0 /\ rooms[at[c]].owner = c
    /\ SetTopic("io", at[c], topic)

\* send_topic and send_room_list
HandleQuestion(c) ==
    /\ at[c] # 0
    /\ \/ BeginOnly("io", <<Deliver({c}, RoomTopic(at[c], rooms[at[c]].topic))>>)
       \/ BeginOnly("io", <<Deliver({c}, RoomList(Counts))>>)

\* kick_from: the owner of a room kicks another member.
OwnerKick(c, v) ==
    /\ at[c] # 0 /\ rooms[at[c]].owner = c /\ at[v] = at[c]
    /\ Kick("io", v)

\* disconnect, when the client leaves.
HandleDisconnect(c) ==
    Depart("io", c, <<Post(at[c]), Users(at[c]), Lists>>)

Frame(c) ==
    \/ Admit(c) \/ HandleChat(c) \/ HandleQuestion(c) \/ HandleDisconnect(c)
    \/ \E nm \in Names : HandleCreate(c, nm)
    \/ \E topic \in Topics : HandleTopic(c, topic)
    \/ \E r \in RoomIds : JoinRoom("io", c, r)
    \/ \E v \in Viewers : SendPrivate("io", c, v)
    \/ \E v \in Clients \ {c} : OwnerKick(c, v)

-----------------------------------------------------------------------------
(***************************************************************************)
(* Commands of the local user, and of a dedicated server's console, which  *)
(* has none.  Commands that only print to the screen, and /clear, which    *)
(* empties it, are left out.                                               *)
(***************************************************************************)
Hosting == at[Host] # 0

LocalCommand ==
    /\ Hosting
    /\ \/ BeginOnly("terminal", <<Post(at[Host])>>)
       \/ \E nm \in Names : Create("terminal", nm, Host)
       \/ \E topic \in Topics : SetTopic("terminal", at[Host], topic)
       \/ \E r \in RoomIds : JoinRoom("terminal", Host, r)
       \/ \E c \in Clients : SendPrivate("terminal", Host, c) \/ Kick("terminal", c)

\* One message to every room, in an order that no property depends on.
AllPosts ==
    LET ids == SetToSeq({r \in RoomIds : Exists(r)})
    IN  [i \in DOMAIN ids |-> Post(ids[i])]

\* broadcast_server with a line that fits in a frame, create_admin_room,
\* set_admin_topic, kick_user_in_room, ban_user.
AdminCommand ==
    /\ ~Hosting
    /\ \/ BeginOnly("terminal", AllPosts)
       \/ \E nm \in Names : Create("terminal", nm, Absent)
       \/ \E r \in RoomIds, topic \in Topics : Exists(r) /\ SetTopic("terminal", r, topic)
       \/ \E c \in Clients : Kick("terminal", c)

-----------------------------------------------------------------------------
(***************************************************************************)
(* Start and restart.                                                      *)
(***************************************************************************)
\* load_history, the last messages in the order of sent_at.
LoadHistory(d, r) == Keep(d.messages[r], HistoryLimit)

\* load_persistent_state
Loaded(d) ==
    [r \in RoomIds |->
        IF d.rooms[r] = Absent THEN Absent
        ELSE [name |-> d.rooms[r].name, topic |-> d.rooms[r].topic,
              owner |-> d.rooms[r].owner, born |-> d.rooms[r].born,
              recent |-> LoadHistory(d, r)]]

\* The database after a sequence of writes, without those in a set of places
\* and those the schema refuses.
Write(d, ws, gone, i) == IF i \in gone \/ Refuses(d, ws[i]) THEN d ELSE Apply(d, ws[i])
Writing(d, ws, gone) ==
    LET after[i \in 0 .. Len(ws)] == IF i = 0 THEN d ELSE Write(after[i - 1], ws, gone, i)
    IN  after
Written(d, ws, gone) == Writing(d, ws, gone)[Len(ws)]

StartAt(hosted) == [v \in Viewers |-> IF v = Host /\ hosted THEN DefaultRoom ELSE 0]

\* start_local_user shows the host the lobby.
StartView(rs, hosted) ==
    [v \in Viewers |->
        IF v = Host /\ hosted
        THEN [Blank(DefaultRoom) EXCEPT
                 !.topic = rs[DefaultRoom].topic, !.users = {Host},
                 !.rooms = [r \in {i \in RoomIds : rs[i] # Absent} |->
                               IF r = DefaultRoom THEN 1 ELSE 0]]
        ELSE Blank(0)]

\* migrate has put the lobby in.
Migrated ==
    [EmptyDb(RoomIds, {}) EXCEPT
        !.rooms[DefaultRoom] = [name |-> Lobby, topic |-> Lobby, owner |-> Absent, born |-> 0]]

Init ==
    /\ db = Migrated
    /\ rooms = Loaded(db)
    /\ \E hosted \in BOOLEAN : at = StartAt(hosted) /\ view = StartView(rooms, hosted)
    /\ todo = [t \in Threads |-> <<>>]
    /\ offered = <<>> /\ posts = 0 /\ ops = 0 /\ crashes = 0 /\ overlaps = 0

\* The server stops and starts again.  Any of the writes may be missing: those
\* that the queue refused, those of the batches that were rolled back, and the
\* last ones, which were not committed yet.
Restart ==
    /\ crashes < MaxCrashes /\ ops <= CrashOps
    /\ crashes' = crashes + 1
    /\ db' \in {Written(db, offered, gone) : gone \in SUBSET (1 .. Len(offered))}
    /\ rooms' = Loaded(db')
    /\ at' = StartAt(Hosting) /\ view' = StartView(rooms', Hosting)
    /\ todo' = [t \in Threads |-> <<>>]
    /\ offered' = <<>>
    /\ overlaps' = 0
    /\ UNCHANGED <<posts, ops>>

Next ==
    \/ \E t \in Threads : ThreadStep(t)
    \/ \E c \in Clients : Frame(c)
    \/ LocalCommand \/ AdminCommand \/ Restart

Spec == Init /\ [][Next]_vars

-----------------------------------------------------------------------------
(***************************************************************************)
(* Properties.                                                             *)
(***************************************************************************)
Quiet == \A t \in Threads : Idle(t)
Raced == overlaps > 0

\* A client is never shown a message of a room other than the one on its
\* screen, however late the message is delivered after the client has moved.
\* The local user is not either as long as the two threads do not overlap:
\* push_message does not know the room.
RoomsAreSeparate ==
    \A v \in IF Raced THEN Clients ELSE Viewers :
        \A i \in 1 .. Len(view[v].lines) : view[v].lines[i].room \in {0, view[v].room}

\* A room shows only messages that were posted in it, also after restarts in
\* which the rows of some rooms were lost and their ids given to others.
HistoryBelongs ==
    \A r \in RoomIds : Exists(r)
        => \A i \in 1 .. Len(rooms[r].recent) :
              rooms[r].recent[i].room = r /\ rooms[r].recent[i].born = rooms[r].born

\* When nothing is in progress and no two operations have overlapped, what is
\* queued for the database brings back exactly the rooms that are in memory,
\* with their topics, their owners and their messages in order.
RestartRestores ==
    Quiet /\ ~Raced => Loaded(Written(db, offered, {})) = rooms

\* The lines of a screen without the private ones.
Selecting(lines) ==
    LET upTo[i \in 0 .. Len(lines)] ==
            IF i = 0 THEN <<>>
            ELSE IF lines[i].room = 0 THEN upTo[i - 1] ELSE Append(upTo[i - 1], lines[i])
    IN  upTo
RoomLines(lines) == Selecting(lines)[Len(lines)]

\* Under the same condition everybody online is shown the room they are in,
\* its topic, its members, the sizes of all rooms and its last messages,
\* without a gap; a client has all that recent_messages holds, as far as its own
\* list can hold it.  A client of a room with so many members that their list
\* does not fit in a frame keeps an older one, but follows all the rest.
ScreensFollow ==
    Quiet /\ ~Raced => \A v \in Online :
        LET r == at[v]
            lines == RoomLines(view[v].lines)
        IN  /\ view[v].room = r /\ view[v].topic = rooms[r].topic
            /\ v = Host \/ Members(r) \in Listable => view[v].users = Members(r)
            /\ view[v].rooms = Counts
            /\ \/ IsSuffix(rooms[r].recent, lines)
               \/ Len(view[v].lines) = MaxLines /\ IsSuffix(lines, rooms[r].recent)
               \/ v = Host /\ IsSuffix(lines, rooms[r].recent)
=============================================================================
