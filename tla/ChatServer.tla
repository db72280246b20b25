----------------------------- MODULE ChatServer -----------------------------
(***************************************************************************)
(* The registry of the chat server: who is connected, under which nickname *)
(* and key, in which room, and who is banned (chat_server.h), together     *)
(* with the login protocol of a session's read loop (client_session.cpp).  *)
(*                                                                         *)
(* Two threads call the server.  The "io" thread runs every network        *)
(* handler, one at a time; the "console" thread runs the administrator's   *)
(* (dedicated server) or the host user's (interactive server) commands.    *)
(* One action is one critical section or one access to an atomic: what a   *)
(* thread still has to do is the sequence todo[t] of pending steps.        *)
(*                                                                         *)
(* Text, topics, history, user lists and storage are not part of this      *)
(* module: broadcast_room, broadcast_users, broadcast_room_lists and       *)
(* persist_room do not touch the state below.                              *)
(***************************************************************************)
EXTENDS Integers, Sequences, FiniteSets

CONSTANTS
    Sess,             \* session objects, one per accepted connection
    Nicks,            \* nicknames
    Keys,             \* identity public keys
    KeyOf,            \* the key whose secret half a session's client has
    RoomNames,        \* room names after normalized_room_name
    LobbyName,        \* "lobby"
    None,             \* the empty string, or no session
    LocalNick,        \* local_nickname_: None on a dedicated server
    HasPassword,      \* has_password()
    MaxRooms,         \* protocol::MAX_ROOMS
    ConsoleCmds,      \* the commands the console thread issues
    StoredBans,       \* the bans load_persistent_state reads
    StoredIdentities  \* the identities load_persistent_state reads

AllCmds == {"create", "kick", "ban", "unban", "move"}

ASSUME ConstantAssumption ==
    /\ KeyOf \in [Sess -> Keys]
    /\ LobbyName \in RoomNames
    /\ None \notin Sess /\ None \notin Nicks
    /\ None \notin Keys /\ None \notin RoomNames
    /\ LocalNick \in Nicks \cup {None}
    /\ HasPassword \in BOOLEAN
    /\ MaxRooms \in Nat /\ MaxRooms >= 1
    /\ ConsoleCmds \subseteq AllCmds
    /\ StoredBans \subseteq Nicks
    /\ StoredIdentities \in [Nicks -> Keys \cup {None}]

VARIABLES
    up,             \* stop() has not run
    sessions,       \* sessions_
    life,           \* what the session's next asynchronous operation is
    link,           \* its stream: close() moves it to closing, then closed
    negotiated,     \* protocol_negotiated_
    authenticated,  \* authenticated_
    nick,           \* nickname_
    pending,        \* pending_nickname_ and pending_public_key_hex_
    active,         \* active_room_id_ (atomic, 0 is no room)
    members,        \* Room::members
    name,           \* Room::name, None for an id not handed out
    owner,          \* Room::owner_nickname
    nextRoom,       \* next_room_id_
    localRoom,      \* local_room_id_
    banned,         \* banned_nicks_
    identities,     \* identities_
    todo,           \* the steps a thread has yet to take
    hit,            \* history: sessions the console thread disconnected
    slipped         \* history: logins that a ban overtook after their check

connVars  == <<life, link, negotiated, authenticated>>
loginVars == <<nick, pending, identities>>
roomVars  == <<name, owner, nextRoom>>
vars == <<up, sessions, connVars, loginVars, roomVars, active, members,
          localRoom, banned, todo, hit, slipped>>

Threads == {"io", "console"}
Lobby   == 1                       \* DEFAULT_ROOM_ID
RoomIds == 1 .. MaxRooms
NoRoom  == 0

(***************************************************************************)
(* Pending steps.  Every step has the same fields: the session it works    *)
(* on, the room it leaves, the room it enters (or searches), a nickname.   *)
(***************************************************************************)
Ops == {"erase", "load", "clear", "evict", "moveLoad", "move",
        "proofBanned", "proofTaken", "proofBind",
        "kickFind", "banFind", "close"}

Step == [op : Ops, s : Sess \cup {None}, from : 0 .. MaxRooms,
         to : 0 .. MaxRooms, n : Nicks \cup {None}]

RoomStep(op, s, from, to) ==
    [op |-> op, s |-> s, from |-> from, to |-> to, n |-> None]
SessionStep(op, s) == RoomStep(op, s, NoRoom, NoRoom)
MoveTo(s, r)    == RoomStep("moveLoad", s, NoRoom, r)
KickFrom(r, n)  == [op |-> "kickFind", s |-> None, from |-> 0, to |-> r, n |-> n]
FindBanned(n)   == [op |-> "banFind", s |-> None, from |-> 0, to |-> 0, n |-> n]
Disconnect(s)   == SessionStep("erase", s)

Idle(t)    == todo[t] = <<>>
AtOp(t, op) == todo[t] # <<>> /\ Head(todo[t]).op = op
Cur(t)     == Head(todo[t])

\* Thread t finishes its current step and goes on with steps, then the rest.
Continue(t, steps) == todo' = [todo EXCEPT ![t] = steps \o Tail(@)]
Begin(t, steps)    == todo' = [todo EXCEPT ![t] = steps]

Exists(r) == r \in RoomIds /\ name[r] # None

\* ClientSession::close posts; the stream closes once the queue has drained.
Closing(s) == [link EXCEPT ![s] = IF @ = "open" THEN "closing" ELSE @]

\* nickname_taken: the local user's name, or that of a listed session.
Taken(n) == n = LocalNick \/ \E s \in sessions : nick[s] = n

-----------------------------------------------------------------------------
(***************************************************************************)
(* Connections: accept_loop, start, and the failures of read_loop.         *)
(***************************************************************************)
Accept(s) ==
    /\ up /\ Idle("io") /\ life[s] = "absent"
    /\ life' = [life EXCEPT ![s] = "handshake"]
    /\ sessions' = sessions \cup {s}
    /\ UNCHANGED <<up, link, negotiated, authenticated, loginVars, roomVars,
                   active, members, localRoom, banned, todo, hit, slipped>>

HandshakeOk(s) ==
    /\ up /\ Idle("io") /\ life[s] = "handshake"
    /\ life' = [life EXCEPT ![s] = "reading"]
    /\ UNCHANGED <<up, sessions, link, negotiated, authenticated, loginVars,
                   roomVars, active, members, localRoom, banned, todo, hit,
                   slipped>>

\* disconnect, then stream_.close(); nobody looks at the stream in between.
HandshakeFail(s) ==
    /\ up /\ Idle("io") /\ life[s] = "handshake"
    /\ life' = [life EXCEPT ![s] = "ended"]
    /\ link' = [link EXCEPT ![s] = "closed"]
    /\ Begin("io", <<Disconnect(s)>>)
    /\ UNCHANGED <<up, sessions, negotiated, authenticated, loginVars,
                   roomVars, active, members, localRoom, banned, hit, slipped>>

\* The posted close() has run and the write queue has drained.
StreamCloses(s) ==
    /\ up /\ Idle("io") /\ link[s] = "closing"
    /\ link' = [link EXCEPT ![s] = "closed"]
    /\ UNCHANGED <<up, sessions, life, negotiated, authenticated, loginVars,
                   roomVars, active, members, localRoom, banned, todo, hit,
                   slipped>>

\* Mutant: the failed read does not disconnect the session.
ReadErrorIgnored(s) ==
    /\ up /\ Idle("io") /\ life[s] = "reading"
    /\ life' = [life EXCEPT ![s] = "ended"]
    /\ UNCHANGED <<up, sessions, link, negotiated, authenticated, loginVars,
                   roomVars, active, members, localRoom, banned, todo, hit,
                   slipped>>

\* async_read_until fails: the stream was closed, or the peer went away.
ReadError(s) ==
    /\ up /\ Idle("io") /\ life[s] = "reading"
    /\ life' = [life EXCEPT ![s] = "ended"]
    /\ Begin("io", <<Disconnect(s)>>)
    /\ UNCHANGED <<up, sessions, link, negotiated, authenticated, loginVars,
                   roomVars, active, members, localRoom, banned, hit, slipped>>

\* A frame of session s is being handled; when the stream has been closed, one
\* that an earlier read had left in buffer_.
Handling(s) == up /\ Idle("io") /\ life[s] = "reading"

\* Mutant: a refusal closes the stream and leaves the session listed.
RejectStaysListed(s) ==
    /\ life' = [life EXCEPT ![s] = "ended"]
    /\ link' = Closing(s)
    /\ Begin("io", <<>>)

\* Every refusal: deliver the reason, close(), disconnect, no further read.
Reject(s) ==
    /\ life' = [life EXCEPT ![s] = "ended"]
    /\ link' = Closing(s)
    /\ Begin("io", <<Disconnect(s)>>)

Ready(s) == negotiated[s] /\ (HasPassword => authenticated[s])

-----------------------------------------------------------------------------
(***************************************************************************)
(* Frames before the session is logged in.                                 *)
(***************************************************************************)
HandleHello(s) ==
    /\ Handling(s) /\ ~negotiated[s]
    /\ negotiated' = [negotiated EXCEPT ![s] = TRUE]
    /\ UNCHANGED <<up, sessions, life, link, authenticated, loginVars,
                   roomVars, active, members, localRoom, banned, todo, hit,
                   slipped>>

\* An unsupported version at any time, or another frame before the handshake.
HandleUnsupported(s) ==
    /\ Handling(s)
    /\ Reject(s)
    /\ UNCHANGED <<up, sessions, negotiated, authenticated, loginVars,
                   roomVars, active, members, localRoom, banned, hit, slipped>>

HandleAuthenticate(s, correct) ==
    /\ Handling(s) /\ negotiated[s]
    /\ IF correct
       THEN /\ authenticated' = [authenticated EXCEPT ![s] = TRUE]
            /\ UNCHANGED <<life, link, todo>>
       ELSE Reject(s) /\ UNCHANGED authenticated
    /\ UNCHANGED <<up, sessions, negotiated, loginVars, roomVars, active,
                   members, localRoom, banned, hit, slipped>>

\* identity_available_for, is_banned and nickname_taken, here in one step: they
\* decide only whether a challenge is issued, and the proof repeats the last two
\* and binds under the lock, one by one.
HandleIdentify(s, n, k) ==
    /\ Handling(s) /\ Ready(s) /\ nick[s] = None
    /\ IF identities[n] \notin {None, k} \/ n \in banned \/ Taken(n)
       THEN Reject(s) /\ UNCHANGED pending
       ELSE /\ pending' = [pending EXCEPT ![s] = [nick |-> n, key |-> k]]
            /\ UNCHANGED <<life, link, todo>>
    /\ UNCHANGED <<up, sessions, negotiated, authenticated, nick, identities,
                   roomVars, active, members, localRoom, banned, hit, slipped>>

\* A proof is valid when it was made with the secret key of the pending key.
ValidProof(s) == pending[s] # None /\ pending[s].key = KeyOf[s]

HandleProof(s, signed) ==
    /\ Handling(s) /\ Ready(s) /\ nick[s] = None
    /\ IF signed /\ ValidProof(s)
       THEN Begin("io", <<SessionStep("proofBanned", s)>>) /\ UNCHANGED <<life, link>>
       ELSE Reject(s)
    /\ UNCHANGED <<up, sessions, negotiated, authenticated, loginVars,
                   roomVars, active, members, localRoom, banned, hit, slipped>>

NoBanRecheck(s) == FALSE                                   \* mutant
BanHits(s) == pending[s].nick \in banned

ProofBanned ==
    /\ up /\ AtOp("io", "proofBanned")
    /\ LET s == Cur("io").s IN
       IF BanHits(s)
       THEN Reject(s)
       ELSE /\ Continue("io", <<SessionStep("proofTaken", s)>>)
            /\ UNCHANGED <<life, link>>
    /\ UNCHANGED <<up, sessions, negotiated, authenticated, loginVars,
                   roomVars, active, members, localRoom, banned, hit, slipped>>

NoNameRecheck(s) == FALSE                                  \* mutant
NameGone(s) == Taken(pending[s].nick)

ProofTaken ==
    /\ up /\ AtOp("io", "proofTaken")
    /\ LET s == Cur("io").s IN
       IF NameGone(s)
       THEN Reject(s)
       ELSE /\ Continue("io", <<SessionStep("proofBind", s)>>)
            /\ UNCHANGED <<life, link>>
    /\ UNCHANGED <<up, sessions, negotiated, authenticated, loginVars,
                   roomVars, active, members, localRoom, banned, hit, slipped>>

NeverRefuses(n, k) == FALSE                                \* mutant
BindRefuses(n, k) == identities[n] \notin {None, k}

\* bind_identity, set_nickname, clear the challenge, admit_to_default_room.
ProofBind ==
    /\ up /\ AtOp("io", "proofBind")
    /\ LET s == Cur("io").s
           n == pending[s].nick
           k == pending[s].key IN
       IF BindRefuses(n, k)
       THEN Reject(s) /\ UNCHANGED loginVars
       ELSE /\ identities' = [identities EXCEPT ![n] = k]
            /\ nick' = [nick EXCEPT ![s] = n]
            /\ pending' = [pending EXCEPT ![s] = None]
            /\ Continue("io", <<MoveTo(s, Lobby)>>)
            /\ UNCHANGED <<life, link>>
    /\ UNCHANGED <<up, sessions, negotiated, authenticated, roomVars, active,
                   members, localRoom, banned, hit, slipped>>

-----------------------------------------------------------------------------
(***************************************************************************)
(* Frames of a logged-in session.  Refusals that only answer with an error *)
(* change nothing and are left out.                                        *)
(***************************************************************************)
Member(s) == Handling(s) /\ Ready(s) /\ nick[s] # None

HandleDisconnect(s) ==
    /\ Handling(s) /\ Ready(s)
    /\ life' = [life EXCEPT ![s] = "ended"]
    /\ Begin("io", <<Disconnect(s), SessionStep("close", s)>>)
    /\ UNCHANGED <<up, sessions, link, negotiated, authenticated, loginVars,
                   roomVars, active, members, localRoom, banned, hit, slipped>>

\* join_room (to any room) and leave_room (to the lobby).
HandleJoinRoom(s, r) ==
    /\ Member(s) /\ Exists(r) /\ active[s] # r
    /\ Begin("io", <<MoveTo(s, r)>>)
    /\ UNCHANGED <<up, sessions, connVars, loginVars, roomVars, active,
                   members, localRoom, banned, hit, slipped>>

OnlyLobbyNamed(nm) == name[Lobby] = nm                     \* mutant
RoomNamed(nm) == \E r \in RoomIds : name[r] = nm

RoomCount == Cardinality({r \in RoomIds : name[r] # None})

OneRoomTooMany == RoomCount <= MaxRooms                    \* mutant
RoomsLeft == RoomCount < MaxRooms

\* The locked part of create_room, create_local_room, create_admin_room.
NewRoom(nm, who) ==
    /\ RoomsLeft
    /\ ~RoomNamed(nm)
    /\ nextRoom' = nextRoom + 1
    /\ name'  = [name EXCEPT ![nextRoom] = nm]
    /\ owner' = [owner EXCEPT ![nextRoom] = who]

HandleCreateRoom(s, nm) ==
    /\ Member(s)
    /\ NewRoom(nm, nick[s])
    /\ Begin("io", <<MoveTo(s, nextRoom)>>)
    /\ UNCHANGED <<up, sessions, connVars, loginVars, active, members,
                   localRoom, banned, hit, slipped>>

\* kick_from: the owner of the active room kicks another of its members.
HandleKick(s, n) ==
    /\ Member(s)
    /\ Exists(active[s]) /\ owner[active[s]] = nick[s] /\ n # nick[s]
    /\ Begin("io", <<KickFrom(active[s], n)>>)
    /\ UNCHANGED <<up, sessions, connVars, loginVars, roomVars, active,
                   members, localRoom, banned, hit, slipped>>

-----------------------------------------------------------------------------
(***************************************************************************)
(* The steps of disconnect.  The active room is read and reset by two      *)
(* separate atomic accesses, outside every lock.                           *)
(***************************************************************************)
EraseSession(t) ==
    /\ up /\ AtOp(t, "erase")
    /\ sessions' = sessions \ {Cur(t).s}
    /\ Continue(t, <<SessionStep("load", Cur(t).s)>>)
    /\ UNCHANGED <<up, connVars, loginVars, roomVars, active, members,
                   localRoom, banned, hit, slipped>>

LoadActive(t) ==
    /\ up /\ AtOp(t, "load")
    /\ Continue(t, <<RoomStep("clear", Cur(t).s, active[Cur(t).s], NoRoom)>>)
    /\ UNCHANGED <<up, sessions, connVars, loginVars, roomVars, active,
                   members, localRoom, banned, hit, slipped>>

ClearActive(t) ==
    /\ up /\ AtOp(t, "clear")
    /\ active' = [active EXCEPT ![Cur(t).s] = NoRoom]
    /\ Continue(t, IF Cur(t).from = NoRoom
                   THEN <<>>
                   ELSE <<RoomStep("evict", Cur(t).s, Cur(t).from, NoRoom)>>)
    /\ UNCHANGED <<up, sessions, connVars, loginVars, roomVars, members,
                   localRoom, banned, hit, slipped>>

Evict(t) ==
    /\ up /\ AtOp(t, "evict")
    /\ members' = [members EXCEPT ![Cur(t).from] = @ \ {Cur(t).s}]
    /\ Continue(t, <<>>)
    /\ UNCHANGED <<up, sessions, connVars, loginVars, roomVars, active,
                   localRoom, banned, hit, slipped>>

\* close() after disconnect, for a session that asked to disconnect.
CloseStep ==
    /\ up /\ AtOp("io", "close")
    /\ link' = Closing(Cur("io").s)
    /\ Continue("io", <<>>)
    /\ UNCHANGED <<up, sessions, life, negotiated, authenticated, loginVars,
                   roomVars, active, members, localRoom, banned, hit, slipped>>

(***************************************************************************)
(* move_session_to_room: the old room is read before the lock is taken.    *)
(***************************************************************************)
MoveLoad ==
    /\ up /\ AtOp("io", "moveLoad")
    /\ LET c == Cur("io") IN
       Continue("io", <<RoomStep("move", c.s, active[c.s], c.to)>>)
    /\ UNCHANGED <<up, sessions, connVars, loginVars, roomVars, active,
                   members, localRoom, banned, hit, slipped>>

\* Mutant: the session stays a member of the room it leaves.
AddedMember(c) == [members EXCEPT ![c.to] = @ \cup {c.s}]

MovedMember(c) ==
    [r \in RoomIds |-> IF r = c.to THEN members[r] \cup {c.s}
                       ELSE IF r = c.from THEN members[r] \ {c.s}
                       ELSE members[r]]

Move ==
    /\ up /\ AtOp("io", "move")
    /\ LET c == Cur("io") IN
       /\ members' = MovedMember(c)
       /\ active' = [active EXCEPT ![c.s] = c.to]
    /\ Continue("io", <<>>)
    /\ UNCHANGED <<up, sessions, connVars, loginVars, roomVars, localRoom,
                   banned, hit, slipped>>

(***************************************************************************)
(* kick_user_in_room and the second half of ban_user: the target is found  *)
(* under a lock; the Kick frame, close() and disconnect come after it.     *)
(***************************************************************************)
Expel(t, s) ==
    /\ link' = Closing(s)
    /\ hit' = IF t = "console" THEN hit \cup {s} ELSE hit
    /\ Continue(t, <<Disconnect(s)>>)

NobodyFound(t) == Continue(t, <<>>) /\ UNCHANGED <<link, hit>>

KickFind(t) ==
    /\ up /\ AtOp(t, "kickFind")
    /\ LET found == {s \in members[Cur(t).to] : nick[s] = Cur(t).n} IN
       \/ \E s \in found : Expel(t, s)
       \/ found = {} /\ NobodyFound(t)
    /\ UNCHANGED <<up, sessions, life, negotiated, authenticated, loginVars,
                   roomVars, active, members, localRoom, banned, slipped>>

BanFind ==
    /\ up /\ AtOp("console", "banFind")
    /\ LET found == {s \in sessions : nick[s] = Cur("console").n} IN
       \/ \E s \in found : Expel("console", s)
       \/ found = {} /\ NobodyFound("console")
    /\ UNCHANGED <<up, sessions, life, negotiated, authenticated, loginVars,
                   roomVars, active, members, localRoom, banned, slipped>>

-----------------------------------------------------------------------------
(***************************************************************************)
(* Console commands.                                                       *)
(***************************************************************************)
Issues(cmd) == up /\ Idle("console") /\ cmd \in ConsoleCmds

IsHost == LocalNick # None

\* create_admin_room; on an interactive host create_local_room, which also
\* moves the local user.
CmdCreate(nm) ==
    /\ Issues("create")
    /\ NewRoom(nm, LocalNick)
    /\ localRoom' = IF IsHost THEN nextRoom ELSE localRoom
    /\ UNCHANGED <<up, sessions, connVars, loginVars, active, members, banned,
                   todo, hit, slipped>>

\* join_local_room and leave_local_room.
CmdMove(r) ==
    /\ Issues("move") /\ IsHost
    /\ Exists(r) /\ r # localRoom
    /\ localRoom' = r
    /\ UNCHANGED <<up, sessions, connVars, loginVars, roomVars, active,
                   members, banned, todo, hit, slipped>>

\* The admin names a room; the host kicks from the room the host is in.
CmdKick(r, n) ==
    /\ Issues("kick")
    /\ Exists(r) /\ (IsHost => r = localRoom)
    /\ Begin("console", <<KickFrom(r, n)>>)
    /\ UNCHANGED <<up, sessions, connVars, loginVars, roomVars, active,
                   members, localRoom, banned, hit, slipped>>

\* Sessions whose proof for n has passed the ban check but is not bound yet.
PastBanCheck(n) ==
    {s \in Sess : /\ pending[s] # None /\ pending[s].nick = n
                  /\ \E op \in {"proofTaken", "proofBind"} :
                        AtOp("io", op) /\ Cur("io").s = s}

CmdBan(n) ==
    /\ Issues("ban")
    /\ banned' = banned \cup {n}
    /\ slipped' = slipped \cup PastBanCheck(n)
    /\ Begin("console", <<FindBanned(n)>>)
    /\ UNCHANGED <<up, sessions, connVars, loginVars, roomVars, active,
                   members, localRoom, hit>>

CmdUnban(n) ==
    /\ Issues("unban") /\ n \in banned
    /\ banned' = banned \ {n}
    /\ UNCHANGED <<up, sessions, connVars, loginVars, roomVars, active,
                   members, localRoom, todo, hit, slipped>>

\* The handler stop() posts.  The process ends afterwards.
Stop ==
    /\ up /\ Idle("io") /\ Idle("console")
    /\ up' = FALSE
    /\ sessions' = {}
    /\ members' = [r \in RoomIds |-> {}]
    /\ link' = [s \in Sess |-> IF s \in sessions THEN "closed" ELSE link[s]]
    /\ UNCHANGED <<life, negotiated, authenticated, loginVars, roomVars,
                   active, localRoom, banned, todo, hit, slipped>>

-----------------------------------------------------------------------------
\* load_persistent_state on a fresh database, in which migrate has put the lobby
\* without an owner, then start_local_user.
Init ==
    /\ up = TRUE
    /\ sessions = {}
    /\ life = [s \in Sess |-> "absent"]
    /\ link = [s \in Sess |-> "open"]
    /\ negotiated = [s \in Sess |-> FALSE]
    /\ authenticated = [s \in Sess |-> FALSE]
    /\ nick = [s \in Sess |-> None]
    /\ pending = [s \in Sess |-> None]
    /\ active = [s \in Sess |-> NoRoom]
    /\ members = [r \in RoomIds |-> {}]
    /\ name = [r \in RoomIds |-> IF r = Lobby THEN LobbyName ELSE None]
    /\ owner = [r \in RoomIds |-> None]
    /\ nextRoom = Lobby + 1
    /\ localRoom = IF LocalNick # None THEN Lobby ELSE NoRoom
    /\ banned = StoredBans
    /\ identities = StoredIdentities
    /\ todo = [t \in Threads |-> <<>>]
    /\ hit = {}
    /\ slipped = {}

Connection(s) ==
    \/ Accept(s) \/ HandshakeOk(s) \/ HandshakeFail(s)
    \/ StreamCloses(s) \/ ReadError(s)

Frame(s) ==
    \/ HandleHello(s) \/ HandleUnsupported(s)
    \/ \E ok \in BOOLEAN : HandleAuthenticate(s, ok)
    \/ \E n \in Nicks, k \in Keys : HandleIdentify(s, n, k)
    \/ \E ok \in BOOLEAN : HandleProof(s, ok)
    \/ HandleDisconnect(s)
    \/ \E r \in RoomIds : HandleJoinRoom(s, r)
    \/ \E nm \in RoomNames : HandleCreateRoom(s, nm)
    \/ \E n \in Nicks : HandleKick(s, n)

IoStep == ProofBanned \/ ProofTaken \/ ProofBind \/ MoveLoad \/ Move \/ CloseStep

ThreadStep(t) ==
    EraseSession(t) \/ LoadActive(t) \/ ClearActive(t) \/ Evict(t) \/ KickFind(t)

Console ==
    \/ \E nm \in RoomNames : CmdCreate(nm)
    \/ \E r \in RoomIds : CmdMove(r)
    \/ \E r \in RoomIds, n \in Nicks : CmdKick(r, n)
    \/ \E n \in Nicks : CmdBan(n) \/ CmdUnban(n)
    \/ BanFind

Next ==
    \/ \E s \in Sess : Connection(s) \/ Frame(s)
    \/ IoStep
    \/ \E t \in Threads : ThreadStep(t)
    \/ Console
    \/ Stop

Spec == Init /\ [][Next]_vars

\* The io thread runs what it has begun; the stream of a peer that reads
\* drains; a pending read on a closed stream completes with an error.  The
\* io_context serves ready handlers in order, so that one that is ready again
\* and again between the handlers of other sessions has its turn.
IoFairness ==
    /\ WF_vars(IoStep)
    /\ WF_vars(ThreadStep("io"))
    /\ \A s \in Sess : /\ SF_vars(StreamCloses(s))
                      /\ SF_vars(link[s] = "closed" /\ ReadError(s))

FairSpec == Spec /\ IoFairness

-----------------------------------------------------------------------------
(***************************************************************************)
(* Properties.                                                             *)
(***************************************************************************)

\* Every variable has its type: the state of chat_server.h and of its sessions.
TypeOK ==
    /\ up \in BOOLEAN
    /\ sessions \subseteq Sess
    /\ life \in [Sess -> {"absent", "handshake", "reading", "ended"}]
    /\ link \in [Sess -> {"open", "closing", "closed"}]
    /\ negotiated \in [Sess -> BOOLEAN]
    /\ authenticated \in [Sess -> BOOLEAN]
    /\ nick \in [Sess -> Nicks \cup {None}]
    /\ pending \in [Sess -> [nick : Nicks, key : Keys] \cup {None}]
    /\ active \in [Sess -> 0 .. MaxRooms]
    /\ members \in [RoomIds -> SUBSET Sess]
    /\ name \in [RoomIds -> RoomNames \cup {None}]
    /\ owner \in [RoomIds -> Nicks \cup {None}]
    /\ nextRoom \in 2 .. MaxRooms + 1
    /\ localRoom \in 0 .. MaxRooms
    /\ banned \subseteq Nicks
    /\ identities \in [Nicks -> Keys \cup {None}]
    /\ todo \in [Threads -> Seq(Step)]
    /\ hit \subseteq Sess
    /\ slipped \subseteq Sess

\* No two listed sessions, and no listed session and the local user, have the
\* same nickname, however the proofs of two logins interleave: nickname_taken
\* is asked again after the proof (client_session.cpp:209).
NicknameUnique ==
    \A a, b \in sessions :
        nick[a] # None => /\ nick[a] # LocalNick
                          /\ nick[a] = nick[b] => a = b

\* A session has a nickname only after the handshake and the password, and
\* then its client has the secret key that the nickname is bound to, even when
\* another client bound it between the challenge and the proof.
IdentityHeld ==
    \A s \in Sess :
        nick[s] # None => /\ negotiated[s]
                          /\ HasPassword => authenticated[s]
                          /\ identities[nick[s]] = KeyOf[s]

\* bind_identity never rebinds a nickname that has a key.
IdentityPermanent ==
    [][\A n \in Nicks : identities[n] # None => identities'[n] = identities[n]]_vars

BeingEvicted(s) ==
    \E t \in Threads : \E i \in DOMAIN todo[t] :
        todo[t][i].op = "evict" /\ todo[t][i].s = s

\* active_room_id_ and the member sets agree, so that a session is in at most
\* one room, for every session that the console did not disconnect: what the
\* console thread's kick and ban can tear is confined to their targets.
MembershipConsistent ==
    up => \A s \in Sess \ hit : ~BeingEvicted(s) =>
             \A r \in RoomIds : s \in members[r] <=> active[s] = r

\* A session whose read loop has ended is, once the threads are idle, neither
\* listed nor a member of a room: disconnect cleaned up after it.
EndedLeavesNoTrace ==
    up /\ Idle("io") /\ Idle("console") =>
        \A s \in Sess : life[s] = "ended" =>
            s \notin sessions /\ \A r \in RoomIds : s \notin members[r]

\* When ban_user has returned, no listed session has the banned nickname.
BannedStayOut ==
    Idle("console") => \A s \in sessions : nick[s] \notin banned

\* The only sessions a ban misses are the logins between their own ban check
\* and set_nickname at the moment the ban was inserted.
BanMissesOnlyOvertaken ==
    Idle("console") => \A s \in sessions : nick[s] \in banned => s \in slipped

\* Room names are unique, although both threads create rooms.
RoomNamesUnique ==
    \A r, q \in RoomIds : name[r] # None /\ name[r] = name[q] => r = q

\* A session whose stream was closed is forgotten: its pending read fails and
\* the handler takes it out of sessions_ and out of its room.
ClosedIsForgotten ==
    \A s \in Sess :
        link[s] = "closed" ~> s \notin sessions /\ \A r \in RoomIds : s \notin members[r]
=============================================================================
