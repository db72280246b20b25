# A TLA+ model of chatbox

chatbox is a terminal chat program in C++: a server (dedicated, or inside the
interactive program of a host user), a client, a directory of public servers,
and a SQLite store. This directory holds TLA+ modules that model its concurrent
core, TLC configurations that check them on small instances, and proofs that
TLAPS checks for every value of the constants.

    tlc -workers 2 -config MCChatServerHost.cfg MCChatServer
    tlapm ChatServerProofs.tla

`PROJECT.json` lists the runs, what each definition models (file and lines), the
hazards of the code and the properties that cover them, the mutants that show
that a property can fail, and the theorems.

## The system

Paths are below `src/src/`.

| Component | State | Operations | Hard part |
|---|---|---|---|
| registry, `chat/chat_server.h`, `chat/room.h` | `sessions_`, `rooms_` with members, `active_room_id_` of each session, `identities_`, `banned_nicks_`, `local_room_id_` | connect, disconnect, join/leave/create room, kick, ban, unban, stop | called by two threads; four mutexes and an atomic, none of which covers a whole operation |
| login and read loop, `chat/client_session.cpp` | `protocol_negotiated_`, `authenticated_`, `pending_*`, `nickname_` | one handler per frame | checks made at Identify and again at the proof; frames of a session that was already disconnected |
| session writer, `chat/client_session.cpp` | `write_queue_`, `close_after_write_`, `suppress_leave_notice_` | deliver, close, abort, write completion | calls from any thread, one outstanding write, close after the queue has drained |
| room feed, `chat/chat_server.h` | `recent_messages`, `topic`, lists of users and rooms | broadcast, private message, topic | lists and messages are taken under the lock and delivered after it |
| storage, `storage/storage.cpp` | `queue`, `writing`, `stopping`, `error`, the database | enqueue, worker batch, flush, destructor, loads | bounded queue, condition variables, transactions that fail |
| client connection, `chat/chat_client.h` | `connecting_`, `connection_phase_`, `deadline_generation_`, `attempt_lifetime_` | async_connect, deadline, cancel, close | deadlines and completions that are already queued; objects that are gone |
| reconnect loop, `ui/interactive_app.cpp` | `retries`, `reconnecting` | connect, retry, leave | bounded retries, draining the io_context before an object is destroyed |
| client login, `chat/chat_client.h`, `ui/interactive_app.cpp` | `auth_*`, `join_*`, `kicked_`, `banned_` | one handler per server frame; the user interface polls the flags | two threads, flags set one after the other |
| directory, `network/server_browser.h` | `entries_` with time stamps; the publisher's `stop_requested_` | register, unregister, list, renew | expiry against renewal, stop against a renewal in flight |
| trust store, `network/tls.cpp` | host and port to fingerprint, in a file | verify_peer | read, ask the user, read again, write |
| network task, `ui/network_task.h` | `decision`, `answer`, `cancelled`, `done` | a worker asks the terminal thread | a condition variable notified without its mutex |
| codec, `protocol/protocol.cpp` | none | encode, decode | escaping, limits |
| console and commands, `app/dedicated_server.cpp`, `app/commands.cpp` | none | call the registry | run on a thread of their own |

How they interact: all handlers of a server run on one thread, `network_thread`,
in an `io_context` (here the *io* thread). The administrator's console or the
host's user interface calls the registry from a second thread (here the
*console* thread). Both call `deliver` and `close` of sessions, which only post
to the executor, and both enqueue writes for the storage worker. A client has
the io thread and the terminal thread; the connection phase runs on the terminal
thread, which polls the `io_context`.

What makes the parts correct, in short: names, keys and bans are exclusive
whatever the interleaving of logins and console commands; memberships and
`active_room_id_` agree and nothing of a finished session remains; frames arrive
in order and before the close that follows them; accepted writes are settled in
order and in whole batches, and a waiter is always released; an attempt to
connect completes once, in time, and touches no dead object; rooms do not mix on
a screen or in the history; a login tells the user what the server said; a
published server stays in the directory and a withdrawn one leaves it; trust in
a certificate changes only by a decision of the user.

## Modules

| Module | Models |
|---|---|
| `ChatServer` | the registry and the login part of the read loop |
| `ChatServerProofs` | theorems about it: types and pending steps; names, keys, bans and rooms |
| `SessionWriter`, `SessionWriterProofs` | the outgoing side of a session |
| `OrderedChannel` | what the writer promises: an ordered channel that is flushed before it is closed |
| `StorageQueue`, `StorageQueueProofs`, `StoreSchema` | the write queue with worker, flush and destructor; the effect of each write |
| `DurableLog` | what the storage promises: accepted writes settled in order, in atomic blocks |
| `ChatClient`, `ChatClientProofs` | connection attempts and the reconnect loop |
| `RoomFeed`, `RoomFeedProofs` | messages, history, topics, user and room lists, the screens that show them, the writes they queue (with `StoreSchema`), and the restart |
| `ClientLogin`, `ClientLoginProofs` | the client's network thread with its flags, against the terminal thread that logs in, chats and tears down |
| `Directory`, `DirectoryProofs` | the directory's entries, the publishers that renew them, and a lookup |
| `NetworkTask`, `NetworkTaskProofs` | background tasks, their questions to the user, and the trust store |
| `MC*` | instances for TLC |

### ChatServer

An action is one critical section or one access to an atomic. What a thread has
still to do is `todo[t]`, a sequence of steps: `disconnect`, for instance, is
*erase* (from `sessions_`), *load* and *clear* (of `active_room_id_`), *evict*
(from the room). The io thread starts a handler only when its `todo` is empty,
since handlers do not interleave with each other; the console thread interleaves
with every step. Adjacent sections are merged where the other thread can see no
difference: `bind_identity` and `set_nickname` (the console reads no
identities), inserting a room and moving the local user (the io thread does not
read `local_room_id_`), and the three checks of Identify, which only decide
whether a challenge is issued and are made again with the proof.

Text, user lists, history and storage are in `RoomFeed`: they do not change the
variables of this module. Refusals that only answer with an error change nothing
and are not actions. `link` abstracts the session's stream; `StreamCloses`
stands for the posted `close()` and the drained queue, which `SessionWriter`
models in full. A frame can be handled after the stream was closed, because
`buffer_` may hold more than one line. A proof is valid when the session's
client has the secret key (`KeyOf`) of the pending public key: signatures are
assumed to be unforgeable. `hit` and `slipped` are history variables: the
sessions that the console disconnected, and the logins that were past their ban
check when a ban of their name came.

### SessionWriter, OrderedChannel

`posted` is the executor's queue; `RunDeliver`, `RunClose` and `RunAbort` are
the posted handlers. A write takes effect (`WriteSent`, `WriteFailed`) and its
handler runs later (`HandleSent`, `HandleError`), possibly after an abort. A peer
may stop reading at any time (`PeerStalls`); `write_next` has no deadline, so that
its write then need not complete. A frame is one that can be encoded: `deliver`
drops the others before it posts anything, which is in `RoomFeed`.
`OrderedChannel` knows only what was given, what is on the wire and how much was
given when `close()` was first called; the writer's history variables carry the
same names, so the refinement mapping is the identity.

### StorageQueue, StoreSchema, DurableLog

The condition variables are modelled by who waits: a waiter goes on only when
notified or spuriously, and evaluates its condition again, so that a lost
wake-up is a state in which nobody moves. The worker's transaction works on `tx`
and replaces `db` at the commit; any statement may fail. In `DurableLog` there
are only accepted writes, how many are settled, and the database. The refinement
is `Log == INSTANCE DurableLog WITH settled <- Settled`: a write is settled when
it is no longer in the queue or in the worker's batch, and a batch that is being
written is not settled before its commit or its rollback.

### ChatClient

Every attempt has its own object and a lifetime token. `ops` holds the
operations whose handlers have not run, `timers` the deadline waits, of which an
expired one can no longer be cancelled. After a failed attempt the loop polls
what is ready; only a busy resolver can outlive the object. Leaving a session
waits for the `io_context` to run out of work.

### RoomFeed

As in `ChatServer`, what a thread has still to do is `todo[t]`; a step lies
between two acquisitions of `rooms_mutex_`. `broadcast_room`, for instance, is
*post* (append to `recent_messages`, copy the members), *deliver*, *store*. A
frame is taken by its receivers at once: `SessionWriter` shows that its order is
kept, and nothing in this module depends on the delay. `Receive` is `deliver`
with the client's handler: a user list that does not fit in a frame (one that is
not in the constant `Listable`) is dropped. Texts, topics and room lists have
smaller limits of their own; a line that only the dedicated server's console can
make longer than a frame is not among the inputs. A kick or a ban is `disconnect`
without a leave notice, then its line for the room and the user list once more.
`view` is the application state of each client and of the host; a client compares
the room of a text with its own, `push_message`, which serves the host, cannot. A
message is its number, its room and the creation of that room (`born`), so that a
message of a lost room whose id was given to another one is told apart. `Restart`
applies the offered writes without any set of them (the queue refused some, some
batches were rolled back, the last were not committed yet) and rebuilds the rooms
as `load_persistent_state` does; which sets the queue can really lose is
`StorageQueue`'s part. `overlaps` counts operations that began while the other
thread was busy: `RestartRestores` and `ScreensFollow` are stated for behaviours
without one, because with one they fail (see the observations).

### ClientLogin

`flags` are the atomics of `ChatClient`; a handler of `read_loop` is the sequence
of its assignments (`todo`), and the terminal thread may run between any two of
them. The server is any server that follows the read loop of
`client_session.cpp`; it may kick or be silent, and the connection may be lost.
The terminal thread is `join_client_session`, statement by statement, then the
chat loop, then `finish`, which can join only when no read, no write and no
posted handler is left. A wait ends by its condition or is given up at any time,
which stands for its limit and for the Esc key.

### Directory

Time is a count of `Tick`s; an entry is its age. A request takes at most
`ReachTime` to resolve, to connect and for the handshake (three phases of 10
seconds), then at most `ExchangeTime` to write and to read the response (10, and
15 with a last read of 10). It ends with an answer, or with a failure after which
the directory may have handled it or may handle it later (`late`). The question
about a certificate is not part of that time: only the first request asks it,
`start()` clears `confirm_certificate` before the renewals. The publishers
are those of one user, under one key; more than one may exist, since that of
the previous hosting is destroyed on a detached thread. `missed` counts the
renewals in a row that failed; `unlisted` says that the older publisher's
withdrawal or a restart of the directory has removed the entry since the last
renewal. A lookup reads the response line by line up to `MaxLines` and then
looks for the end mark.

### NetworkTask

Certificates are model values and the trust store is the entry of one address.
The worker runs `verify_peer`: read the store, ask, wait, and read and write the
store again under the lock. Testing the condition and going to sleep are two
steps, as `cancelled` is set without the mutex. A task that was given up goes on
running beside the next one, and renewals, which may not ask, run at any time.

## Runs

| Run | Instance | Distinct states |
|---|---|---|
| `host` | interactive host, 2 sessions with different keys, 3 names (one the host's, one banned), 3 room names, 2 rooms; console creates, moves, unbans; fairness | 137 thousand |
| `admin` | dedicated server, 2 sessions of one user, 1 name, 3 rooms, 2 room names; console creates, kicks, bans, unbans | 2.8 million (symmetry) |
| `ghost` | dedicated server, 2 sessions, 2 names, 2 rooms; console kicks and bans, room owners kick; a violation | |
| `ban` | the same; a violation | |
| `writer` | 2 frames, 4 calls of deliver, 2 of close, 1 of abort, a peer that may stall | 595 thousand |
| `storage` | limit 2, batch 2, 3 calls of enqueue of six kinds of write, 1 flusher and the destructor | 477 thousand |
| `client` | 6 connection attempts | 19 thousand |
| `feed` | 2 clients, a host or a console, 2 rooms, history 2, screen 3, 5 operations of which one may overlap another, 2 restarts among the first 3; the list of all three users does not fit in a frame | 5.1 million (symmetry) |
| `login` | no bounds | 8 thousand |
| `directory` | 2 publications, 1 other host, interval 2, TTL 5, reach time 1, exchange time 1, responses of 2 lines, 1 lookup | 708 thousand |
| `trust` | 2 tasks or renewals, 2 certificates, 1 poll | 332 thousand |
| `lostwake` | the same; a violation | |

Why these bounds suffice: the hazards of the registry need two threads and at
most two sessions that compete for a name or a room, and a second room to move
to; a limit of two rooms, the lobby included, makes the limit reachable after one
creation (`host`), and with a limit of three nothing but the comparison of names
keeps both threads from creating a room of the same name (`admin`). Two sessions
with one key compete for one name in `admin`, where nothing but the second look
at `nickname_taken` keeps them apart; in `host` the keys differ, and two names
are needed for an owner to kick another member. The console's kicks and bans are
left out of `host`, because `EndedLeavesNoTrace` and `ClosedIsForgotten` do not
hold with them: that is what `ghost` shows. The queue of the storage can be full,
and be refilled while a batch is being written, and three accepted writes need
more than one batch; a queue that is longer than a batch is covered by the proofs
only. Four frames allow one in flight, one queued, one given before and one after
the close. Six attempts are a first one, three automatic retries and more. In
`feed` five operations are clients that enter, one that creates a room or moves
or kicks, and others that change what the rooms carry, before and after a
restart; a history of two and a screen of three make both drop lines. It takes
two restarts for a lost room to be seen: the first loses its row, its id is given
to another room, and the second loads what was stored under that id. In
`directory` the unit of time is 35 seconds, with every limit of the code rounded
up and the TTL rounded down (60 to 70, 30 and 35 to 35, 180 to 175), and the
assumption `Interval + ReachTime + 2 * ExchangeTime <= TTL` is met exactly. Two
lines make a response that fits and one that is cut off. In `trust` two tasks are
one that was given up and the next. Deadlock is not checked: a stopped server, a
closed session, an exited worker and the bounds on calls all end a behaviour
properly.

What the runs show:

* `host`: `IdentityHeld` and `IdentityPermanent` hold although two logins with
  different keys may hold a challenge for the same name; `MembershipConsistent`
  and `EndedLeavesNoTrace` hold for every sequence of joins, moves, owner kicks
  and failures on the io thread; `ClosedIsForgotten`: a closed stream leads to a
  forgotten session.
* `admin`: `NicknameUnique`, with two logins of one key that both hold a
  challenge for the name; `RoomNamesUnique`, with two threads that create rooms
  of one name; with kicks and bans of the console, memberships still agree for
  every session the console did not hit, and a ban misses only logins that were
  past their ban check (`BanMissesOnlyOvertaken`).
* `ghost` (finding): the console kicks a session while the io thread moves it to
  another room. `disconnect` has read the old room, the move enters the new one,
  `disconnect` then resets `active_room_id_` and leaves the wrong room. When the
  read fails later, `disconnect` reads 0 and returns: the session stays a member
  for ever, is listed by `/users` and keeps its object alive.
* `ban` (finding): a ban between `is_banned` and `set_nickname` of a login finds
  no session with the name, and the login completes.
* `writer`: `OneWriteAtATime`; `ImplementsChannel`, so a Kick frame or the
  reason of a refusal is never lost to the close that follows it;
  `ServerCloseIsSilent`; `CloseCompletes` unless a write failed or the
  peer has stopped reading.
* `storage`: `ImplementsLog`; `FlushSettles`, `FlushReturns` and
  `DestructorReturns`, also when batches are rolled back; `NoSilentLoss`: every
  refused or rolled-back write leaves an error.
* `client`: `CompletedOnce`, `NoUseAfterDestroy`, `TimeoutIsOfThisPhase`,
  `RetryIsBounded` (three unasked attempts at most) and `AttemptEnds`.
* `feed`: `RoomsAreSeparate` (a client never shows a message of another room,
  however late it comes), `HistoryBelongs` (also after a restart that lost the
  row of a room, whose id was then given away, and a second one that loads it),
  `RestartRestores` and `ScreensFollow` (kicks and bans included; a user list that
  does not fit in a frame leaves the older one on the screens, and all the rest
  still follows).
* `login`: `VerdictIsTrue`, `ReasonIsPublished` (the strings with the reasons are
  not atomic, the order of the flags protects them) and `LoginReturns`.
* `directory`: `RenewedStaysListed`, with every request as slow as its phases
  allow (with one renewal lost it holds only if the TTL covers two renewals,
  `Lasts`, which the limits of the code do not give); `ListIsWhole`;
  `WithdrawnDisappears`, also when the publication was cancelled and its
  registration handled late.
* `trust`: `NoUnreviewedRequest`, `TrustIsReviewed` and `TaskReturns`.
* `lostwake` (finding): `run_network_task` sets `cancelled` and notifies without
  the mutex. A worker that has tested the condition and is not yet asleep misses
  the notification and stays, with its connection.

Observations that are no findings, since no text of the repository is
contradicted outright:

* Two overlapping operations can leave a topic in the database that differs from
  the one in memory, a user list on the screens that is older than the room, a
  stored history in another order than the members saw, and a message queued
  before the row of its room, which the foreign key then refuses with its batch.
  The host's screen can show a message of the room it has just left.
* A connection that is lost during the password prompt is reported as a wrong
  password.
* A directory with 1000 entries or more cannot be listed: the response is cut
  off and rejected.
* One lost renewal can hide a running server: an entry that was handled at once and
  answered after 35 seconds, a renewal that fails after 60 + 65 and one that is
  handled after another 60 + 65 are 285 seconds, more than 180.
* A room with about a hundred long nicknames has a user list that no frame can
  carry: `deliver` drops it, and its clients keep the last list that fitted.
* A peer that stops reading holds a stream that the server has closed: there is no
  deadline for a write.
* Hosting again at once can make the new entry disappear until its next renewal,
  because the old publisher's UNREGISTER has the same key.
* The lock of the trust store is one of the process; two processes can still
  overwrite each other's decisions.

### Fairness

* `ChatServer`: weak fairness of the io thread's pending steps; strong fairness,
  per session, of closing a stream that is to be closed and of the failing read
  on a closed stream. Between the handlers of other sessions these are enabled
  again and again, the `io_context` serves ready handlers in order, and
  `buffer_` is bounded, so that the frames left in it run out. Nothing is
  assumed of clients or of the console.
* `SessionWriter`: the executor runs posted handlers; a write completes, with or
  without error, as long as the peer has not stopped reading, and in any case, with
  an error, on a stream that was shut down; a read on such a stream fails.
* `StorageQueue`: threads that can run do. Spurious wake-ups are not relied on.
* `ChatClient`: time passes, and the loop polls the `io_context`.
* `ClientLogin`: both threads run and every wait ends by its limit. Nothing is
  assumed of the server, of the network or of how long the user chats.
* `Directory`: time passes; a request ends, with or without success, by its own
  deadlines; a publisher thread renews and withdraws when it is due; a request
  that is under way is handled at some time.
* `NetworkTask`: the terminal thread polls and the user answers; nothing is
  assumed of the worker (`TaskReturns`). `WorkersSpec`, for `WorkerEnds`, adds
  that workers run, and still the worker does not end.

## Proofs

All theorems hold for every value of the constants under the assumptions named in
the modules: any number of sessions, names, keys, rooms, calls, attempts, tasks,
publishers, operations and restarts, and any set of console commands.
`ConstantAssumption`, `WriterAssumption`, `StorageAssumption`, `ClientAssumption`,
`TaskAssumption` and `FeedAssumption` say that bounds are natural numbers (limits
of queues, of rooms and of history at least 1) and that the values for "nobody"
and "nothing" differ from the real ones; `AbsentAssumption` says that `Absent` is
no room and no row. `DirectoryAssumption` relates the limits of time,
`Interval + ReachTime + 2 * ExchangeTime <= TTL`: those of the code are 60, 30, 35
and 180 seconds and satisfy it. It assumes nothing of the network, since
`send_request` enforces the limits of its phases itself.

* `ChatServerProofs`, types: `TypeCorrect`. `TypeOK` is not inductive. `BaseInv`
  adds `QueueOK` (after a thread's current step at most a `close()` is pending,
  and only on the io thread), `StepsOK` (which thread may be at which step, and
  that a step of a proof concerns a session that is ready, has no name and has
  signed with the pending key), and `RoomsInOrder` (exactly the ids below
  `nextRoom` are rooms, so that the room limit bounds `nextRoom`). The lemmas
  `FinishStep` and `NewStep` say once what taking a step does to `todo`; each
  action's proof cites them.
* `ChatServerProofs`, names: `NicknamesAreUnique`,
  `NicknamesAreHeldByKey`, `BindingsArePermanent`, `BansMissOnlyOvertakenLogins`.
  `LoginInv` adds that a session has no name before it is accepted and that,
  while the io thread is at *proofBind*, the pending name is still free: between
  `nickname_taken` and `set_nickname` only the console runs, and the console
  gives nobody a name. `BanInv` adds that a login past its ban check for a banned
  name is in `slipped`, and that a listed session with a banned name either
  slipped or is the one the console is still going to find or to erase.
* `ChatServerProofs`, rooms: `MembershipAgrees`, `RoomNamesAreUnique`.
  `RoomInv` says where a session outside `hit` is at home: in `active_room_id_`,
  or in the room a pending *evict* is about to take it out of; that a pending
  *move* knows the current room; and that the console's pending disconnects
  concern sessions in `hit` only. The finding above is where this fails for the
  others. `EndedSessionsAreGone`: with a console that neither kicks nor bans,
  `EndedLeavesNoTrace`; with any console the same for the sessions it did not
  disconnect. `EndedInv` says that an ended session is listed, or has an active
  room, only while the io thread has still to take the step of `disconnect` that
  ends it, and that only a session whose read loop goes on is moved; membership
  then follows from `RoomInv`.
* `SessionWriterProofs`: `WriterTypeCorrect`, `WriterIsExclusive`. The invariant
  ties the outstanding write to the queue: a non-empty queue has exactly one
  write outstanding or completed, unless one has failed, and then there is none
  ever again. `ServerClosesSilently`: `SilentInv` follows a requested close
  through the executor's queue to `close_after_write_`. `WriterIsOrderedChannel`
  is the refinement of `OrderedChannel`. `ChannelInv` says that what was given is
  the wire, then `write_queue_`, then the frames still posted (`QueueInv`), where
  the frames still posted are counted by a function with the recurrence `IsCount`,
  and that a posted close knows how much was given before it (`PostedInv`).
* `StorageQueueProofs`: `StorageTypeCorrect`, `FlushIsComplete`, `LossIsReported`
  and the refinement `QueueIsDurableLog`. `InOrder` says that the accepted writes
  are the settled ones, then the worker's batch, then the queue; `WorkerInv` which
  batch belongs to which place of the worker; `MarksAreReal` that a flush waits
  for writes that exist. `TransactionInv` says that `tx` is the database after the
  part of the batch executed so far. `RunIsUnique`, by induction, identifies that
  with the block `DurableLog` applies at once.
* `ChatClientProofs`: `ClientTypeCorrect`, `NoHandlerOutlivesClient`,
  `AttemptsCompleteOnce`, `RetriesAreBounded`, `TimeoutsAreOfTheirPhase`.
  `LoopInv` says which object exists where the reconnect loop is, whether it is
  connecting, and that `token` is set exactly while it is; `OpsInv` that an
  attempt in progress has only the operation of its phase under way, as many
  deadlines armed as it had phases, and that a read belongs to the open session;
  `RetryInv` that `retries` counts the attempts nobody asked for.
* `NetworkTaskProofs`: `RequestsAreVouched`, `TrustChangesAreReviewed`.
  `AttendsLive` says that the terminal thread attends only a task that was
  started and not given up; `AskedOnce` that the question of such a task is in
  one place at a time (left for the terminal, on the screen, or answered and not
  yet read); `AnswersAreReal` that a yes, and the saving after it, are the
  user's; `PassedIsPast` that a task that passed `verify_peer` is past it. A lost
  wake-up (the finding) costs a worker, never the review.
* `DirectoryProofs`: `PublishedStaysListed`. `AgeInv` bounds the age of the entry
  by the place of the publisher in its cycle (`Oldest`): the rest of the request
  that was handled last, plus an interval and a request for each renewal that
  failed since; `OrderInv` says that a publisher is started only after the one
  before it is being destroyed, `CountersInv` bounds the clocks. Without a failed
  renewal the bound never exceeds `Interval + ReachTime + 2 * ExchangeTime`,
  hence the assumption; with one it never exceeds the sum in `Lasts`.
  `ListsAreWhole`: `ResponseInv` says that what was read and what is left are the
  response.
* `RoomFeedProofs`: `RoomsShowTheirOwn`. `FeedInv` says that every step of a
  thread, every queued write and every row of the database that speaks of a room
  carries its id and its creation (`GoodSteps`, `GoodWrites`, `Fits`). A restart
  may lose any set of writes: `WrittenFits` shows, by induction over the queue,
  that the database then still fits the rooms, and `Loaded` of such a database is
  a set of rooms that show their own messages only. `ScreensShowOneRoom`: for
  clients `ViewsInv` is enough, as `push_message` compares rooms. For the host
  `HostInv` says, while no operation has overlapped another, that one thread is
  busy, that after a move of the host its join frame comes before any text of the
  new room, and that no text of the old one is pending. `RestartBringsRoomsBack`:
  `RestoreInv` says, while nothing has overlapped, that at most one thread is busy
  and that the queued writes, together with the one write that thread is about to
  queue, load to exactly the rooms in memory (`Settles`); `KeepAppend`,
  `PostLoaded`, `TopicLoaded` and `CreateLoaded` say what one write changes of the
  loaded rooms. `ScreensFollowRooms`: `FollowInv` looks ahead. It says, while
  nothing has overlapped, that the screens will be right when the one busy thread
  has taken all the steps in its queue (`Drained`), or that the queue ends with a
  move that will make them right. A step of the thread leaves that unchanged, and
  each operation is shown as a whole to lead from right screens to right screens
  (a leave and a kick, which broadcast in different orders, by `FollowLeave`); a
  client's user list is right under the condition that the list of its room fits in
  a frame;
  the lemmas on `Keep`, `Select` and `Ends` say what one more line does to the
  lines a screen has room for.
* `ClientLoginProofs`: `LoginTellsTheTruth`, `ReasonsArePublished`. `LoginInv` has
  three ideas. At most one request is on its way, wherever it is (the handler about
  to send it, the posted handlers, the queue, the wire), and which one it is tells
  how far the server has let the client (`RequestInv`). A flag and the step of the
  running handler that is about to set it are one fact (`On`), which a step does
  not change and only the arrival of a frame does. And the flag the terminal thread
  waits for is set after those it reads next (`Ordered`, `OutcomeInv`), so that what
  it reads is complete. The module has no constants, and the run visits every
  state; the proof shows why.

The library's induction theorems take an operator as a parameter and cannot be
used; induction over the natural numbers is done where it is needed on a set of
counterexamples and its least element (`SetInduction`).

The inductive invariants were checked with TLC on the instances of the runs
before they were proved.

Only model-checked: liveness (`ClosedIsForgotten`, `CloseCompletes`,
`FlushReturns`, `DestructorReturns`, `AttemptEnds`, `LoginReturns`,
`WithdrawnDisappears`, `TaskReturns`), which is beyond TLAPS here, and the
properties of the runs that expect a violation.

## Not modelled

* The codec, invites and validation of names: text without state. Names in the
  model are valid and, for rooms, normalised; frames are decoded. Of the encoder's
  refusals only that of a long user list is modelled; a line of the dedicated
  server's console that is longer than a frame or has control characters is not
  among the inputs.
* Exceptions. `create_directories` in `write_trust_store` (`tls.cpp:69`) may throw
  out of `verify_peer`, and then the handler of the handshake ends without
  `finish_connect`; the menu's handler reports a failed set-up, and the client, with
  its armed deadline, stays until the next attempt replaces it.
* The rate limit of a session, and answers that only report an error.
* The import of legacy files at the first start, and pages of history older than
  the last one, which the program never asks for.
* Option parsing and the shutdown of the dedicated server: `stop()` posts its
  handler and `io.stop()` follows, so that the handler may not run; the storage's
  destructor, which is modelled, flushes.
* The hand-over of the UPnP mapper; the rest of it calls a router library.
* Drawing, editing, `/clear`, preferences and the log file: input and output of
  one thread.
* OpenSSL, libsodium, SQLite, Boost.Asio and the UPnP library are external; what
  the code relies on (handlers of one `io_context` thread do not overlap, a
  transaction is atomic, an expired timer cannot be cancelled) is in the models.

## Plan

Done: `ChatServer` with its proofs, `SessionWriter` over `OrderedChannel`,
`StorageQueue` over `DurableLog`, `ChatClient`, `RoomFeed` with the restart,
`ClientLogin`, `Directory`, `NetworkTask`.

Proved: every safety property of the passing runs, and both refinements. What is
left is liveness, which stays with TLC.
