----------------------------- MODULE StoreSchema ----------------------------
(***************************************************************************)
(* What the statements of execute_write (storage.cpp) do to the database:  *)
(* rooms with their topic, messages with their foreign key to a room,      *)
(* identities and bans by nickname.                                        *)
(***************************************************************************)
EXTENDS Naturals, Sequences

CONSTANT Absent      \* no row

\* One Write of the queue; the fields a kind does not use are Absent.
RoomWrite(id, row)       == [kind |-> "room", id |-> id, val |-> row]
TopicWrite(id, topic)    == [kind |-> "topic", id |-> id, val |-> topic]
MessageWrite(id, m)      == [kind |-> "message", id |-> id, val |-> m]
IdentityWrite(n, k)      == [kind |-> "identity", id |-> n, val |-> k]
BanWrite(n)              == [kind |-> "ban", id |-> n, val |-> Absent]
BanRemove(n)             == [kind |-> "unban", id |-> n, val |-> Absent]

\* The tables that migrate creates; the lobby's row is added by who uses it.
EmptyDb(ids, nicks) ==
    [rooms    |-> [i \in ids |-> Absent],      \* rows with a name and a topic
     messages |-> [i \in ids |-> <<>>],        \* by room, in order of sent_at
     keys     |-> [n \in nicks |-> Absent],    \* identities
     bans     |-> {}]

\* Mutant: the pragma is not set, and rows may refer to a room that is not there.
NoForeignKeys(db, w) ==
    /\ w.kind = "room"
    /\ \E i \in DOMAIN db.rooms \ {w.id} :
          db.rooms[i] # Absent /\ db.rooms[i].name = w.val.name

\* PRAGMA foreign_keys=ON, which OR IGNORE does not cover, and UNIQUE on the
\* names of rooms, which ON CONFLICT(id) does not.
Refuses(db, w) ==
    \/ w.kind = "message" /\ db.rooms[w.id] = Absent
    \/ /\ w.kind = "room"
       /\ \E i \in DOMAIN db.rooms \ {w.id} :
             db.rooms[i] # Absent /\ db.rooms[i].name = w.val.name

Apply(db, w) ==
    CASE w.kind = "room"     -> [db EXCEPT !.rooms[w.id] = w.val]
      [] w.kind = "topic"    -> IF db.rooms[w.id] = Absent THEN db
                                ELSE [db EXCEPT !.rooms[w.id].topic = w.val]
      [] w.kind = "message"  -> [db EXCEPT !.messages[w.id] = Append(@, w.val)]
      [] w.kind = "identity" -> [db EXCEPT !.keys[w.id] = w.val]
      [] w.kind = "ban"      -> [db EXCEPT !.bans = @ \cup {w.id}]
      [] w.kind = "unban"    -> [db EXCEPT !.bans = @ \ {w.id}]
=============================================================================
