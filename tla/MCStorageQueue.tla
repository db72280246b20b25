--------------------------- MODULE MCStorageQueue ---------------------------
(***************************************************************************)
(* A small instance of StorageQueue for TLC: one write of every kind, so   *)
(* that a batch can be refused for a missing room.                         *)
(***************************************************************************)
EXTENDS StorageQueue

SomeWrites ==
    {RoomWrite("r", [name |-> "x", topic |-> "t"]), TopicWrite("r", "u"),
     MessageWrite("r", "m"),
     IdentityWrite("n", "k"), BanWrite("n"), BanRemove("n")}
=============================================================================
