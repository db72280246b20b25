----------------------------- MODULE MCRoomFeed -----------------------------
(***************************************************************************)
(* A small instance of RoomFeed for TLC.                                   *)
(***************************************************************************)
EXTENDS RoomFeed, TLC

CONSTANTS c1, c2, h

ClientSymmetry == Permutations(Clients)
=============================================================================
