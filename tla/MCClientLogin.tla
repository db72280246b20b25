--------------------------- MODULE MCClientLogin ---------------------------
(***************************************************************************)
(* A small instance of ClientLogin for TLC.                                *)
(***************************************************************************)
EXTENDS ClientLogin
=============================================================================
