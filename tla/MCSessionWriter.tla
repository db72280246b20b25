--------------------------- MODULE MCSessionWriter --------------------------
(***************************************************************************)
(* A small instance of SessionWriter for TLC.                              *)
(***************************************************************************)
EXTENDS SessionWriter
=============================================================================
