--------------------------- MODULE MCNetworkTask ---------------------------
(***************************************************************************)
(* A small instance of NetworkTask for TLC.                                *)
(***************************************************************************)
EXTENDS NetworkTask
=============================================================================
