---------------------------- MODULE MCNetService ----------------------------
(***************************************************************************)
(* NetService for TLC.                                                     *)
(***************************************************************************)
EXTENDS NetService
=============================================================================
