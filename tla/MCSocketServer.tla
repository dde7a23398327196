--------------------------- MODULE MCSocketServer ---------------------------
(* The socket server on two slots, for TLC. *)
EXTENDS SocketServer
=============================================================================
