------------------------------ MODULE MCIoBuf -------------------------------
(* Streams of a few bytes, which reads and io vectors cut everywhere.      *)
EXTENDS IoBuf
=============================================================================
