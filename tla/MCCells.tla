------------------------------ MODULE MCCells -------------------------------
(* The hub cell and one more, on rings of two slots that soon grow.        *)
EXTENDS Cells
=============================================================================
