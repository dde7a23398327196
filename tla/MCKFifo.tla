------------------------------ MODULE MCKFifo ------------------------------
EXTENDS KFifo

\* Packages of 7 and 9 bytes with their header, in a ring of 16: two small ones
\* leave room for none, one of each fills it to the byte, and two large ones do
\* not fit.
MCBody == {<<11, 12, 13>>, <<31, 32, 33, 34, 35>>}
=============================================================================
