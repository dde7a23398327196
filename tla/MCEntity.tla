------------------------------ MODULE MCEntity ------------------------------
EXTENDS Entity
=============================================================================
