------------------------------ MODULE MCTimer ------------------------------
(* Four items are the least heap whose pop compares both children.         *)
EXTENDS Timer, TLC

T(d, p, r) == [delay |-> d, period |-> p, repeat |-> r]
TimingValue == {T(0, 1, 0), T(0, 2, 2), T(1, 1, 1)}

Symmetry == Permutations(Item)
=============================================================================
