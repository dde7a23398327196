------------------------------ MODULE Channel ------------------------------
(***************************************************************************)
(* What the shared memory channel of a cell promises to the cells that put *)
(* messages in it and to the cell that owns it (the comments of            *)
(* jetnet_cns.h and jetnet_kfifo.h), without the ring, its counters and    *)
(* its lock: a bounded FIFO of packages with atomic operations.            *)
(***************************************************************************)
EXTENDS Naturals, Sequences

CONSTANTS
  Writer,     \* the cells that put packages
  Body,       \* the packages
  Overhead,   \* what a package occupies beside its bytes
  Capacity    \* the bytes the channel holds

VARIABLES
  q,          \* the packages in the channel, oldest first
  said,       \* said[w]: what the last put of w returned, and of which package
  heard       \* what the last get returned: a package, or <<>> for none

cvars == <<q, said, heard>>

\* Ends(s)[i]: what the first i packages of s occupy.
Ends(s) ==
  LET e[i \in 0..Len(s)] ==
        IF i = 0 THEN 0 ELSE e[i - 1] + Overhead + Len(s[i])
  IN e
Used(s) == Ends(s)[Len(s)]

CInit ==
  /\ q = <<>>
  /\ said = [w \in Writer |-> [answer |-> "none", of |-> <<>>]]
  /\ heard = <<>>

\* "0 succeed"
PutOk(w) ==
  /\ \E b \in Body : /\ Used(Append(q, b)) <= Capacity
                     /\ q' = Append(q, b)
                     /\ said' = [said EXCEPT ![w] = [answer |-> "ok", of |-> b]]
  /\ UNCHANGED heard

\* "-1 hasn't empty space for put", for that package, and only then.
PutFull(w) ==
  /\ \E b \in Body : /\ Used(Append(q, b)) > Capacity
                     /\ said' = [said EXCEPT ![w] = [answer |-> "full", of |-> b]]
  /\ UNCHANGED <<q, heard>>

\* The oldest package, whole, once.
GetOk ==
  /\ q # <<>>
  /\ heard' = Head(q)
  /\ q' = Tail(q)
  /\ UNCHANGED said

\* "-1 hasn't completed pkg for get", and only then.
GetNone ==
  /\ q = <<>>
  /\ heard' = <<>>
  /\ UNCHANGED <<q, said>>

CNext ==
  \/ \E w \in Writer : PutOk(w) \/ PutFull(w)
  \/ GetOk
  \/ GetNone

SafeSpec == CInit /\ [][CNext]_cvars
=============================================================================
