------------------------------ MODULE Mailbox ------------------------------
(***************************************************************************)
(* What the entity system promises to the modules of a cell, without the   *)
(* active list, the loop and its phases, the matching of acks and the      *)
(* freeing of messages: every entity has a mailbox, handles it in order    *)
(* and one message at a time, handles nothing while it is blocked on a     *)
(* wait, and is told the outcome of each wait at most once.                *)
(***************************************************************************)
EXTENDS Naturals, Sequences

CONSTANTS
  Entity,     \* the entities
  MaxMsg,     \* messages are numbered from 1 to MaxMsg
  MaxWait     \* waits are numbered from 1 to MaxWait

VARIABLES
  alive,      \* the entities that exist
  box,        \* box[e]: what e has still to handle, oldest first
  block,      \* block[e]: the wait e is blocked on, or 0
  pending,    \* the waits without an outcome, with their entity
  opened,     \* how many waits were opened
  told        \* told[w]: the outcomes given to the callback of wait w

mvars == <<alive, box, block, pending, opened, told>>

Outcome == {"ack", "envelope", "timeout"}

MInit ==
  /\ alive = Entity
  /\ box = [e \in Entity |-> <<>>]
  /\ block = [e \in Entity |-> 0]
  /\ pending = {}
  /\ opened = 0
  /\ told = [w \in 1..MaxWait |-> <<>>]

\* A message for e is accepted.
Deposit(e) ==
  /\ e \in alive
  /\ \E m \in 1..MaxMsg :
       box' = [box EXCEPT ![e] = Append(@, [id |-> m, wait |-> 0])]
  /\ UNCHANGED <<alive, block, pending, opened, told>>

\* An entity that is not blocked handles its oldest message; a put-off
\* outcome is told to the callback of its wait.
Handle(e) ==
  /\ e \in alive
  /\ block[e] = 0
  /\ box[e] # <<>>
  /\ box' = [box EXCEPT ![e] = Tail(@)]
  /\ LET w == Head(box[e]).wait
     IN IF w = 0 THEN told' = told
        ELSE /\ told[w] = <<>>
             /\ \E o \in {"envelope", "timeout"} :
                  told' = [told EXCEPT ![w] = <<o>>]
  /\ UNCHANGED <<alive, block, pending, opened>>

\* A pending wait gets its outcome at once, unless its entity is blocked on
\* another wait.  The entity is no longer blocked.
Resolve(e, w) ==
  /\ [id |-> w, owner |-> e] \in pending
  /\ block[e] \in {0, w}
  /\ told[w] = <<>>
  /\ \E o \in {"ack", "timeout"} : told' = [told EXCEPT ![w] = <<o>>]
  /\ pending' = pending \ {[id |-> w, owner |-> e]}
  /\ block' = [block EXCEPT ![e] = 0]
  /\ UNCHANGED <<alive, box, opened>>

\* Otherwise the outcome is put off until e is released.
PutOff(e, w) ==
  /\ [id |-> w, owner |-> e] \in pending
  /\ block[e] \notin {0, w}
  /\ pending' = pending \ {[id |-> w, owner |-> e]}
  /\ \E m \in 0..MaxMsg :
       box' = [box EXCEPT ![e] = Append(@, [id |-> m, wait |-> w])]
  /\ UNCHANGED <<alive, block, opened, told>>

\* A new wait of e, which blocks e or not.
Open(e) ==
  /\ e \in alive
  /\ opened < MaxWait
  /\ opened' = opened + 1
  /\ pending' = pending \cup {[id |-> opened + 1, owner |-> e]}
  /\ \/ block' = [block EXCEPT ![e] = opened + 1]
     \/ block' = block
  /\ UNCHANGED <<alive, box, told>>

Create(e) ==
  /\ e \notin alive
  /\ alive' = alive \cup {e}
  /\ UNCHANGED <<box, block, pending, opened, told>>

\* Messages and waits of a destroyed entity disappear with it.
Destroy(e) ==
  /\ e \in alive
  /\ alive' = alive \ {e}
  /\ box' = [box EXCEPT ![e] = <<>>]
  /\ block' = [block EXCEPT ![e] = 0]
  /\ pending' = {p \in pending : p.owner # e}
  /\ UNCHANGED <<opened, told>>

MNext ==
  \E e \in Entity :
    \/ Deposit(e)
    \/ Handle(e)
    \/ Open(e)
    \/ Create(e)
    \/ Destroy(e)
    \/ \E w \in 1..MaxWait : Resolve(e, w) \/ PutOff(e, w)

SafeSpec == MInit /\ [][MNext]_mvars

\* No entity that may handle a message is kept waiting for ever.
FairSpec == SafeSpec /\ \A e \in Entity : WF_mvars(Handle(e))
=============================================================================
