--------------------------------- MODULE Mq ---------------------------------
(***************************************************************************)
(* The growing ring that carries a cell's messages from its channel and    *)
(* its sockets to its entities (common/jetnet_mq.c), as operators on a     *)
(* ring.  head and tail are equal only when it is empty: a push that makes *)
(* them equal doubles it.                                                  *)
(***************************************************************************)
EXTENDS Naturals, Sequences

\* What a slot holds that was never written.
None == [from |-> "none"]

\* jetnet_mq_init, with JETNET_QUEUE_DEFAULT_SIZE slots.
NewRing(size) ==
  [cap |-> size, head |-> 0, tail |-> 0, queue |-> [i \in 0 .. size - 1 |-> None]]

\* jetnet_mq_size.
RingSize(r) == IF r.head <= r.tail THEN r.tail - r.head
                                   ELSE r.tail + r.cap - r.head

\* (head + i) % cap, for an i below cap.
Slot(r, i) == IF r.head + i < r.cap THEN r.head + i ELSE r.head + i - r.cap

\* Mutant of Expand: the array is copied as it lies.
Expand_InPlace(r) ==
  [cap |-> 2 * r.cap, head |-> 0, tail |-> r.cap,
   queue |-> [i \in 0 .. 2 * r.cap - 1 |-> IF i < r.cap THEN r.queue[i] ELSE None]]

\* jetnet_mq_expand: the messages go to the front of an array twice as large.
Expand(r) ==
  [cap |-> 2 * r.cap, head |-> 0, tail |-> r.cap,
   queue |-> [i \in 0 .. 2 * r.cap - 1 |->
                IF i < r.cap THEN r.queue[Slot(r, i)] ELSE None]]

\* Mutant of Behind: one slot too far.
Behind_PastEnd(r, i) == IF i + 1 > r.cap THEN 0 ELSE i + 1

\* The slot behind slot i.
Behind(r, i) == IF i + 1 >= r.cap THEN 0 ELSE i + 1

\* Mutant of Push: the ring is not doubled, and full looks like empty.
Push_NoExpand(r, msg) ==
  IF r.cap = 0 THEN r ELSE [r EXCEPT !.queue[r.tail] = msg, !.tail = Behind(r, r.tail)]

\* jetnet_mq_push; a ring that was released takes nothing.
Push(r, msg) ==
  LET full == [r EXCEPT !.queue[r.tail] = msg, !.tail = Behind(r, r.tail)]
  IN IF r.cap = 0 THEN r
     ELSE IF full.head = full.tail THEN Expand(full) ELSE full

\* jetnet_mq_pop, of a ring that is not empty: what it returns, and leaves.  (The
\* code leaves the popped message in its slot, where nothing reads it again.)
Popped(r) == r.queue[r.head]
Pop(r) == [r EXCEPT !.queue[r.head] = None, !.head = Behind(r, r.head)]

\* The queue that a ring stands for.
Items(r) == [i \in 1 .. RingSize(r) |-> r.queue[Slot(r, i - 1)]]
=============================================================================
