----------------------------- MODULE CellsProofs -----------------------------
(***************************************************************************)
(* Proofs about modules Mq and Cells.  The ring of common/jetnet_mq.c is a *)
(* queue, wherever its head and tail are and however often it doubles; so  *)
(* a message goes from a channel through a ring to an entity as from queue *)
(* to queue.  The invariant Inv says what is in these queues: messages of  *)
(* the cell's present run, of each sender in the order of posting, and in  *)
(* the hub's ring, besides, what came from other machines, each later than *)
(* all that the hub posted on.  Locks says what cells that died in a put   *)
(* or a get leave behind.                                                  *)
(***************************************************************************)
EXTENDS Cells, Integers, SequenceTheorems, WellFoundedInduction, TLAPS

\* The rings of n slots; a ring that was released has none.
Ring(S, n) ==
  [cap : {n}, head : 0 .. n - 1, tail : 0 .. n - 1, queue : [0 .. n - 1 -> S]]

\* A slot is a slot, and the one behind it is the next.
LEMMA Slots ==
  ASSUME NEW S, NEW n \in Nat \ {0}, NEW r \in Ring(S, n)
  PROVE  /\ \A i \in 0 .. n - 1 : Slot(r, i) \in 0 .. n - 1
         /\ \A i, j \in 0 .. n - 1 : Slot(r, i) = Slot(r, j) => i = j
         /\ \A i \in 0 .. n - 1 : Behind(r, i) \in 0 .. n - 1
         /\ RingSize(r) \in 0 .. n - 1
         /\ Slot(r, RingSize(r)) = r.tail
<1>1. r.cap = n /\ r.head \in 0 .. n - 1 /\ r.tail \in 0 .. n - 1
  BY DEF Ring
<1>2. /\ \A i \in 0 .. n - 1 : Slot(r, i) \in 0 .. n - 1
      /\ \A i, j \in 0 .. n - 1 : Slot(r, i) = Slot(r, j) => i = j
  BY <1>1 DEF Slot
<1>3. \A i \in 0 .. n - 1 : Behind(r, i) \in 0 .. n - 1
  BY <1>1 DEF Behind
<1>4. RingSize(r) \in 0 .. n - 1 /\ Slot(r, RingSize(r)) = r.tail
  BY <1>1 DEF Slot, RingSize
<1>5. QED
  BY <1>2, <1>3, <1>4

\* The queue of a ring is a sequence.
LEMMA ItemsSeq ==
  ASSUME NEW S, NEW n \in Nat \ {0}, NEW r \in Ring(S, n)
  PROVE  /\ Items(r) \in Seq(S)
         /\ Len(Items(r)) = RingSize(r)
         /\ \A i \in 1 .. RingSize(r) : Items(r)[i] = r.queue[Slot(r, i - 1)]
<1>1. RingSize(r) \in Nat /\ r.queue \in [0 .. n - 1 -> S]
  <2>1. RingSize(r) \in 0 .. n - 1
    BY Slots
  <2>2. QED
    BY <2>1 DEF Ring
<1>2. \A i \in 1 .. RingSize(r) : r.queue[Slot(r, i - 1)] \in S
  <2>1. \A i \in 1 .. RingSize(r) : i - 1 \in 0 .. n - 1
    BY Slots
  <2>2. QED
    BY <1>1, <2>1, Slots
<1>3. Items(r) \in [1 .. RingSize(r) -> S]
  BY <1>2 DEF Items
<1>4. Items(r) \in Seq(S) /\ Len(Items(r)) = RingSize(r)
  BY <1>1, <1>3
<1>5. QED
  BY <1>4 DEF Items

\* The first n messages of ring e are those in the first n slots of ring r.
Holds(e, r, n) == \A i \in 1 .. n : Items(e)[i] = r.queue[Slot(r, i - 1)]

\* jetnet_mq_expand keeps the queue, and needs the ring to be full.
LEMMA Expanded ==
  ASSUME NEW S, None \in S, NEW n \in Nat \ {0}, NEW r \in Ring(S, n)
  PROVE  /\ Expand(r) \in Ring(S, 2 * n)
         /\ RingSize(Expand(r)) = n
         /\ Holds(Expand(r), r, n)
<1> DEFINE e == Expand(r)
<1>1. r.cap = n /\ r.queue \in [0 .. n - 1 -> S]
  BY DEF Ring
<1>2. /\ e.cap = 2 * n /\ e.head = 0 /\ e.tail = n
      /\ e.queue = [i \in 0 .. 2 * n - 1 |->
                      IF i < n THEN r.queue[Slot(r, i)] ELSE None]
  BY <1>1 DEF Expand
<1>3. e.queue \in [0 .. 2 * n - 1 -> S]
  <2>1. \A i \in 0 .. 2 * n - 1 : i < n => r.queue[Slot(r, i)] \in S
    <3>1. \A i \in 0 .. 2 * n - 1 : i < n => i \in 0 .. n - 1
      OBVIOUS
    <3>2. \A i \in 0 .. n - 1 : Slot(r, i) \in 0 .. n - 1
      BY Slots
    <3>3. QED
      BY <1>1, <3>1, <3>2
  <2>2. QED
    BY <1>2, <2>1
<1>4. e \in Ring(S, 2 * n)
  BY <1>1, <1>2, <1>3 DEF Expand, Ring
<1> HIDE DEF e
<1>5. RingSize(e) = n
  BY <1>2 DEF RingSize
<1>6. \A i \in 0 .. n - 1 : Slot(e, i) = i
  BY <1>2 DEF Slot
<1>7. \A i \in 1 .. n : Items(e)[i] = r.queue[Slot(r, i - 1)]
  <2> TAKE i \in 1 .. n
  <2>1. Items(e)[i] = e.queue[Slot(e, i - 1)]
    BY <1>5 DEF Items
  <2>2. i - 1 \in 0 .. n - 1 /\ i - 1 \in 0 .. 2 * n - 1 /\ i - 1 < n
    OBVIOUS
  <2>3. QED
    BY <1>2, <1>6, <2>1, <2>2
<1>8. QED
  BY <1>4, <1>5, <1>7 DEF e, Holds

\* The sequence t is s with x behind it.
Follows(t, s, x) ==
  /\ Len(t) = Len(s) + 1
  /\ \A i \in 1 .. Len(s) : t[i] = s[i]
  /\ t[Len(s) + 1] = x

\* A push leaves what is queued as it is, also when the ring doubles, and puts
\* the message behind it.
LEMMA PushHolds ==
  ASSUME NEW S, None \in S, NEW n \in Nat \ {0}, NEW r \in Ring(S, n), NEW msg \in S
  PROVE  /\ \E k \in {n, 2 * n} : Push(r, msg) \in Ring(S, k)
         /\ Items(Push(r, msg)) \in Seq(S)
         /\ Follows(Items(Push(r, msg)), Items(r), msg)
<1> DEFINE size == RingSize(r)
           full == [r EXCEPT !.queue[r.tail] = msg, !.tail = Behind(r, r.tail)]
           p == Push(r, msg)
<1>1. /\ r.cap = n /\ r.head \in 0 .. n - 1 /\ r.tail \in 0 .. n - 1
      /\ r.queue \in [0 .. n - 1 -> S]
  BY DEF Ring
<1>2. p = IF full.head = full.tail THEN Expand(full) ELSE full
  BY <1>1 DEF Push
<1>3. full \in Ring(S, n)
  BY <1>1, Slots DEF Ring
<1>4. /\ full.cap = n /\ full.head = r.head /\ full.tail = Behind(r, r.tail)
      /\ full.queue = [r.queue EXCEPT ![r.tail] = msg]
  BY <1>1 DEF Ring
<1> HIDE DEF full, p
<1>5. size \in 0 .. n - 1 /\ Slot(r, size) = r.tail
  BY Slots
<1>6. \A i \in 0 .. n - 1 : Slot(full, i) = Slot(r, i)
  BY <1>1, <1>4 DEF Slot
\* The slots of the queue, and the new one.
<1>7. \A i \in 1 .. size + 1 :
        full.queue[Slot(full, i - 1)] = IF i <= size THEN Items(r)[i] ELSE msg
  <2> TAKE i \in 1 .. size + 1
  <2>1. i - 1 \in 0 .. n - 1 /\ Slot(full, i - 1) = Slot(r, i - 1)
    BY <1>5, <1>6
  <2>2. CASE i <= size
    <3>1. Slot(r, i - 1) # r.tail /\ Slot(r, i - 1) \in 0 .. n - 1
      BY <1>5, <2>1, <2>2, Slots
    <3>2. full.queue[Slot(r, i - 1)] = r.queue[Slot(r, i - 1)]
      BY <1>1, <1>4, <3>1
    <3>3. Items(r)[i] = r.queue[Slot(r, i - 1)]
      BY <1>5, <2>2, ItemsSeq
    <3>4. QED
      BY <2>1, <2>2, <3>2, <3>3
  <2>3. CASE ~(i <= size)
    <3>1. i - 1 = size
      BY <1>5, <2>3
    <3>2. QED
      BY <1>1, <1>4, <1>5, <2>1, <2>3, <3>1
  <2>4. QED
    BY <2>2, <2>3
\* Both rings hold one more.
<1>8. /\ \E k \in {n, 2 * n} : p \in Ring(S, k)
      /\ Items(p) \in Seq(S) /\ Len(Items(p)) = size + 1
      /\ \A i \in 1 .. size + 1 : Items(p)[i] = full.queue[Slot(full, i - 1)]
  <2>1. CASE full.head = full.tail
    <3>1. p = Expand(full)
      BY <1>2, <2>1
    <3>2. size + 1 = n
      BY <1>1, <1>4, <2>1 DEF RingSize, Behind
    <3>3. /\ p \in Ring(S, 2 * n) /\ RingSize(p) = n
          /\ \A i \in 1 .. n : Items(p)[i] = full.queue[Slot(full, i - 1)]
      <4>1. /\ Expand(full) \in Ring(S, 2 * n) /\ RingSize(Expand(full)) = n
            /\ Holds(Expand(full), full, n)
        BY <1>3, Expanded
      <4>2. QED
        BY <3>1, <4>1 DEF Holds
    <3>4. 2 * n \in Nat \ {0}
      OBVIOUS
    <3>5. Items(p) \in Seq(S) /\ Len(Items(p)) = n
      BY <3>3, <3>4, ItemsSeq
    <3>6. QED
      BY <3>2, <3>3, <3>5
  <2>2. CASE full.head # full.tail
    <3>1. p = full
      BY <1>2, <2>2
    <3>2. RingSize(full) = size + 1
      <4> DEFINE h == r.head
                 t == r.tail
                 u == full.tail
      <4>1. /\ h \in 0 .. n - 1 /\ t \in 0 .. n - 1 /\ h # u
            /\ u = IF t + 1 >= n THEN 0 ELSE t + 1
        BY <1>1, <1>4, <2>2 DEF Behind
      <4>2. /\ size = IF h <= t THEN t - h ELSE t + n - h
            /\ RingSize(full) = IF h <= u THEN u - h ELSE u + n - h
        BY <1>1, <1>4 DEF RingSize
      <4> HIDE DEF h, t, u, size
      <4>3. QED
        BY <4>1, <4>2
    <3>3. /\ Items(full) \in Seq(S) /\ Len(Items(full)) = size + 1
          /\ \A i \in 1 .. size + 1 : Items(full)[i] = full.queue[Slot(full, i - 1)]
      BY <1>3, <3>2, ItemsSeq
    <3>4. QED
      BY <1>3, <3>1, <3>3
  <2>3. QED
    BY <2>1, <2>2
<1> HIDE DEF size
<1>9. /\ \A i \in 1 .. size : Items(p)[i] = Items(r)[i]
      /\ Items(p)[size + 1] = msg
  <2>1. \A i \in 1 .. size + 1 : Items(p)[i] = IF i <= size THEN Items(r)[i] ELSE msg
    BY <1>7, <1>8
  <2>2. (\A i \in 1 .. size : i \in 1 .. size + 1) /\ size + 1 \in 1 .. size + 1
    BY <1>5
  <2>3. ~ (size + 1 <= size)
    BY <1>5
  <2>4. QED
    BY <2>1, <2>2, <2>3
<1>10. Len(Items(r)) = size
  BY ItemsSeq DEF size
<1>11. QED
  BY <1>8, <1>9, <1>10 DEF p, Follows

\* A message that is pushed (jetnet_mq_push) is behind all that are queued, which
\* stay as they are also when the ring doubles.
THEOREM PushAppends ==
  ASSUME NEW S, None \in S, NEW n \in Nat \ {0}, NEW r \in Ring(S, n), NEW msg \in S
  PROVE  /\ \E k \in {n, 2 * n} : Push(r, msg) \in Ring(S, k)
         /\ Items(Push(r, msg)) = Append(Items(r), msg)
<1> DEFINE size == RingSize(r)
           p == Push(r, msg)
<1>1. /\ \E k \in {n, 2 * n} : p \in Ring(S, k)
      /\ Items(p) \in Seq(S)
      /\ Follows(Items(p), Items(r), msg)
  BY PushHolds
<1>2. /\ Append(Items(r), msg) \in Seq(S) /\ Len(Append(Items(r), msg)) = size + 1
      /\ \A i \in 1 .. size + 1 :
           Append(Items(r), msg)[i] = IF i <= size THEN Items(r)[i] ELSE msg
      /\ size \in Nat /\ Len(Items(r)) = size
  <2>1. Items(r) \in Seq(S) /\ Len(Items(r)) = size
    BY ItemsSeq
  <2> HIDE DEF size
  <2>2. QED
    BY <2>1
<1> HIDE DEF size, p
<1>3. Items(p) = Append(Items(r), msg)
  <2>0. Len(Items(r)) = size
    BY <1>2
  <2>1. \A i \in 1 .. size + 1 : i \in 1 .. size \/ (i = size + 1 /\ ~ (i <= size))
    BY <1>2
  <2>2. \A i \in 1 .. size + 1 : Items(p)[i] = Append(Items(r), msg)[i]
    BY <1>1, <1>2, <2>0, <2>1 DEF Follows
  <2>3. Len(Items(p)) = size + 1
    BY <1>1, <2>0 DEF Follows
  <2>4. QED
    BY <1>1, <1>2, <2>2, <2>3, SeqEqual
<1>4. QED
  BY <1>1, <1>3 DEF p

\* What is popped (jetnet_mq_pop) is the oldest message, and the others stay.
THEOREM PopTakesHead ==
  ASSUME NEW S, None \in S, NEW n \in Nat \ {0}, NEW r \in Ring(S, n), r.head # r.tail
  PROVE  /\ Pop(r) \in Ring(S, n)
         /\ Items(r) # <<>>
         /\ Popped(r) = Head(Items(r))
         /\ Items(Pop(r)) = Tail(Items(r))
<1> DEFINE size == RingSize(r)
           p == Pop(r)
<1>1. /\ r.cap = n /\ r.head \in 0 .. n - 1 /\ r.tail \in 0 .. n - 1
      /\ r.queue \in [0 .. n - 1 -> S]
  BY DEF Ring
<1>2. p \in Ring(S, n)
  BY <1>1, Slots DEF Pop, Ring
<1>3. /\ p.cap = n /\ p.head = Behind(r, r.head) /\ p.tail = r.tail
      /\ p.queue = [r.queue EXCEPT ![r.head] = None]
  BY <1>1 DEF Pop, Ring
<1> HIDE DEF p
<1>4. size \in 1 .. n - 1 /\ RingSize(p) = size - 1
  BY <1>1, <1>3 DEF RingSize, Behind
<1>5. Slot(r, 0) = r.head
  BY <1>1 DEF Slot
<1>6. /\ Items(r) \in Seq(S) /\ Len(Items(r)) = size
      /\ \A i \in 1 .. size : Items(r)[i] = r.queue[Slot(r, i - 1)]
  BY ItemsSeq
<1>7. /\ Items(p) \in Seq(S) /\ Len(Items(p)) = size - 1
      /\ \A i \in 1 .. size - 1 : Items(p)[i] = p.queue[Slot(p, i - 1)]
  BY <1>2, <1>4, ItemsSeq
<1>8. \A i \in 1 .. size - 1 : Items(p)[i] = Items(r)[i + 1]
  <2> TAKE i \in 1 .. size - 1
  <2>1. /\ i - 1 \in 0 .. n - 1 /\ i \in 0 .. n - 1 /\ i # 0
        /\ i + 1 \in 1 .. size /\ (i + 1) - 1 = i
    BY <1>4
  <2>2. Slot(p, i - 1) = Slot(r, i)
    BY <1>1, <1>3, <2>1 DEF Slot, Behind
  <2>3. Slot(r, i) # r.head /\ Slot(r, i) \in 0 .. n - 1
    BY <1>5, <2>1, Slots
  <2>4. p.queue[Slot(r, i)] = r.queue[Slot(r, i)]
    BY <1>1, <1>3, <2>3
  <2>5. QED
    BY <1>6, <1>7, <2>1, <2>2, <2>4
<1>9. Items(r) # <<>> /\ Head(Items(r)) = r.queue[r.head]
  <2>1. 1 \in 1 .. size /\ 1 - 1 = 0
    BY <1>4
  <2>2. Items(r)[1] = r.queue[r.head]
    BY <1>5, <1>6, <2>1
  <2> HIDE DEF size
  <2>3. QED
    BY <1>4, <1>6, <2>2
<1>10. /\ Tail(Items(r)) \in Seq(S) /\ Len(Tail(Items(r))) = size - 1
       /\ \A i \in 1 .. size - 1 : Tail(Items(r))[i] = Items(r)[i + 1]
  BY <1>6, <1>9, HeadTailProperties
<1> HIDE DEF size
<1>11. Items(p) = Tail(Items(r))
  BY <1>4, <1>7, <1>8, <1>10, SeqEqual
<1>12. QED
  BY <1>2, <1>9, <1>11 DEF p, Popped

\* A new ring (jetnet_mq_init) is an empty queue.
THEOREM NewIsEmpty ==
  ASSUME NEW S, None \in S, NEW n \in Nat \ {0}
  PROVE  NewRing(n) \in Ring(S, n) /\ Items(NewRing(n)) = <<>>
<1>1. NewRing(n) \in Ring(S, n)
  BY DEF NewRing, Ring
<1>2. RingSize(NewRing(n)) = 0
  BY DEF NewRing, RingSize
<1>3. QED
  BY <1>1, <1>2, ItemsSeq, EmptySeq

-----------------------------------------------------------------------------
(* Several pushes.                                                         *)

\* Induction, for the numbers of a set.
LEMMA Ascends ==
  ASSUME NEW n \in Nat, NEW T, 0 \in T, \A i \in 0 .. n - 1 : i \in T => i + 1 \in T
  PROVE  \A i \in 0 .. n : i \in T
<1> DEFINE Bad == {i \in 0 .. n : i \notin T}
           R == OpToRel(<, Nat)
<1>1. ASSUME Bad # {}
      PROVE  FALSE
  <2>1. IsWellFoundedOn(R, Nat)
    BY NatLessThanWellFounded
  <2>2. \A x, y \in Nat : y < x => <<y, x>> \in R
    BY DEF OpToRel
  <2>3. Bad \in SUBSET Nat
    OBVIOUS
  <2> HIDE DEF R, Bad
  <2>4. PICK m \in Bad : \A i \in Bad : ~ (<<i, m>> \in R)
    BY <1>1, <2>1, <2>3, WFMin
  <2>5. m \in 0 .. n /\ m # 0
    BY <2>4 DEF Bad
  <2>6. m - 1 \in 0 .. n - 1 /\ m - 1 \in Nat /\ m \in Nat /\ m - 1 < m
    BY <2>5
  <2>7. m - 1 \notin Bad
    BY <2>2, <2>4, <2>6
  <2>8. m - 1 \in T
    BY <2>6, <2>7 DEF Bad
  <2>9. m \in T
    BY <2>5, <2>6, <2>8
  <2>10. QED
    BY <2>4, <2>9 DEF Bad
<1>2. QED
  BY <1>1

Slip == Msg \cup {None}
Rings == UNION {Ring(Slip, k) : k \in Nat \ {0}}

LEMMA RingIs ==
  ASSUME NEW r \in Rings
  PROVE  /\ \E k \in Nat \ {0} : r \in Ring(Slip, k)
         /\ Items(r) \in Seq(Slip) /\ Len(Items(r)) = RingSize(r)
         /\ (RingSize(r) = 0) = (Items(r) = <<>>)
         /\ (r.head = r.tail) = (Items(r) = <<>>)
         /\ r.head \in 0 .. r.cap - 1 /\ r.tail \in 0 .. r.cap - 1
<1>1. PICK k \in Nat \ {0} : r \in Ring(Slip, k)
  BY DEF Rings
<1>2. Items(r) \in Seq(Slip) /\ Len(Items(r)) = RingSize(r)
  BY <1>1, ItemsSeq
<1>3. r.cap = k /\ r.head \in 0 .. k - 1 /\ r.tail \in 0 .. k - 1
  BY <1>1 DEF Ring
<1>4. (RingSize(r) = 0) = (r.head = r.tail)
  BY <1>3 DEF RingSize
<1>5. QED
  BY <1>1, <1>2, <1>3, <1>4, EmptySeq

LEMMA PushOne ==
  ASSUME NEW r \in Rings, NEW x \in Msg
  PROVE  /\ Push(r, x) \in Rings
         /\ Items(Push(r, x)) \in Seq(Slip)
         /\ Follows(Items(Push(r, x)), Items(r), x)
<1>1. PICK k \in Nat \ {0} : r \in Ring(Slip, k)
  BY RingIs
<1>2. None \in Slip /\ x \in Slip
  BY DEF Slip
<1>3. /\ \E j \in {k, 2 * k} : Push(r, x) \in Ring(Slip, j)
      /\ Items(Push(r, x)) \in Seq(Slip)
      /\ Follows(Items(Push(r, x)), Items(r), x)
  BY <1>1, <1>2, PushHolds
<1>4. k \in Nat \ {0} /\ 2 * k \in Nat \ {0}
  BY <1>1
<1>5. QED
  BY <1>3, <1>4 DEF Rings

LEMMA PopOne ==
  ASSUME NEW r \in Rings, RingSize(r) # 0
  PROVE  /\ Pop(r) \in Rings /\ Items(r) # <<>>
         /\ Popped(r) = Head(Items(r)) /\ Items(Pop(r)) = Tail(Items(r))
<1>1. PICK k \in Nat \ {0} : r \in Ring(Slip, k)
  BY RingIs
<1>2. None \in Slip /\ r.head # r.tail
  <2>1. r.head # r.tail
    BY RingIs
  <2>2. QED
    BY <2>1 DEF Slip
<1>3. /\ Pop(r) \in Ring(Slip, k) /\ Items(r) # <<>>
      /\ Popped(r) = Head(Items(r)) /\ Items(Pop(r)) = Tail(Items(r))
  BY <1>1, <1>2, PopTakesHead
<1>4. QED
  BY <1>3 DEF Rings

LEMMA NewRingIs == NewRing(RingCap) \in Rings /\ Items(NewRing(RingCap)) = <<>>
<1>1. None \in Slip /\ RingCap \in Nat \ {0}
  BY CellsAssumption DEF Slip
<1>2. NewRing(RingCap) \in Ring(Slip, RingCap) /\ Items(NewRing(RingCap)) = <<>>
  BY <1>1, NewIsEmpty
<1>3. QED
  BY <1>1, <1>2 DEF Rings

\* Every ring of p is the one before it with one message more.
Pushes(p, s, m) == \A i \in 1 .. m : p[i] = Push(p[i - 1], s[i])

\* What is pushed into an empty ring is what it holds.
LEMMA PushedIs ==
  ASSUME NEW r \in Rings, Items(r) = <<>>, NEW s \in Seq(Msg)
  PROVE  Pushed(r, s) \in Rings /\ Items(Pushed(r, s)) = s
<1> DEFINE n == Len(s)
           Step(p) == [i \in 0 .. n |-> IF i = 0 THEN r ELSE Push(p[i - 1], s[i])]
           T == {m \in 0 .. n : \E p : p = [i \in 0 .. m |-> p[i]] /\ p[0] = r /\ Pushes(p, s, m)}
<1>1. n \in Nat
  OBVIOUS
<1>2. 0 \in T
  <2> DEFINE p == [i \in 0 .. 0 |-> r]
  <2>1. p = [i \in 0 .. 0 |-> p[i]] /\ p[0] = r /\ Pushes(p, s, 0)
    BY DEF Pushes
  <2> HIDE DEF p
  <2>2. QED
    BY <1>1, <2>1
<1>3. ASSUME NEW m \in 0 .. n - 1, m \in T
      PROVE  m + 1 \in T
  <2>1. PICK p : p = [i \in 0 .. m |-> p[i]] /\ p[0] = r /\ Pushes(p, s, m)
    BY <1>3
  <2> DEFINE g == [i \in 0 .. m + 1 |-> IF i = m + 1 THEN Push(p[m], s[m + 1]) ELSE p[i]]
  <2>2. g = [i \in 0 .. m + 1 |-> g[i]] /\ g[0] = r
    BY <2>1
  <2>3. Pushes(g, s, m + 1)
    <3> SUFFICES ASSUME NEW i \in 1 .. m + 1
                 PROVE  g[i] = Push(g[i - 1], s[i])
      BY DEF Pushes
    <3>1. CASE i = m + 1
      <4>1. g[i] = Push(p[m], s[m + 1]) /\ g[i - 1] = p[m]
        BY <3>1
      <4>2. QED
        BY <4>1, <3>1
    <3>2. CASE i # m + 1
      <4>1. i \in 1 .. m /\ i - 1 \in 0 .. m
        BY <3>2
      <4>2. g[i] = p[i] /\ g[i - 1] = p[i - 1]
        BY <4>1
      <4>3. QED
        BY <4>1, <4>2, <2>1 DEF Pushes
    <3>3. QED
      BY <3>1, <3>2
  <2>4. m + 1 \in 0 .. n
    BY <1>1
  <2> HIDE DEF g
  <2>5. QED
    BY <2>2, <2>3, <2>4
<1>4. n \in T
  <2> HIDE DEF T
  <2>1. \A i \in 0 .. n : i \in T
    BY <1>1, <1>2, <1>3, Ascends
  <2>2. QED
    BY <1>1, <2>1
<1>5. PICK f : f = [i \in 0 .. n |-> f[i]] /\ f[0] = r /\ Pushes(f, s, n)
  BY <1>4
<1>6. f = Step(f)
  <2>1. \A i \in 0 .. n : f[i] = IF i = 0 THEN r ELSE Push(f[i - 1], s[i])
    BY <1>1, <1>5 DEF Pushes
  <2>2. QED
    BY <1>5, <2>1
<1> DEFINE p == CHOOSE p : p = Step(p)
<1>7. Pushed(r, s) = p[n]
  BY DEF Pushed
<1>8. p = Step(p)
  <2> HIDE DEF Step
  <2>1. QED
    BY <1>6
<1> HIDE DEF p
<1>9. p[0] = r /\ \A i \in 1 .. n : p[i] = Push(p[i - 1], s[i])
  BY <1>1, <1>8
<1> DEFINE U == {m \in 0 .. n : /\ p[m] \in Rings
                                /\ Items(p[m]) \in Seq(Slip) /\ Len(Items(p[m])) = m
                                /\ \A i \in 1 .. m : Items(p[m])[i] = s[i]}
<1>10. 0 \in U
  <2>1. Items(p[0]) = <<>> /\ p[0] \in Rings
    BY <1>9
  <2>2. Items(p[0]) \in Seq(Slip) /\ Len(Items(p[0])) = 0
    BY <2>1
  <2>3. 0 \in 0 .. n /\ \A i \in 1 .. 0 : FALSE
    BY <1>1
  <2> HIDE DEF n
  <2>4. QED
    BY <2>1, <2>2, <2>3
<1>11. ASSUME NEW m \in 0 .. n - 1, m \in U
       PROVE  m + 1 \in U
  <2> DEFINE q == Items(p[m])
             x == s[m + 1]
             w == Push(p[m], x)
  <2>2. x \in Msg /\ x \in Slip /\ m + 1 \in 1 .. n /\ (m + 1) - 1 = m
    BY <1>1 DEF Slip
  <2>3. /\ w \in Rings
        /\ Items(w) \in Seq(Slip) /\ Len(Items(w)) = Len(q) + 1
        /\ \A i \in 1 .. Len(q) : Items(w)[i] = q[i]
        /\ Items(w)[Len(q) + 1] = x
    <3> DEFINE y == p[m]
    <3>1. y \in Rings
      BY <1>11
    <3> HIDE DEF x, y
    <3>2. /\ Push(y, x) \in Rings /\ Items(Push(y, x)) \in Seq(Slip)
          /\ Follows(Items(Push(y, x)), Items(y), x)
      BY <2>2, <3>1, PushOne
    <3>3. QED
      BY <3>2 DEF y, Follows
  <2>5. p[m + 1] = w
    BY <1>9, <2>2
  <2>6. Len(q) = m /\ \A i \in 1 .. m : q[i] = s[i]
    BY <1>11
  <2> HIDE DEF q, w, p
  <2>8. \A i \in 1 .. m + 1 : Items(w)[i] = s[i]
    <3> TAKE i \in 1 .. m + 1
    <3>1. CASE i <= m
      <4>1. i \in 1 .. m
        BY <3>1
      <4>2. QED
        BY <4>1, <3>1, <2>3, <2>6
    <3>2. CASE ~ (i <= m)
      <4>1. i = m + 1
        BY <3>2
      <4>2. QED
        BY <4>1, <3>2, <2>3, <2>6
    <3>3. QED
      BY <3>1, <3>2
  <2>9. Items(w) \in Seq(Slip) /\ Len(Items(w)) = m + 1 /\ \A i \in 1 .. m + 1 : Items(w)[i] = s[i]
    BY <2>3, <2>6, <2>8
  <2>10. m + 1 \in 0 .. n
    BY <2>2
  <2>11. QED
    BY <2>3, <2>5, <2>9, <2>10
<1>12. \A i \in 0 .. n : i \in U
  <2> HIDE DEF U
  <2>1. QED
    BY <1>1, <1>10, <1>11, Ascends
<1>13. /\ p[n] \in Rings /\ Items(p[n]) \in Seq(Slip) /\ Len(Items(p[n])) = n
       /\ \A i \in 1 .. n : Items(p[n])[i] = s[i]
  BY <1>1, <1>12
<1>14. s \in Seq(Slip)
  BY DEF Slip
<1>15. Items(p[n]) = s
  BY <1>13, <1>14, SeqEqual
<1>16. QED
  BY <1>7, <1>13, <1>15

-----------------------------------------------------------------------------
(* Sequences of messages, and their order.                                 *)

Elems(s) == {s[i] : i \in 1 .. Len(s)}

\* x comes before y, if they came the same way.
Before(x, y) == x.from = y.from /\ x.home = y.home => x.n < y.n

Sorted(s) == \A i, j \in 1 .. Len(s) : i < j => Before(s[i], s[j])
Under(s, t) == \A x \in Elems(s), y \in Elems(t) : Before(x, y)

LEMMA Nothing == Elems(<<>>) = {} /\ Sorted(<<>>)
  BY DEF Elems, Sorted

LEMMA ElemsOf ==
  ASSUME NEW s \in Seq(Msg)
  PROVE  Elems(s) \subseteq Msg
<1>1. \A i \in 1 .. Len(s) : s[i] \in Msg
  OBVIOUS
<1>2. QED
  BY <1>1 DEF Elems

LEMMA OneMore ==
  ASSUME NEW s \in Seq(Msg), NEW m \in Msg
  PROVE  /\ Append(s, m) \in Seq(Msg) /\ Len(Append(s, m)) = Len(s) + 1
         /\ Elems(Append(s, m)) = Elems(s) \cup {m}
         /\ Sorted(s) /\ (\A x \in Elems(s) : Before(x, m)) => Sorted(Append(s, m))
<1> DEFINE t == Append(s, m)
           n == Len(s)
<1>1. /\ t \in Seq(Msg) /\ Len(t) = n + 1 /\ n \in Nat /\ t[n + 1] = m
      /\ \A i \in 1 .. n : t[i] = s[i]
  OBVIOUS
<1> HIDE DEF t, n
<1>2. \A i \in 1 .. n + 1 : i \in 1 .. n \/ i = n + 1
  BY <1>1
<1>3. (\A i \in 1 .. n : i \in 1 .. n + 1) /\ n + 1 \in 1 .. n + 1
  BY <1>1
<1>4. Elems(t) = Elems(s) \cup {m}
  BY <1>1, <1>2, <1>3 DEF Elems, n
<1>5. ASSUME Sorted(s), \A x \in Elems(s) : Before(x, m)
      PROVE  Sorted(t)
  <2> SUFFICES ASSUME NEW i \in 1 .. n + 1, NEW j \in 1 .. n + 1, i < j
               PROVE  Before(t[i], t[j])
    BY <1>1 DEF Sorted
  <2>1. i \in 1 .. n
    BY <1>1
  <2>2. t[i] = s[i] /\ s[i] \in Elems(s)
    BY <1>1, <2>1 DEF Elems, n
  <2>3. CASE j = n + 1
    BY <1>1, <1>5, <2>2, <2>3
  <2>4. CASE j # n + 1
    <3>1. j \in 1 .. n
      BY <1>2, <2>4
    <3>2. Before(s[i], s[j])
      BY <1>5, <2>1, <3>1 DEF Sorted, n
    <3>3. QED
      BY <1>1, <2>2, <3>1, <3>2
  <2>5. QED
    BY <2>3, <2>4
<1>6. QED
  BY <1>1, <1>4, <1>5 DEF t, n

LEMMA OneLess ==
  ASSUME NEW s \in Seq(Msg), s # <<>>
  PROVE  /\ Head(s) \in Msg /\ Tail(s) \in Seq(Msg) /\ Len(Tail(s)) <= Len(s)
         /\ Head(s) \in Elems(s) /\ Elems(Tail(s)) \subseteq Elems(s)
         /\ Elems(s) = {Head(s)} \cup Elems(Tail(s))
         /\ Sorted(s) => Sorted(Tail(s)) /\ \A y \in Elems(Tail(s)) : Before(Head(s), y)
<1> DEFINE t == Tail(s)
           n == Len(t)
<1>1. /\ t \in Seq(Msg) /\ Len(s) = n + 1 /\ n \in Nat /\ Head(s) = s[1] /\ Head(s) \in Msg
      /\ \A i \in 1 .. n : t[i] = s[i + 1]
  BY HeadTailProperties
<1> HIDE DEF t, n
<1>2. /\ 1 \in 1 .. n + 1
      /\ \A i \in 1 .. n : i + 1 \in 1 .. n + 1 /\ 1 < i + 1
      /\ \A i \in 1 .. n + 1 : i = 1 \/ (i - 1 \in 1 .. n /\ (i - 1) + 1 = i)
  BY <1>1
<1>3. Head(s) \in Elems(s) /\ Elems(t) \subseteq Elems(s)
  BY <1>1, <1>2 DEF Elems, n
<1>4. Elems(s) \subseteq {Head(s)} \cup Elems(t)
  <2> SUFFICES ASSUME NEW i \in 1 .. n + 1
               PROVE  s[i] \in {Head(s)} \cup Elems(t)
    BY <1>1 DEF Elems
  <2>1. CASE i = 1
    BY <1>1, <2>1
  <2>2. CASE i # 1
    <3>1. i - 1 \in 1 .. n /\ (i - 1) + 1 = i
      BY <1>2, <2>2
    <3>2. t[i - 1] = s[i]
      BY <1>1, <3>1
    <3>3. QED
      BY <3>1, <3>2 DEF Elems, n
  <2>3. QED
    BY <2>1, <2>2
<1>5. ASSUME Sorted(s)
      PROVE  Sorted(t) /\ \A y \in Elems(t) : Before(Head(s), y)
  <2>1. ASSUME NEW i \in 1 .. n, NEW j \in 1 .. n, i < j
        PROVE  Before(t[i], t[j])
    <3>1. i + 1 \in 1 .. Len(s) /\ j + 1 \in 1 .. Len(s) /\ i + 1 < j + 1
      BY <1>1, <2>1
    <3>2. Before(s[i + 1], s[j + 1])
      BY <1>5, <3>1 DEF Sorted
    <3>3. QED
      BY <3>2, <1>1
  <2>2. ASSUME NEW i \in 1 .. n
        PROVE  Before(Head(s), t[i])
    <3>1. Before(s[1], s[i + 1])
      BY <1>1, <1>2, <1>5 DEF Sorted
    <3>2. QED
      BY <3>1, <1>1
  <2>3. QED
    BY <2>1, <2>2 DEF Sorted, Elems, n
<1>6. Len(t) <= Len(s)
  BY <1>1 DEF n
<1>7. QED
  BY <1>1, <1>3, <1>4, <1>5, <1>6 DEF t

-----------------------------------------------------------------------------
(* The inductive invariant.                                                *)

Queued(c) == Items(mq[c])

\* The messages on the way to the entities of cell c, and there.
Held(c) == Elems(got[c]) \cup Elems(Queued(c)) \cup Elems(fifo[c])

\* A message for the entities of cell c, in its present run.
Letter(c, m) ==
  /\ m.home
  /\ m.n <= posted[m.from]
  /\ m.era \in {run[c], 0}

\* A message from another machine that the hub has still to post on.
Parcel(m) ==
  /\ ~m.home /\ m.from = "far" /\ m.to \in Cell
  /\ m.n <= posted["far"]

Basic ==
  /\ on \subseteq Cell
  /\ run \in [Cell -> 0 .. MaxRun] /\ seg \in [Cell -> 0 .. MaxRun]
  /\ open \in [Cell -> [Cell -> 0 .. MaxRun]]
  /\ fifo \in [Cell -> Seq(Msg)] /\ \A c \in Cell : Len(fifo[c]) <= Cap
  /\ mq \in [Cell -> Rings] /\ \A c \in Cell : Queued(c) \in Seq(Msg)
  /\ posted \in [Sender -> Nat]
  /\ got \in [Cell -> Seq(Msg)]

\* What a cell has while it runs, and what it leaves.
Living(c) ==
  /\ seg[c] \in {0, run[c]}
  /\ seg[c] = 0 => fifo[c] = <<>>
  /\ c \in on => seg[c] # 0
  /\ c \notin on => Queued(c) = <<>> /\ got[c] = <<>>

\* Which messages are where.
Known(c) ==
  /\ \A m \in Elems(got[c]) \cup Elems(fifo[c]) : Letter(c, m)
  /\ \A m \in Elems(Queued(c)) : Letter(c, m) \/ (c = Hub /\ Parcel(m))

\* The messages on the way to a cell's entities are in order.
Line(c) ==
  /\ Sorted(got[c]) /\ Sorted(Queued(c)) /\ Sorted(fifo[c])
  /\ Under(got[c], Queued(c)) /\ Under(got[c], fifo[c]) /\ Under(Queued(c), fifo[c])

\* What the hub has still to post on comes after all that it posted on.
ToCome(c) ==
  \A x \in Elems(Queued(Hub)), y \in Held(c) :
    ~x.home /\ y.home /\ y.from = "far" => y.n < x.n

CellInv(c) == Living(c) /\ Known(c) /\ Line(c) /\ ToCome(c)

Inv == Basic /\ \A c \in Cell : CellInv(c)

-----------------------------------------------------------------------------
(* Steps that leave a cell alone, and steps of one that is not running.    *)

\* What the hub has still to post on it had before, or it is new.
HubKeeps ==
  \A x \in Elems(Queued(Hub))' :
    ~x.home => x \in Elems(Queued(Hub)) \/ posted["far"] < x.n

\* What was posted before is older than what is new.
LEMMA Older ==
  ASSUME Inv, NEW c \in Cell, HubKeeps, NEW x \in Elems(Queued(Hub))', x \in Msg,
         NEW y \in Held(c), ~x.home, y.home, y.from = "far"
  PROVE  y.n < x.n
<1> USE DEF Inv, CellInv
<1>1. CASE x \in Elems(Queued(Hub))
  BY <1>1 DEF ToCome
<1>2. CASE x \notin Elems(Queued(Hub))
  <2>1. posted["far"] < x.n
    BY <1>2 DEF HubKeeps
  <2>2. Letter(c, y)
    BY DEF Known, Held, Parcel
  <2>3. y \in Msg
    BY ElemsOf DEF Basic, Held
  <2>4. y.n \in Nat /\ x.n \in Nat /\ posted["far"] \in Nat /\ y.n <= posted["far"]
    BY <2>2, <2>3 DEF Msg, Basic, Sender, Letter
  <2>5. QED
    BY <2>1, <2>4
<1>3. QED
  BY <1>1, <1>2

\* Posting more makes no letter and no parcel another thing.
LEMMA Lasting ==
  ASSUME Basic, NEW c \in Cell, run'[c] = run[c],
         posted' \in [Sender -> Nat], \A s \in Sender : posted[s] <= posted'[s],
         NEW m \in Msg
  PROVE  (Letter(c, m) => Letter(c, m)') /\ (Parcel(m) => Parcel(m)')
<1>1. m.from \in Sender /\ m.n \in Nat /\ "far" \in Sender
  BY DEF Msg, Sender
<1>2. \A s \in Sender : posted[s] \in Nat /\ posted'[s] \in Nat
  BY DEF Basic
<1>3. \A s \in Sender : m.n <= posted[s] => m.n <= posted'[s]
  BY <1>1, <1>2
<1>4. QED
  BY <1>1, <1>3 DEF Letter, Parcel

\* The messages of a cell that is not concerned.
LEMMA CellSame ==
  ASSUME Inv, NEW c \in Cell, HubKeeps, Queued(Hub)' \in Seq(Msg), (c \in on)' = (c \in on),
         run'[c] = run[c], seg'[c] = seg[c], fifo'[c] = fifo[c], mq'[c] = mq[c],
         got'[c] = got[c], \A s \in Sender : posted[s] <= posted'[s],
         posted' \in [Sender -> Nat]
  PROVE  CellInv(c)'
<1> USE DEF Inv, CellInv
<1>1. Queued(c)' = Queued(c) /\ Held(c)' = Held(c)
  BY DEF Queued, Held
<1>2. \A m \in Msg : (Letter(c, m) => Letter(c, m)') /\ (Parcel(m) => Parcel(m)')
  BY Lasting
<1>4. Elems(got[c]) \cup Elems(fifo[c]) \subseteq Msg /\ Elems(Queued(c)) \subseteq Msg
  BY ElemsOf DEF Basic
<1>5. Known(c)'
  BY <1>1, <1>2, <1>4 DEF Known
<1>6. Living(c)' /\ Line(c)'
  BY <1>1 DEF Living, Line
<1>7. ToCome(c)'
  <2>1. \A x \in Elems(Queued(Hub))' : x \in Msg
    BY ElemsOf
  <2>2. QED
    BY <1>1, <2>1, Older DEF ToCome
<1>8. QED
  BY <1>5, <1>6, <1>7

\* A cell that has nothing left but, perhaps, its channel.
LEMMA CellEmpty ==
  ASSUME Inv, NEW c \in Cell, HubKeeps, Queued(Hub)' \in Seq(Msg), posted' = posted,
         Queued(c)' = <<>>, got'[c] = <<>>,
         fifo'[c] = <<>> \/ (fifo'[c] = fifo[c] /\ run'[c] = run[c]), Living(c)'
  PROVE  CellInv(c)'
<1> USE DEF Inv, CellInv
<1>1. Elems(Queued(c)') = {} /\ Elems(got'[c]) = {} /\ Sorted(Queued(c)') /\ Sorted(got'[c])
  BY Nothing
<1>2. Elems(fifo'[c]) \subseteq Elems(fifo[c]) /\ Sorted(fifo'[c])
  BY Nothing DEF Line
<1>3. \A m \in Elems(fifo'[c]) : Letter(c, m)'
  <2>1. CASE fifo'[c] = <<>>
    BY <2>1, Nothing
  <2>2. CASE fifo'[c] = fifo[c] /\ run'[c] = run[c]
    BY <2>2 DEF Letter, Known
  <2>3. QED
    BY <2>1, <2>2
<1>4. Known(c)'
  BY <1>1, <1>3 DEF Known
<1>5. Line(c)'
  BY <1>1, <1>2 DEF Line, Under
<1>6. ToCome(c)'
  <2>1. \A x \in Elems(Queued(Hub))' : x \in Msg
    BY ElemsOf
  <2>2. Held(c)' \subseteq Held(c)
    BY <1>1, <1>2 DEF Held
  <2>3. QED
    BY <2>1, <2>2, Older DEF ToCome
<1>7. QED
  BY <1>4, <1>5, <1>6

\* What a cell has before it started, and after it ended.
LEMMA Bare ==
  /\ 0 \in 0 .. MaxRun /\ [d \in Cell |-> 0] \in [Cell -> 0 .. MaxRun]
  /\ <<>> \in Seq(Msg) /\ Len(<<>>) <= Cap
<1>1. 0 \in 0 .. MaxRun
  BY CellsAssumption
<1>2. [d \in Cell |-> 0] \in [Cell -> 0 .. MaxRun]
  BY <1>1
<1>3. <<>> \in Seq(Msg) /\ Len(<<>>) <= Cap
  BY CellsAssumption
<1>4. QED
  BY <1>1, <1>2, <1>3

LEMMA HubSame == mq'[Hub] = mq[Hub] \/ Queued(Hub)' = <<>> => HubKeeps
  BY Nothing DEF HubKeeps, Queued

\* Start and StartFails: the channel is new.
LEMMA StartStep ==
  ASSUME Inv, NEW c \in Cell, Start(c) \/ StartFails(c)
  PROVE  Inv'
<1> USE DEF Inv, CellInv
<1>1. /\ c \notin on /\ run[c] < MaxRun /\ run' = [run EXCEPT ![c] = run[c] + 1]
      /\ seg[c] = 0 /\ seg' = [seg EXCEPT ![c] = run'[c]]
      /\ on' \in {on, on \cup {c}}
      /\ UNCHANGED <<open, fifo, mq, posted, got>>
  BY DEF Start, StartFails, Counted, Begins
<1>2. run'[c] = run[c] + 1 /\ seg'[c] = run[c] + 1 /\ run[c] + 1 \in 0 .. MaxRun /\ run[c] + 1 # 0
  <2>1. run[c] \in 0 .. MaxRun /\ MaxRun \in Nat /\ run[c] < MaxRun
    BY <1>1, CellsAssumption DEF Basic
  <2>2. run[c] + 1 \in 0 .. MaxRun /\ run[c] + 1 # 0
    BY <2>1
  <2>3. run'[c] = run[c] + 1 /\ seg'[c] = run[c] + 1
    BY <1>1 DEF Basic
  <2>4. QED
    BY <2>2, <2>3
<1>3. Basic'
  BY <1>1, <1>2 DEF Basic, Queued
<1>4. HubKeeps
  BY <1>1, HubSame
<1>5. CellInv(c)'
  <2>1. Queued(c)' = <<>> /\ got'[c] = <<>> /\ fifo'[c] = <<>>
    BY <1>1 DEF Living, Queued
  <2>2. Living(c)'
    BY <1>1, <1>2, <2>1 DEF Living
  <2>3. QED
    BY <1>1, <1>3, <1>4, <2>1, <2>2, CellEmpty, CellsAssumption DEF Basic
<1>6. ASSUME NEW d \in Cell, d # c
      PROVE  CellInv(d)'
  <2>1. /\ run'[d] = run[d] /\ seg'[d] = seg[d] /\ (d \in on)' = (d \in on)
        /\ \A s \in Sender : posted[s] <= posted'[s]
    BY <1>1, <1>6 DEF Basic
  <2>2. QED
    BY <1>1, <1>3, <1>4, <2>1, CellSame, CellsAssumption DEF Basic
<1>7. QED
  BY <1>3, <1>5, <1>6

LEMMA EndStep ==
  ASSUME Inv, NEW c \in Cell, Exit(c) \/ Crash(c)
  PROVE  Inv'
<1> USE DEF Inv, CellInv
<1>1. /\ c \in on /\ on' = on \ {c}
      /\ open' = [open EXCEPT ![c] = [d \in Cell |-> 0]]
      /\ mq' = [mq EXCEPT ![c] = NewRing(RingCap)]
      /\ got' = [got EXCEPT ![c] = <<>>]
      /\ UNCHANGED <<run, posted>>
      /\ \/ UNCHANGED <<seg, fifo>>
         \/ /\ seg' = [seg EXCEPT ![c] = 0]
            /\ fifo' = [fifo EXCEPT ![c] = <<>>]
  BY DEF Exit, Crash, Ends, Removes, Works
<1>2. Queued(c)' = <<>> /\ mq'[c] \in Rings /\ \A d \in Cell : d # c => mq'[d] = mq[d]
  BY <1>1, NewRingIs DEF Queued, Basic
<1>3. Basic'
  <2>1. /\ on' \subseteq Cell /\ run' \in [Cell -> 0 .. MaxRun]
        /\ seg' \in [Cell -> 0 .. MaxRun] /\ posted' \in [Sender -> Nat]
        /\ open' \in [Cell -> [Cell -> 0 .. MaxRun]]
    BY <1>1, Bare DEF Basic
  <2>2. /\ fifo' \in [Cell -> Seq(Msg)] /\ got' \in [Cell -> Seq(Msg)]
        /\ \A d \in Cell : Len(fifo'[d]) <= Cap
    BY <1>1, Bare DEF Basic
  <2>3. mq' \in [Cell -> Rings] /\ \A d \in Cell : Queued(d)' \in Seq(Msg)
    BY <1>1, <1>2, Bare DEF Basic, Queued
  <2>4. QED
    BY <2>1, <2>2, <2>3 DEF Basic
<1>4. HubKeeps
  <2>1. mq'[Hub] = mq[Hub] \/ Queued(Hub)' = <<>>
    BY <1>2, CellsAssumption
  <2>2. QED
    BY <2>1, HubSame
<1>5. CellInv(c)'
  <2>1. got'[c] = <<>> /\ (fifo'[c] = <<>> \/ (fifo'[c] = fifo[c] /\ run'[c] = run[c]))
    BY <1>1 DEF Basic
  <2>2. Living(c)'
    BY <1>1, <1>2, <2>1 DEF Living, Basic
  <2>3. QED
    BY <1>1, <1>2, <1>3, <1>4, <2>1, <2>2, CellEmpty, CellsAssumption DEF Basic
<1>6. ASSUME NEW d \in Cell, d # c
      PROVE  CellInv(d)'
  <2>1. /\ run'[d] = run[d] /\ seg'[d] = seg[d] /\ (d \in on)' = (d \in on)
        /\ fifo'[d] = fifo[d] /\ mq'[d] = mq[d] /\ got'[d] = got[d]
        /\ \A s \in Sender : posted[s] <= posted'[s]
    BY <1>1, <1>2, <1>6 DEF Basic
  <2>2. QED
    BY <1>3, <1>4, <2>1, CellSame, CellsAssumption DEF Basic
<1>7. QED
  BY <1>3, <1>5, <1>6

LEMMA ClearedStep ==
  ASSUME Inv, NEW c \in Cell, Cleared(c)
  PROVE  Inv'
<1> USE DEF Inv, CellInv
<1>1. /\ c \notin on
      /\ seg' = [seg EXCEPT ![c] = 0] /\ fifo' = [fifo EXCEPT ![c] = <<>>]
      /\ UNCHANGED <<on, run, open, mq, posted, got>>
  BY DEF Cleared, Removes
<1>2. Basic'
  <2>1. /\ fifo' \in [Cell -> Seq(Msg)] /\ \A d \in Cell : Len(fifo'[d]) <= Cap
    BY <1>1, Bare DEF Basic
  <2>2. seg' \in [Cell -> 0 .. MaxRun]
    BY <1>1, Bare DEF Basic
  <2>3. QED
    BY <1>1, <2>1, <2>2 DEF Basic, Queued
<1>3. HubKeeps
  BY <1>1, HubSame
<1>4. CellInv(c)'
  <2>1. Queued(c)' = <<>> /\ got'[c] = <<>> /\ fifo'[c] = <<>>
    BY <1>1 DEF Living, Queued, Basic
  <2>2. Living(c)'
    BY <1>1, <2>1 DEF Living, Basic
  <2>3. QED
    BY <1>1, <1>2, <1>3, <2>1, <2>2, CellEmpty, CellsAssumption DEF Basic
<1>5. ASSUME NEW d \in Cell, d # c
      PROVE  CellInv(d)'
  <2>1. /\ seg'[d] = seg[d] /\ fifo'[d] = fifo[d]
        /\ \A s \in Sender : posted[s] <= posted'[s]
    BY <1>1, <1>5 DEF Basic
  <2>2. QED
    BY <1>1, <1>2, <1>3, <2>1, CellSame, CellsAssumption DEF Basic
<1>6. QED
  BY <1>2, <1>4, <1>5

-----------------------------------------------------------------------------
(* Posting: what a package put into a channel must be.                     *)

\* The package is put into the channel of d, or is lost.
Joins(d, msg) ==
  \/ fifo' = fifo
  \/ /\ Len(fifo[d]) < Cap /\ seg[d] # 0
     /\ fifo' = [fifo EXCEPT ![d] = Append(fifo[d], msg)]

LEMMA PutIs ==
  ASSUME Inv, NEW c \in Cell, NEW d \in Cell, NEW msg \in Msg, Put(c, d, msg)
  PROVE  open' \in [Cell -> [Cell -> 0 .. MaxRun]] /\ Joins(d, msg)
<1>1. Target(c, d) \in 0 .. MaxRun
  BY DEF Target, OpenNow, Inv, Basic
<1>2. open' \in [Cell -> [Cell -> 0 .. MaxRun]]
  <2>1. open' = IF d = c THEN open ELSE [open EXCEPT ![c][d] = Target(c, d)]
    BY DEF Put
  <2> HIDE DEF Target
  <2>2. QED
    BY <1>1, <2>1 DEF Inv, Basic
<1>3. Joins(d, msg)
  BY DEF Put, Joins
<1>4. QED
  BY <1>2, <1>3

\* A step that puts a package into the channel of d, and takes at most some of
\* what the hub has still to post on.
LEMMA JoinStep ==
  ASSUME Inv, NEW d \in Cell, NEW msg \in Msg, Joins(d, msg),
         UNCHANGED <<on, run, seg, got>>,
         open' \in [Cell -> [Cell -> 0 .. MaxRun]], mq' \in [Cell -> Rings],
         posted' \in [Sender -> Nat], \A s \in Sender : posted[s] <= posted'[s],
         \A e \in Cell : \/ mq'[e] = mq[e]
                         \/ Queued(e) # <<>> /\ Queued(e)' = Tail(Queued(e)),
         Letter(d, msg)', \A x \in Held(d) : Before(x, msg),
         msg.from = "far" => \A x \in Elems(Queued(Hub))' : ~x.home => msg.n < x.n
  PROVE  Inv'
<1> USE DEF Inv, CellInv
<1>1. \A e \in Cell : /\ Queued(e)' \in Seq(Msg)
                      /\ Elems(Queued(e))' \subseteq Elems(Queued(e))
                      /\ Sorted(Queued(e))'
  <2> TAKE e \in Cell
  <2>1. Queued(e) \in Seq(Msg) /\ Sorted(Queued(e))
    BY DEF Basic, Line
  <2>2. CASE mq'[e] = mq[e]
    BY <2>1, <2>2 DEF Queued
  <2>3. CASE Queued(e) # <<>> /\ Queued(e)' = Tail(Queued(e))
    <3>1. /\ Tail(Queued(e)) \in Seq(Msg) /\ Sorted(Tail(Queued(e)))
          /\ Elems(Tail(Queued(e))) \subseteq Elems(Queued(e))
      BY <2>1, <2>3, OneLess
    <3>2. QED
      BY <2>3, <3>1
  <2>4. QED
    BY <2>2, <2>3
<1>2. \A e \in Cell :
        /\ fifo'[e] \in Seq(Msg) /\ Len(fifo'[e]) <= Cap /\ Sorted(fifo'[e])
        /\ \/ fifo'[e] = fifo[e]
           \/ /\ e = d /\ seg[d] # 0
              /\ Elems(fifo'[e]) = Elems(fifo[e]) \cup {msg}
  <2> TAKE e \in Cell
  <2>1. fifo[e] \in Seq(Msg) /\ Len(fifo[e]) <= Cap /\ Sorted(fifo[e])
    BY DEF Basic, Line
  <2>2. CASE fifo'[e] = fifo[e]
    BY <2>1, <2>2
  <2>3. CASE fifo'[e] # fifo[e]
    <3>1. e = d /\ Len(fifo[d]) < Cap /\ seg[d] # 0 /\ fifo'[e] = Append(fifo[e], msg)
      BY <2>3 DEF Joins, Basic
    <3>2. \A x \in Elems(fifo[e]) : Before(x, msg)
      BY <3>1 DEF Held
    <3>3. /\ Append(fifo[e], msg) \in Seq(Msg) /\ Len(Append(fifo[e], msg)) = Len(fifo[e]) + 1
          /\ Elems(Append(fifo[e], msg)) = Elems(fifo[e]) \cup {msg}
          /\ Sorted(Append(fifo[e], msg))
      BY <2>1, <3>2, OneMore
    <3>4. Len(Append(fifo[e], msg)) <= Cap
      <4>1. Len(fifo[e]) \in Nat /\ Cap \in Nat
        BY <2>1, CellsAssumption
      <4>2. Len(fifo[e]) < Cap
        BY <3>1
      <4>3. QED
        BY <3>3, <4>1, <4>2
    <3>5. QED
      BY <3>1, <3>3, <3>4
  <2>4. QED
    BY <2>2, <2>3
<1>3. Basic'
  <2>1. DOMAIN fifo' = Cell /\ fifo' = [e \in Cell |-> fifo'[e]]
    BY DEF Joins, Basic
  <2>2. fifo' \in [Cell -> Seq(Msg)]
    BY <1>2, <2>1
  <2>3. QED
    BY <1>1, <1>2, <2>2 DEF Basic
<1>4. HubKeeps
  BY <1>1, CellsAssumption DEF HubKeeps
<1>5. ASSUME NEW e \in Cell
      PROVE  CellInv(e)'
  <2>1. CASE fifo'[e] = fifo[e] /\ mq'[e] = mq[e]
    <3>1. Queued(Hub)' \in Seq(Msg)
      BY <1>1, CellsAssumption
    <3>2. (e \in on)' = (e \in on)
      OBVIOUS
    <3>3. QED
      BY <1>4, <2>1, <3>1, <3>2, CellSame
  <2>2. CASE ~(fifo'[e] = fifo[e] /\ mq'[e] = mq[e])
    <3>1. \A m \in Msg : (Letter(e, m) => Letter(e, m)') /\ (Parcel(m) => Parcel(m)')
      BY Lasting
    <3>2. /\ Elems(got[e]) \subseteq Msg /\ Elems(fifo[e]) \subseteq Msg
          /\ Elems(Queued(e)) \subseteq Msg
      BY ElemsOf DEF Basic
    <3>3. Elems(fifo'[e]) \subseteq Elems(fifo[e]) \cup {msg}
      BY <1>2
    <3>4. msg \in Elems(fifo'[e]) => msg \in Elems(fifo[e]) \/ e = d
      BY <1>2
    <3>5. Known(e)'
      BY <1>1, <3>1, <3>2, <3>3, <3>4 DEF Known
    <3>6. Living(e)'
      <4>1. seg[e] = 0 => fifo'[e] = <<>>
        BY <1>2 DEF Living
      <4>2. e \notin on => Queued(e)' = <<>>
        BY DEF Living, Queued
      <4>3. QED
        BY <4>1, <4>2 DEF Living
    <3>7. Line(e)'
      <4>1. Under(got[e], Queued(e)')
        BY <1>1 DEF Line, Under
      <4>2. Under(got[e], fifo'[e]) /\ Under(Queued(e)', fifo'[e])
        BY <1>1, <3>3, <3>4 DEF Line, Under, Held
      <4>3. QED
        BY <1>1, <1>2, <4>1, <4>2 DEF Line
    <3>8. ToCome(e)'
      <4>1. Held(e)' \subseteq Held(e) \cup {msg}
        BY <1>1, <3>3 DEF Held
      <4>2. \A x \in Elems(Queued(Hub))' : x \in Msg /\ x \in Elems(Queued(Hub))
        BY <1>1, ElemsOf, CellsAssumption
      <4>3. QED
        BY <4>1, <4>2 DEF ToCome
    <3>9. QED
      BY <3>5, <3>6, <3>7, <3>8
  <2>3. QED
    BY <2>1, <2>2
<1>6. QED
  BY <1>3, <1>5

-----------------------------------------------------------------------------
(* The steps of a loop.                                                    *)

\* What a cell's entities and ring and channel hold is no older than what was
\* posted.
LEMMA HeldIs ==
  ASSUME Inv, NEW d \in Cell, NEW x \in Held(d)
  PROVE  x \in Msg /\ (Letter(d, x) \/ (d = Hub /\ Parcel(x)))
<1>1. x \in Msg
  BY ElemsOf DEF Held, Inv, Basic
<1>2. QED
  BY <1>1 DEF Held, Inv, CellInv, Known

\* Post: the message is the latest of its sender.
LEMMA PostStep ==
  ASSUME Inv, NEW c \in Cell, NEW t \in Sender, Post(c, t)
  PROVE  Inv'
<1> USE DEF Inv, CellInv
<1>1. PICK d : d = IF t = "far" THEN Hub ELSE t
  OBVIOUS
<1>2. PICK msg : msg = Message(c, posted'[c], t)
  OBVIOUS
<1>3. /\ posted' = [posted EXCEPT ![c] = posted[c] + 1]
      /\ Put(c, d, msg)
      /\ UNCHANGED <<on, run, seg, mq, got>>
  BY <1>1, <1>2 DEF Post
<1>4. d \in Cell /\ c \in Sender /\ c # "far" /\ (t \in Cell => t = d)
  BY <1>1, CellsAssumption DEF Sender
<1>5. /\ posted' \in [Sender -> Nat] /\ posted'[c] = posted[c] + 1 /\ posted[c] \in Nat
      /\ \A s \in Sender : posted[s] <= posted'[s]
  <2>1. posted[c] \in Nat /\ posted[c] + 1 \in Nat
    <3>1. posted[c] \in Nat
      BY <1>4 DEF Basic
    <3>2. QED
      BY <3>1
  <2>2. posted' \in [Sender -> Nat] /\ posted'[c] = posted[c] + 1
    BY <1>3, <1>4, <2>1 DEF Basic
  <2>3. ASSUME NEW s \in Sender
        PROVE  posted[s] <= posted'[s]
    <3>1. posted[s] \in Nat /\ (posted'[s] = posted[s] \/ posted'[s] = posted[s] + 1)
      BY <1>3 DEF Basic
    <3>2. QED
      BY <3>1
  <2>4. QED
    BY <2>1, <2>2, <2>3
<1>6. /\ msg.from = c /\ msg.n = posted[c] + 1 /\ msg.home
      /\ msg.era \in {run[d], 0} /\ msg \in Msg
  <2>1. (IF t \in Cell THEN run[t] ELSE 0) \in Nat
    BY DEF Basic
  <2>2. QED
    BY <1>2, <1>4, <1>5, <2>1 DEF Message, Msg
<1>7. open' \in [Cell -> [Cell -> 0 .. MaxRun]] /\ Joins(d, msg)
  BY <1>3, <1>4, <1>6, PutIs
<1>8. Letter(d, msg)'
  <2>1. msg.n <= posted'[msg.from]
    BY <1>5, <1>6
  <2>2. QED
    BY <1>3, <1>6, <2>1 DEF Letter
<1>9. \A x \in Held(d) : Before(x, msg)
  <2> SUFFICES ASSUME NEW x \in Held(d), x.from = c, x.home
               PROVE  x.n < msg.n
    BY <1>6 DEF Before
  <2>1. x \in Msg /\ Letter(d, x)
    BY <1>4, HeldIs DEF Parcel
  <2>2. x.n \in Nat /\ x.n <= posted[c]
    BY <2>1 DEF Msg, Letter
  <2>3. QED
    BY <1>5, <1>6, <2>2
<1>10. mq' \in [Cell -> Rings] /\ \A e \in Cell : mq'[e] = mq[e]
  BY <1>3 DEF Basic
<1> HIDE DEF Inv, CellInv
<1>11. QED
  BY <1>3, <1>4, <1>5, <1>6, <1>7, <1>8, <1>9, <1>10, JoinStep

\* A loop takes a message out of its ring.
LEMMA Takes ==
  ASSUME Inv, NEW c \in Cell, RingSize(mq[c]) # 0, mq' = [mq EXCEPT ![c] = Pop(mq[c])]
  PROVE  /\ mq' \in [Cell -> Rings] /\ \A e \in Cell : e # c => mq'[e] = mq[e]
         /\ Queued(c) # <<>> /\ Queued(c)' = Tail(Queued(c))
         /\ Popped(mq[c]) = Head(Queued(c)) /\ Popped(mq[c]) \in Elems(Queued(c))
         /\ Popped(mq[c]) \in Msg
<1>1. mq \in [Cell -> Rings] /\ Queued(c) \in Seq(Msg)
  BY DEF Inv, Basic
<1>2. /\ Pop(mq[c]) \in Rings /\ Queued(c) # <<>>
      /\ Popped(mq[c]) = Head(Queued(c)) /\ Items(Pop(mq[c])) = Tail(Queued(c))
  BY <1>1, PopOne DEF Queued
<1>3. Head(Queued(c)) \in Elems(Queued(c)) /\ Head(Queued(c)) \in Msg
  BY <1>1, <1>2, OneLess
<1>4. mq'[c] = Pop(mq[c]) /\ mq' \in [Cell -> Rings] /\ \A e \in Cell : e # c => mq'[e] = mq[e]
  BY <1>1, <1>2
<1>5. Queued(c)' = Tail(Queued(c))
  BY <1>2, <1>4 DEF Queued
<1>6. QED
  BY <1>2, <1>3, <1>4, <1>5

\* PassOn: the hub posts on the oldest of what it has from other machines.
LEMMA PassOnStep ==
  ASSUME Inv, NEW c \in Cell, PassOn(c)
  PROVE  Inv'
<1> USE DEF Inv, CellInv
<1>1. PICK old : old = Popped(mq[c])
  OBVIOUS
<1>2. PICK d : d = old.to
  OBVIOUS
<1>3. PICK msg : msg = [old EXCEPT !.home = TRUE, !.era = run[d]]
  OBVIOUS
<1>4. /\ RingSize(mq[c]) # 0 /\ ~old.home
      /\ mq' = [mq EXCEPT ![c] = Pop(mq[c])]
      /\ Put(c, d, msg)
      /\ UNCHANGED <<on, run, seg, posted, got>>
  BY <1>1, <1>2, <1>3 DEF PassOn
<1>5. /\ mq' \in [Cell -> Rings] /\ \A e \in Cell : e # c => mq'[e] = mq[e]
      /\ Queued(c) # <<>> /\ Queued(c)' = Tail(Queued(c))
      /\ old = Head(Queued(c)) /\ old \in Elems(Queued(c)) /\ old \in Msg
  BY <1>1, <1>4, Takes
<1>6. c = Hub /\ Parcel(old)
  BY <1>4, <1>5 DEF Known, Letter
<1>7. d \in Cell /\ run[d] \in Nat
  BY <1>2, <1>6 DEF Parcel, Basic
<1>8. /\ msg \in Msg /\ msg.from = "far" /\ msg.n = old.n /\ msg.home /\ msg.era = run[d]
  BY <1>3, <1>5, <1>6, <1>7 DEF Msg, Parcel
<1>9. open' \in [Cell -> [Cell -> 0 .. MaxRun]] /\ Joins(d, msg)
  BY <1>4, <1>7, <1>8, PutIs
<1>10. Letter(d, msg)'
  <2>1. posted' = posted /\ run' = run /\ msg.n <= posted["far"]
    BY <1>4, <1>6, <1>8 DEF Parcel
  <2>2. QED
    BY <1>8, <2>1 DEF Letter
<1>11. \A x \in Held(d) : Before(x, msg)
  BY <1>4, <1>5, <1>6, <1>7, <1>8 DEF Before, ToCome
<1>12. \A x \in Elems(Queued(Hub))' : ~x.home => msg.n < x.n
  <2> SUFFICES ASSUME NEW x \in Elems(Tail(Queued(Hub))), ~x.home
               PROVE  old.n < x.n
    BY <1>5, <1>6, <1>8
  <2>1. Queued(Hub) \in Seq(Msg) /\ Sorted(Queued(Hub))
    BY CellsAssumption DEF Basic, Line
  <2>2. Before(old, x) /\ x \in Elems(Queued(Hub))
    BY <1>5, <1>6, <2>1, OneLess
  <2>3. x \in Held(Hub)
    BY <2>2 DEF Held
  <2>4. x \in Msg /\ Parcel(x)
    BY <2>3, HeldIs, CellsAssumption DEF Letter
  <2>5. old.from = x.from /\ old.home = x.home
    BY <1>4, <1>5, <1>6, <2>4 DEF Parcel, Msg
  <2>6. QED
    BY <2>2, <2>5 DEF Before
<1>13. posted' \in [Sender -> Nat] /\ \A s \in Sender : posted[s] <= posted'[s]
  BY <1>4 DEF Basic
<1> HIDE DEF Inv, CellInv
<1>14. \A e \in Cell : \/ mq'[e] = mq[e]
                       \/ Queued(e) # <<>> /\ Queued(e)' = Tail(Queued(e))
  BY <1>5
<1>15. QED
  BY <1>4, <1>5, <1>7, <1>8, <1>9, <1>10, <1>11, <1>12, <1>13, <1>14, JoinStep

\* Deliver: an entity gets the first message of the ring.
LEMMA DeliverStep ==
  ASSUME Inv, NEW c \in Cell, Deliver(c)
  PROVE  Inv'
<1> USE DEF Inv, CellInv
<1> DEFINE msg == Popped(mq[c])
           q == Queued(c)
<1>1. /\ c \in on /\ RingSize(mq[c]) # 0 /\ msg.home
      /\ mq' = [mq EXCEPT ![c] = Pop(mq[c])]
      /\ got' = [got EXCEPT ![c] = Append(got[c], msg)]
      /\ UNCHANGED <<on, run, seg, open, fifo, posted>>
  BY DEF Deliver, Works
<1>2. /\ mq' \in [Cell -> Rings] /\ \A e \in Cell : e # c => mq'[e] = mq[e]
      /\ q # <<>> /\ Queued(c)' = Tail(q)
      /\ msg = Head(q) /\ msg \in Elems(q) /\ msg \in Msg
  BY <1>1, Takes
<1> HIDE DEF msg, q
<1>3. /\ q \in Seq(Msg) /\ Sorted(q) /\ got[c] \in Seq(Msg) /\ Sorted(got[c])
      /\ Under(got[c], q) /\ Under(got[c], fifo[c]) /\ Under(q, fifo[c])
  BY DEF q, Basic, Line
<1>4. /\ Tail(q) \in Seq(Msg) /\ Sorted(Tail(q)) /\ Elems(Tail(q)) \subseteq Elems(q)
      /\ \A y \in Elems(Tail(q)) : Before(msg, y)
  BY <1>2, <1>3, OneLess
<1>5. \A x \in Elems(got[c]) : Before(x, msg)
  BY <1>2, <1>3 DEF Under
<1>6. /\ got'[c] \in Seq(Msg) /\ Sorted(got'[c]) /\ Elems(got'[c]) = Elems(got[c]) \cup {msg}
  <2>1. got'[c] = Append(got[c], msg)
    BY <1>1 DEF Basic
  <2>2. QED
    BY <1>2, <1>3, <1>5, <2>1, OneMore
<1>7. Basic'
  <2>1. got' \in [Cell -> Seq(Msg)]
    BY <1>1, <1>6 DEF Basic
  <2>2. \A e \in Cell : Queued(e)' \in Seq(Msg)
    BY <1>2, <1>4 DEF Basic, Queued
  <2>3. QED
    BY <1>1, <1>2, <2>1, <2>2 DEF Basic
<1>8. HubKeeps
  <2>1. Elems(Queued(Hub))' \subseteq Elems(Queued(Hub))
    BY <1>2, <1>4, CellsAssumption DEF Queued, q
  <2>2. QED
    BY <2>1 DEF HubKeeps
<1>9. CellInv(c)'
  <2>1. Known(c)'
    <3>1. Letter(c, msg)
      BY <1>1, <1>2 DEF Known, Parcel, q
    <3>2. QED
      BY <1>1, <1>2, <1>4, <1>6, <3>1 DEF Known, Letter, Parcel, q
  <2>2. Living(c)'
    BY <1>1, <1>7 DEF Living, Basic
  <2>3. Line(c)'
    <3>1. Under(got'[c], Tail(q))
      BY <1>3, <1>4, <1>6 DEF Under
    <3>2. Under(got'[c], fifo[c]) /\ Under(Tail(q), fifo[c])
      BY <1>2, <1>3, <1>4, <1>6 DEF Under
    <3>3. QED
      BY <1>1, <1>2, <1>4, <1>6, <3>1, <3>2 DEF Line
  <2>4. ToCome(c)'
    <3>1. Held(c)' \subseteq Held(c)
      BY <1>1, <1>2, <1>4, <1>6 DEF Held, q
    <3>2. \A x \in Elems(Queued(Hub))' : x \in Msg
      BY <1>7, ElemsOf, CellsAssumption DEF Basic
    <3>3. QED
      BY <1>8, <3>1, <3>2, Older DEF ToCome
  <2>5. QED
    BY <2>1, <2>2, <2>3, <2>4
<1>10. ASSUME NEW e \in Cell, e # c
       PROVE  CellInv(e)'
  <2>1. /\ run'[e] = run[e] /\ seg'[e] = seg[e] /\ (e \in on)' = (e \in on)
        /\ fifo'[e] = fifo[e] /\ mq'[e] = mq[e] /\ got'[e] = got[e]
        /\ \A s \in Sender : posted[s] <= posted'[s]
    BY <1>1, <1>2, <1>10 DEF Basic
  <2>2. QED
    BY <1>7, <1>8, <2>1, CellSame, CellsAssumption DEF Basic
<1>11. QED
  BY <1>7, <1>9, <1>10

Brings(b, ds) == b = [i \in DOMAIN ds |-> Message("far", posted["far"] + i, ds[i])]

\* What a turn brings to the hub: parcels, later than all that came before.
LEMMA NewsIs ==
  ASSUME Inv, NEW c \in Cell, NEW ds \in News(c), NEW b, Brings(b, ds),
         posted' = [posted EXCEPT !["far"] = posted["far"] + Len(ds)]
  PROVE  /\ b \in Seq(Msg) /\ Sorted(b) /\ (c # Hub => b = <<>>)
         /\ \A x \in Elems(b) : Parcel(x)' /\ posted["far"] < x.n /\ x \in Msg
         /\ posted' \in [Sender -> Nat] /\ \A s \in Sender : posted[s] <= posted'[s]
<1>1. \E k \in 0 .. 2 : ds \in [1 .. k -> Cell] /\ (c # Hub => k = 0)
  <2>1. CASE c = Hub
    BY <2>1 DEF News
  <2>2. CASE c # Hub
    <3>1. ds = <<>>
      BY <2>2 DEF News
    <3>2. QED
      BY <3>1, <2>2
  <2>3. QED
    BY <2>1, <2>2
<1>2. PICK k \in 0 .. 2 : ds \in [1 .. k -> Cell] /\ (c # Hub => k = 0)
  BY <1>1
<1>3. DOMAIN ds = 1 .. k /\ Len(ds) = k /\ \A i \in 1 .. k : ds[i] \in Cell
  BY <1>2
<1>4. PICK first \in Nat : first = posted["far"] /\ "far" \in Sender
  BY DEF Inv, Basic, Sender
<1>5. \A i \in 1 .. k : /\ b[i] \in Msg /\ b[i].from = "far" /\ b[i].n = first + i
                        /\ ~b[i].home /\ b[i].to \in Cell
  <2> TAKE i \in 1 .. k
  <2>1. b[i] = Message("far", first + i, ds[i])
    BY <1>3, <1>4 DEF Brings
  <2>2. PICK d \in Cell : d = ds[i]
    BY <1>3
  <2>3. run[d] \in Nat /\ d \in Sender
    BY DEF Inv, Basic, Sender
  <2>4. first + i \in Nat
    OBVIOUS
  <2>5. b[i] = [from |-> "far", to |-> d, n |-> first + i, era |-> run[d], home |-> FALSE]
    BY <2>1, <2>2 DEF Message
  <2>6. b[i] \in Msg
    <3>1. [from |-> "far", to |-> d, n |-> first + i, era |-> run[d], home |-> FALSE] \in Msg
      BY <1>4, <2>3, <2>4 DEF Msg
    <3>2. QED
      BY <2>5, <3>1
  <2>7. QED
    BY <2>5, <2>6
<1>6. b \in [1 .. k -> Msg] /\ DOMAIN b = 1 .. k
  BY <1>3, <1>5 DEF Brings
<1>7. b \in Seq(Msg) /\ Len(b) = k
  BY <1>6
<1>8. Sorted(b)
  BY <1>5, <1>7 DEF Sorted, Before
<1>9. posted' \in [Sender -> Nat] /\ posted'["far"] = first + k
  <2>1. posted \in [Sender -> Nat] /\ first + k \in Nat
    BY DEF Inv, Basic
  <2>2. QED
    BY <1>3, <1>4, <2>1
<1>10. \A s \in Sender : posted[s] <= posted'[s]
  <2> TAKE s \in Sender
  <2>1. posted[s] \in Nat /\ (s # "far" => posted'[s] = posted[s])
    BY DEF Inv, Basic
  <2>2. QED
    BY <1>4, <1>9, <2>1
<1>11. ASSUME NEW x \in Elems(b)
       PROVE  Parcel(x)' /\ posted["far"] < x.n /\ x \in Msg
  <2>1. PICK i \in 1 .. k : x = b[i]
    BY <1>7 DEF Elems
  <2>2. x.n = first + i
    BY <1>5, <2>1
  <2>3. x.n <= posted'["far"] /\ first < x.n
    BY <1>9, <2>2
  <2>4. QED
    BY <1>4, <1>5, <2>1, <2>3 DEF Parcel
<1>12. c # Hub => b = <<>>
  BY <1>2, <1>7
<1>13. QED
  BY <1>7, <1>8, <1>9, <1>10, <1>11, <1>12

\* A package is taken out of the channel.
LEMMA TakenIs ==
  ASSUME NEW f \in Seq(Msg), Sorted(f), NEW t, t = IF f = <<>> THEN <<>> ELSE <<Head(f)>>,
         NEW g, g = IF f = <<>> THEN f ELSE Tail(f)
  PROVE  /\ t \in Seq(Msg) /\ Sorted(t) /\ Elems(t) \subseteq Elems(f)
         /\ g \in Seq(Msg) /\ Sorted(g) /\ Elems(g) \subseteq Elems(f) /\ Len(g) <= Len(f)
         /\ Under(t, g)
<1>1. CASE f = <<>>
  BY <1>1, Nothing DEF Under
<1>2. CASE f # <<>>
  <2>1. /\ Head(f) \in Msg /\ g \in Seq(Msg) /\ Len(g) <= Len(f) /\ Sorted(g)
        /\ Head(f) \in Elems(f) /\ Elems(g) \subseteq Elems(f)
        /\ \A y \in Elems(g) : Before(Head(f), y)
    BY <1>2, OneLess
  <2>2. t \in Seq(Msg) /\ Len(t) = 1 /\ t[1] = Head(f)
    BY <1>2, <2>1
  <2>3. Elems(t) = {Head(f)}
    BY <2>2 DEF Elems
  <2>4. Sorted(t)
    BY <2>2 DEF Sorted
  <2>5. QED
    BY <2>1, <2>2, <2>3, <2>4 DEF Under
<1>3. QED
  BY <1>1, <1>2

\* One after the other, when nothing of the second came the same way as the first.
LEMMA Joined ==
  ASSUME NEW s \in Seq(Msg), NEW t \in Seq(Msg), Sorted(s), Sorted(t), Under(s, t)
  PROVE  s \o t \in Seq(Msg) /\ Elems(s \o t) = Elems(s) \cup Elems(t) /\ Sorted(s \o t)
<1>1. PICK m \in Nat, n \in Nat : m = Len(s) /\ n = Len(t)
  OBVIOUS
<1>2. PICK w : w = s \o t
  OBVIOUS
<1>3. /\ w \in Seq(Msg) /\ Len(w) = m + n
      /\ \A i \in 1 .. m + n : w[i] = IF i <= m THEN s[i] ELSE t[i - m]
  BY <1>1, <1>2, ConcatProperties
<1>4. /\ \A i \in 1 .. m : i \in 1 .. m + n /\ w[i] = s[i]
      /\ \A i \in 1 .. n : i + m \in 1 .. m + n /\ w[i + m] = t[i]
      /\ \A i \in 1 .. m + n : \/ i \in 1 .. m /\ w[i] = s[i]
                               \/ i - m \in 1 .. n /\ i > m /\ w[i] = t[i - m]
  BY <1>3
<1>5. Elems(w) = Elems(s) \cup Elems(t)
  <2>1. Elems(w) = {w[i] : i \in 1 .. m + n}
    BY <1>3 DEF Elems
  <2>2. Elems(s) = {s[i] : i \in 1 .. m} /\ Elems(t) = {t[i] : i \in 1 .. n}
    BY <1>1 DEF Elems
  <2>3. Elems(w) \subseteq Elems(s) \cup Elems(t)
    BY <1>4, <2>1, <2>2
  <2>4. Elems(s) \subseteq Elems(w)
    BY <1>4, <2>1, <2>2
  <2>5. ASSUME NEW i \in 1 .. n
        PROVE  t[i] \in Elems(w)
    <3>1. i + m \in 1 .. m + n /\ w[i + m] = t[i]
      BY <1>4
    <3>2. QED
      BY <2>1, <3>1
  <2>6. QED
    BY <2>2, <2>3, <2>4, <2>5
<1>6. Sorted(w)
  <2> SUFFICES ASSUME NEW i \in 1 .. m + n, NEW j \in 1 .. m + n, i < j
               PROVE  Before(w[i], w[j])
    BY <1>3 DEF Sorted
  <2>1. CASE i \in 1 .. m /\ j \in 1 .. m
    BY <1>1, <1>4, <2>1 DEF Sorted
  <2>2. CASE i \in 1 .. m /\ j \notin 1 .. m
    <3>1. j - m \in 1 .. n /\ w[j] = t[j - m]
      BY <1>4, <2>2
    <3>2. w[i] \in Elems(s) /\ w[j] \in Elems(t)
      BY <1>1, <1>4, <2>2, <3>1 DEF Elems
    <3>3. QED
      BY <3>2 DEF Under
  <2>3. CASE i \notin 1 .. m
    <3>1. i - m \in 1 .. n /\ w[i] = t[i - m] /\ i > m
      BY <1>4, <2>3
    <3>2. j - m \in 1 .. n /\ w[j] = t[j - m]
      BY <1>4, <3>1
    <3>3. i - m < j - m
      OBVIOUS
    <3>4. QED
      BY <1>1, <3>1, <3>2, <3>3 DEF Sorted
  <2>4. QED
    BY <2>1, <2>2, <2>3
<1>7. QED
  BY <1>2, <1>3, <1>5, <1>6

LEMMA TurnStep ==
  ASSUME Inv, NEW c \in Cell, Turn(c)
  PROVE  Inv'
<1> USE DEF Inv, CellInv
<1>1. PICK ds, b, t, g, q :
        /\ ds \in News(c)
        /\ Brings(b, ds)
        /\ t = IF fifo[c] = <<>> THEN <<>> ELSE <<Head(fifo[c])>>
        /\ g = IF fifo[c] = <<>> THEN fifo[c] ELSE Tail(fifo[c])
        /\ q = t \o b
        /\ mq' = [mq EXCEPT ![c] = Pushed(mq[c], q)]
        /\ posted' = [posted EXCEPT !["far"] = posted["far"] + Len(ds)]
        /\ fifo' = [fifo EXCEPT ![c] = g]
  <2>1. PICK ds \in News(c) :
          LET b == [i \in DOMAIN ds |-> Message("far", posted["far"] + i, ds[i])]
              t == IF fifo[c] = <<>> THEN <<>> ELSE <<Head(fifo[c])>>
          IN /\ mq' = [mq EXCEPT ![c] = Pushed(mq[c], t \o b)]
             /\ posted' = [posted EXCEPT !["far"] = posted["far"] + Len(ds)]
             /\ fifo' = [fifo EXCEPT ![c] = IF fifo[c] = <<>> THEN fifo[c] ELSE Tail(fifo[c])]
    BY Zenon DEF Turn
  <2>2. QED
    BY <2>1 DEF Brings
<1>2. c \in on /\ RingSize(mq[c]) = 0 /\ UNCHANGED <<on, run, seg, open, got>>
  BY DEF Turn, Works
<1>3. /\ b \in Seq(Msg) /\ Sorted(b) /\ (c # Hub => b = <<>>)
      /\ \A x \in Elems(b) : Parcel(x)' /\ posted["far"] < x.n /\ x \in Msg
      /\ posted' \in [Sender -> Nat] /\ \A s \in Sender : posted[s] <= posted'[s]
  BY <1>1, NewsIs
<1>4. fifo[c] \in Seq(Msg) /\ Sorted(fifo[c]) /\ Under(got[c], fifo[c])
  BY DEF Basic, Line
<1>5. /\ t \in Seq(Msg) /\ Sorted(t) /\ Elems(t) \subseteq Elems(fifo[c])
      /\ g \in Seq(Msg) /\ Sorted(g) /\ Elems(g) \subseteq Elems(fifo[c])
      /\ Len(g) <= Len(fifo[c]) /\ Under(t, g)
  BY <1>1, <1>4, TakenIs
<1>6. \A m \in Msg : (Letter(c, m) => Letter(c, m)') /\ (Parcel(m) => Parcel(m)')
  BY <1>2, <1>3, Lasting
<1>7. \A x \in Elems(fifo[c]) : Letter(c, x) /\ Letter(c, x)' /\ x.home /\ x \in Msg
  BY <1>4, <1>6, ElemsOf DEF Known, Letter
<1>8. \A x \in Elems(got[c]) : Letter(c, x)' /\ x.home /\ x \in Msg
  <2>1. got[c] \in Seq(Msg)
    BY DEF Basic
  <2>2. QED
    BY <1>6, <2>1, ElemsOf DEF Known, Letter
<1>9. \A x \in Elems(b) : ~x.home
  BY <1>3 DEF Parcel
<1>10. q \in Seq(Msg) /\ Elems(q) = Elems(t) \cup Elems(b) /\ Sorted(q)
  <2>1. Under(t, b)
    BY <1>5, <1>7, <1>9 DEF Under, Before
  <2>2. QED
    BY <1>1, <1>3, <1>5, <2>1, Joined
<1>11. /\ mq' \in [Cell -> Rings] /\ Queued(c)' = q
       /\ \A e \in Cell : e # c => mq'[e] = mq[e]
  <2>1. mq[c] \in Rings /\ Items(mq[c]) = <<>>
    BY <1>2, RingIs DEF Basic
  <2>2. Pushed(mq[c], q) \in Rings /\ Items(Pushed(mq[c], q)) = q
    BY <1>10, <2>1, PushedIs
  <2>3. mq'[c] = Pushed(mq[c], q)
    BY <1>1 DEF Basic
  <2>4. QED
    BY <1>1, <2>2, <2>3 DEF Queued, Basic
<1>12. /\ fifo' \in [Cell -> Seq(Msg)] /\ fifo'[c] = g
       /\ \A e \in Cell : Len(fifo'[e]) <= Cap /\ (e # c => fifo'[e] = fifo[e])
  <2>1. fifo \in [Cell -> Seq(Msg)] /\ \A e \in Cell : Len(fifo[e]) <= Cap
    BY DEF Basic
  <2>2. Len(g) <= Cap
    <3>1. Len(g) \in Nat /\ Len(fifo[c]) \in Nat /\ Cap \in Nat /\ Len(fifo[c]) <= Cap
      BY <1>4, <1>5, <2>1, CellsAssumption
    <3>2. QED
      BY <1>5, <3>1
  <2>3. QED
    BY <1>1, <1>5, <2>1, <2>2
<1>13. Basic'
  <2>1. \A e \in Cell : Queued(e)' \in Seq(Msg)
    BY <1>10, <1>11 DEF Basic, Queued
  <2>2. QED
    BY <1>2, <1>3, <1>11, <1>12, <2>1 DEF Basic
<1>14. HubKeeps
  <2>1. CASE c = Hub
    BY <1>3, <1>5, <1>7, <1>10, <1>11, <2>1 DEF HubKeeps
  <2>2. CASE c # Hub
    <3>1. mq'[Hub] = mq[Hub]
      BY <1>11, <2>2, CellsAssumption
    <3>2. QED
      BY <3>1, HubSame
  <2>3. QED
    BY <2>1, <2>2
<1>15. CellInv(c)'
  <2>1. Known(c)'
    <3>1. \A x \in Elems(q) : Letter(c, x)' \/ (c = Hub /\ Parcel(x)')
      BY <1>3, <1>5, <1>7, <1>10, Nothing
    <3>2. QED
      BY <1>2, <1>5, <1>7, <1>8, <1>11, <1>12, <3>1 DEF Known
  <2>2. Living(c)'
    <3>1. seg[c] # 0
      BY <1>2 DEF Living
    <3>2. QED
      BY <1>2, <3>1 DEF Living
  <2>3. Line(c)'
    <3>1. Under(got[c], q)
      BY <1>4, <1>5, <1>8, <1>9, <1>10 DEF Under, Before
    <3>2. Under(got[c], g)
      BY <1>4, <1>5 DEF Under
    <3>3. Under(q, g)
      BY <1>5, <1>7, <1>9, <1>10 DEF Under, Before
    <3>4. QED
      BY <1>2, <1>5, <1>10, <1>11, <1>12, <3>1, <3>2, <3>3 DEF Line
  <2>4. ToCome(c)'
    <3>1. \A y \in Held(c)' : y.home => y \in Held(c)
      BY <1>2, <1>5, <1>9, <1>10, <1>11, <1>12 DEF Held
    <3>2. \A x \in Elems(Queued(Hub))' : x \in Msg
      BY <1>13, ElemsOf, CellsAssumption DEF Basic
    <3>3. QED
      BY <1>14, <3>1, <3>2, Older DEF ToCome
  <2>5. QED
    BY <2>1, <2>2, <2>3, <2>4
<1>16. ASSUME NEW e \in Cell, e # c
       PROVE  CellInv(e)'
  <2>1. /\ run'[e] = run[e] /\ seg'[e] = seg[e] /\ (e \in on)' = (e \in on)
        /\ fifo'[e] = fifo[e] /\ mq'[e] = mq[e] /\ got'[e] = got[e]
    BY <1>2, <1>11, <1>12, <1>16
  <2>2. QED
    BY <1>3, <1>13, <1>14, <2>1, CellSame, CellsAssumption DEF Basic
<1>17. QED
  BY <1>13, <1>15, <1>16

-----------------------------------------------------------------------------
(* The invariant is inductive.                                             *)

\* Nothing was posted yet.
LEMMA InitInv == Init => Inv
<1> SUFFICES ASSUME Init
             PROVE  Inv
  OBVIOUS
<1>1. Basic
  <2>1. posted \in [Sender -> Nat] /\ on \subseteq Cell
    BY DEF Init
  <2>2. /\ run \in [Cell -> 0 .. MaxRun] /\ seg \in [Cell -> 0 .. MaxRun]
        /\ open \in [Cell -> [Cell -> 0 .. MaxRun]]
    BY Bare DEF Init
  <2>3. /\ fifo \in [Cell -> Seq(Msg)] /\ got \in [Cell -> Seq(Msg)]
        /\ \A c \in Cell : Len(fifo[c]) <= Cap
    BY Bare DEF Init
  <2>4. mq \in [Cell -> Rings] /\ \A c \in Cell : Queued(c) \in Seq(Msg)
    BY NewRingIs, Bare DEF Init, Queued
  <2>5. QED
    BY <2>1, <2>2, <2>3, <2>4 DEF Basic
<1>2. ASSUME NEW c \in Cell
      PROVE  CellInv(c)
  <2>1. /\ on = {} /\ seg[c] = 0 /\ fifo[c] = <<>> /\ got[c] = <<>> /\ Queued(c) = <<>>
        /\ Queued(Hub) = <<>>
    BY NewRingIs, CellsAssumption DEF Init, Queued
  <2>2. Elems(fifo[c]) = {} /\ Elems(got[c]) = {} /\ Elems(Queued(c)) = {} /\ Elems(Queued(Hub)) = {}
    BY <2>1, Nothing
  <2>3. Living(c)
    BY <2>1 DEF Living
  <2>4. Known(c) /\ ToCome(c)
    BY <2>2 DEF Known, ToCome
  <2>5. Line(c)
    BY <2>1, <2>2, Nothing DEF Line, Under
  <2>6. QED
    BY <2>3, <2>4, <2>5 DEF CellInv
<1>3. QED
  BY <1>1, <1>2 DEF Inv

\* A step that changes no more than who spins: TurnSpins, and the failed starts.
LEMMA Stutter ==
  ASSUME Inv, UNCHANGED <<on, run, seg, open, fifo, mq, posted, got>>
  PROVE  Inv'
<1> USE DEF Inv
<1>1. Basic'
  BY DEF Basic, Queued
<1>2. \A c \in Cell : CellInv(c)'
  BY DEF CellInv, Living, Known, Line, ToCome, Letter, Parcel, Held, Queued
<1>3. QED
  BY <1>1, <1>2

LEMMA NextInv == Inv /\ [Next]_vars => Inv'
<1> SUFFICES ASSUME Inv, [Next]_vars
             PROVE  Inv'
  OBVIOUS
<1>1. CASE UNCHANGED vars
  BY <1>1, Stutter DEF vars
<1>2. ASSUME NEW c \in Cell, Start(c) \/ StartFails(c)
      PROVE  Inv'
  BY <1>2, StartStep
<1>3. ASSUME NEW c \in Cell, StartRefused(c) \/ LoadFails(c) \/ TurnSpins(c)
      PROVE  Inv'
  BY <1>3, Stutter DEF StartRefused, LoadFails, TurnSpins, vars
<1>4. ASSUME NEW c \in Cell, Exit(c) \/ Crash(c)
      PROVE  Inv'
  BY <1>4, EndStep
<1>5. ASSUME NEW c \in Cell, Cleared(c)
      PROVE  Inv'
  BY <1>5, ClearedStep
<1>6. ASSUME NEW c \in Cell, NEW d \in Sender, Post(c, d)
      PROVE  Inv'
  BY <1>6, PostStep
<1>7. ASSUME NEW c \in Cell, Turn(c)
      PROVE  Inv'
  BY <1>7, TurnStep
<1>8. ASSUME NEW c \in Cell, PassOn(c)
      PROVE  Inv'
  BY <1>8, PassOnStep
<1>9. ASSUME NEW c \in Cell, Deliver(c)
      PROVE  Inv'
  BY <1>9, DeliverStep
<1>10. QED
  BY <1>1, <1>2, <1>3, <1>4, <1>5, <1>6, <1>7, <1>8, <1>9 DEF Next

-----------------------------------------------------------------------------
(* The locks that dead cells hold, and the cells that spin on one.         *)

Locks == jammed \subseteq Cell \X (1 .. MaxRun) /\ spins \subseteq on

\* The segment that a cell puts into is one of d's runs, or there is none.
LEMMA TargetIs ==
  ASSUME Inv, NEW c \in Cell, NEW d \in Cell
  PROVE  Target(c, d) \in 0 .. MaxRun
BY DEF Target, OpenNow, Inv, Basic

\* Who dies with a lock taken leaves it so, and who comes to it runs and spins.
LEMMA LocksStep ==
  ASSUME Inv, Locks, [Next]_vars
  PROVE  Locks'
<1> USE DEF Locks
<1>1. CASE UNCHANGED vars
  BY <1>1 DEF vars
<1>2. ASSUME NEW c \in Cell, \/ Start(c) \/ StartFails(c) \/ StartRefused(c)
                             \/ LoadFails(c) \/ Cleared(c) \/ Turn(c) \/ Deliver(c)
      PROVE  Locks'
  BY <1>2 DEF Start, StartFails, StartRefused, LoadFails, Cleared, Turn, Deliver, vars
<1>3. ASSUME NEW c \in Cell, Exit(c)
      PROVE  Locks'
  BY <1>3 DEF Exit, Ends
<1>4. ASSUME NEW c \in Cell, Crash(c)
      PROVE  Locks'
  <2>1. spins' \subseteq on'
    BY <1>4 DEF Crash, Ends
  <2>2. CASE jammed' = jammed
    BY <2>1, <2>2
  <2>3. CASE jammed' # jammed
    <3>1. PICK d \in Cell : /\ Target(c, d) # 0
                            /\ jammed' = jammed \cup {<<d, Target(c, d)>>}
      BY <1>4, <2>3 DEF Crash, Enters
    <3>2. Target(c, d) \in 0 .. MaxRun
      BY TargetIs
    <3>3. Target(c, d) \in 1 .. MaxRun
      BY <3>1, <3>2, CellsAssumption
    <3>4. QED
      BY <2>1, <3>1, <3>3
  <2>4. QED
    BY <2>2, <2>3
<1>5. ASSUME NEW c \in Cell, TurnSpins(c)
      PROVE  Locks'
  BY <1>5 DEF TurnSpins, Works
<1>6. ASSUME NEW c \in Cell, NEW d \in Sender, Post(c, d)
      PROVE  Locks'
  BY <1>6 DEF Post, Put, Works
<1>7. ASSUME NEW c \in Cell, PassOn(c)
      PROVE  Locks'
  BY <1>7 DEF PassOn, Put, Works
<1>8. QED
  BY <1>1, <1>2, <1>3, <1>4, <1>5, <1>6, <1>7 DEF Next

-----------------------------------------------------------------------------
(* The theorems.                                                           *)

\* The inductive invariant holds, whatever the dead did to the locks.
THEOREM Invariant == Spec => [](Inv /\ Locks)
<1>1. Init => Inv /\ Locks
  BY InitInv DEF Init, Locks
<1>2. Inv /\ Locks /\ [Next]_vars => (Inv /\ Locks)'
  BY NextInv, LocksStep
<1>3. QED
  BY <1>1, <1>2, PTL DEF Spec

\* Whatever the rings went through, the types hold.
LEMMA InvTypes == Inv /\ Locks => TypeOK
<1> SUFFICES ASSUME Inv, Locks
             PROVE  TypeOK
  OBVIOUS
<1> USE DEF Inv, Basic
<1>1. ASSUME NEW c \in Cell
      PROVE  \A i \in DOMAIN fifo[c] : fifo[c][i] \in Msg
  <2>1. fifo[c] \in Seq(Msg)
    OBVIOUS
  <2>2. QED
    BY <2>1
<1>2. ASSUME NEW c \in Cell
      PROVE  /\ mq[c].head \in 0 .. mq[c].cap - 1 /\ mq[c].tail \in 0 .. mq[c].cap - 1
             /\ \A i \in DOMAIN Items(mq[c]) : Items(mq[c])[i] \in Msg
  <2>1. mq[c] \in Rings /\ Items(mq[c]) \in Seq(Msg)
    BY DEF Queued
  <2>2. \A i \in DOMAIN Items(mq[c]) : Items(mq[c])[i] \in Msg
    BY <2>1
  <2>3. QED
    BY <2>1, <2>2, RingIs
<1>3. \A c \in Cell : c \in on => seg[c] # 0
  BY DEF CellInv, Living
<1>4. QED
  BY <1>1, <1>2, <1>3 DEF TypeOK, Locks

\* What an entity got.
LEMMA InvGot ==
  ASSUME Inv, NEW c \in Cell
  PROVE  /\ Sorted(got[c]) /\ \A i \in DOMAIN got[c] : Letter(c, got[c][i])
         /\ DOMAIN got[c] = 1 .. Len(got[c])
<1>1. got[c] \in Seq(Msg) /\ DOMAIN got[c] = 1 .. Len(got[c])
  BY DEF Inv, Basic
<1>2. QED
  BY <1>1 DEF Inv, CellInv, Line, Known, Elems

\* The state keeps its types: a channel never holds more than fits, a ring is one
\* that jetnet_mq.c could have left, and a running cell has its channel.
THEOREM CellTypes == Spec => []TypeOK
BY Invariant, InvTypes, PTL

\* jetnet_cns_put_msg_var to entity: messages are lost, but what a run of a cell
\* gets of one sender is in the order of posting, and never comes twice, also
\* through the hub.
THEOREM OrderOfPosting == Spec => []InOrder
<1>1. Inv => InOrder
  <2> SUFFICES ASSUME Inv, NEW c \in Cell, NEW i \in DOMAIN got[c], NEW j \in DOMAIN got[c],
                      i < j, got[c][i].from = got[c][j].from
               PROVE  got[c][i].n < got[c][j].n
    BY DEF InOrder
  <2>1. Before(got[c][i], got[c][j])
    BY InvGot DEF Sorted
  <2>2. got[c][i].home = TRUE /\ got[c][j].home = TRUE
    <3>1. got[c][i] \in Msg /\ got[c][j] \in Msg
      BY DEF Inv, Basic
    <3>2. got[c][i].home /\ got[c][j].home
      BY InvGot DEF Letter
    <3>3. QED
      BY <3>1, <3>2 DEF Msg
  <2>3. QED
    BY <2>1, <2>2 DEF Before
<1>2. QED
  BY <1>1, Invariant, PTL

\* jetnet_shm_create with IPC_EXCL: a cell that was started again gets nothing
\* that was posted to an earlier run of it.
THEOREM NothingStale == Spec => []FreshStart
<1>1. Inv => FreshStart
  BY InvGot DEF FreshStart, Letter
<1>2. QED
  BY <1>1, Invariant, PTL
=============================================================================
