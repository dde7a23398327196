---------------------------- MODULE TimerProofs ----------------------------
(***************************************************************************)
(* Proofs about Timer: the heap operations keep the heap's items and order *)
(* them, the invariant Inv is inductive, and every step is a step of the   *)
(* module Alarms.                                                          *)
(***************************************************************************)
EXTENDS Timer, SequenceTheorems, WellFoundedInduction, TLAPS

-----------------------------------------------------------------------------
(* Loops.                                                                  *)

\* Induction, for the numbers of a set.
LEMMA Ascends ==
  ASSUME NEW n \in Nat, NEW T, 0 \in T, \A i \in 0 .. n - 1 : i \in T => i + 1 \in T
  PROVE  \A i \in 0 .. n : i \in T
<1> DEFINE Bad == {i \in 0 .. n : i \notin T}
           R == OpToRel(<, Nat)
<1>1. ASSUME Bad # {}
      PROVE  FALSE
  <2>1. IsWellFoundedOn(R, Nat)
    BY NatLessThanWellFounded
  <2>2. \A x, y \in Nat : y < x => <<y, x>> \in R
    BY DEF OpToRel
  <2>3. Bad \in SUBSET Nat
    OBVIOUS
  <2> HIDE DEF R, Bad
  <2>4. PICK m \in Bad : \A i \in Bad : ~ (<<i, m>> \in R)
    BY <1>1, <2>1, <2>3, WFMin
  <2>5. m \in 0 .. n /\ m # 0
    BY <2>4 DEF Bad
  <2>6. m - 1 \in 0 .. n - 1 /\ m - 1 \in Nat /\ m \in Nat /\ m - 1 < m
    BY <2>5
  <2>7. m - 1 \notin Bad
    BY <2>2, <2>4, <2>6
  <2>8. m - 1 \in T
    BY <2>6, <2>7 DEF Bad
  <2>9. m \in T
    BY <2>5, <2>6, <2>8
  <2>10. QED
    BY <2>4, <2>9 DEF Bad
<1>2. QED
  BY <1>1

\* The states after 0 .. n rounds of a loop, F, that starts in s.
Rounds(p, n, s, F) == p = [k \in 0 .. n |-> IF k = 0 THEN s ELSE F[p[k - 1]]]

\* There are such states.
LEMMA LoopRuns ==
  ASSUME NEW n \in Nat, NEW S, NEW s \in S, NEW F \in [S -> S]
  PROVE  \E p \in [0 .. n -> S] : Rounds(p, n, s, F)
<1> DEFINE T == {m \in 0 .. n : \E p \in [0 .. m -> S] : Rounds(p, m, s, F)}
<1>1. 0 \in T
  <2> DEFINE p == [k \in 0 .. 0 |-> s]
  <2>1. p \in [0 .. 0 -> S] /\ p = [k \in 0 .. 0 |-> IF k = 0 THEN s ELSE F[p[k - 1]]]
    OBVIOUS
  <2> HIDE DEF p
  <2>2. QED
    BY <2>1 DEF Rounds
<1>2. ASSUME NEW m \in 0 .. n - 1, m \in T
      PROVE  m + 1 \in T
  <2>1. PICK p \in [0 .. m -> S] : Rounds(p, m, s, F)
    BY <1>2
  <2>2. \A k \in 0 .. m : p[k] = IF k = 0 THEN s ELSE F[p[k - 1]]
    BY <2>1 DEF Rounds
  <2> DEFINE g == [k \in 0 .. m + 1 |-> IF k = m + 1 THEN F[p[m]] ELSE p[k]]
  <2>3. m \in 0 .. m /\ \A k \in 0 .. m + 1 : k = m + 1 \/ k \in 0 .. m
    OBVIOUS
  <2>4. g \in [0 .. m + 1 -> S]
    BY <2>3
  <2>5. \A k \in 0 .. m + 1 : g[k] = IF k = 0 THEN s ELSE F[g[k - 1]]
    <3> TAKE k \in 0 .. m + 1
    <3>1. CASE k = m + 1
      <4>1. g[k] = F[p[m]] /\ g[k - 1] = p[m] /\ k # 0
        BY <3>1
      <4>2. QED
        BY <4>1
    <3>2. CASE k # m + 1
      <4>1. k \in 0 .. m /\ g[k] = p[k]
        BY <2>3, <3>2
      <4>2. k # 0 => k - 1 \in 0 .. m /\ g[k - 1] = p[k - 1]
        BY <3>2
      <4>3. QED
        BY <2>2, <4>1, <4>2
    <3>3. QED
      BY <3>1, <3>2
  <2> HIDE DEF g
  <2>6. Rounds(g, m + 1, s, F)
    BY <2>4, <2>5 DEF Rounds
  <2>7. QED
    BY <2>4, <2>6
<1>3. \A m \in 0 .. n : m \in T
  <2> HIDE DEF T
  <2>1. QED
    BY <1>1, <1>2, Ascends
<1>4. QED
  BY <1>3

-----------------------------------------------------------------------------
(* Sequences of different items.                                           *)

Items(h) == {h[i] : i \in 1 .. Len(h)}
Distinct(h) == \A i, j \in 1 .. Len(h) : h[i] = h[j] => i = j

LEMMA AsRange ==
  ASSUME NEW h \in Seq(Item)
  PROVE  Range(h) = Items(h) /\ (IsInjective(h) <=> Distinct(h)) /\ Items(h) \subseteq Item
  BY DEF Range, Items, IsInjective, Distinct

\* n different items of the set R, all of them if there are n.
Holding(n, R) == {h \in Seq(Item) : Len(h) = n /\ Distinct(h) /\ Items(h) = R}

\* Sequence or function g is h but for what is at i and j, which change places.
Exchanged(g, h, n, i, j) ==
  /\ g[i] = h[j] /\ g[j] = h[i]
  /\ \A k \in 1 .. n : k # i /\ k # j => g[k] = h[k]

\* They are the same as far as n.
Agree(g, h, n) == \A k \in 1 .. n : g[k] = h[k]

LEMMA SwapIs ==
  ASSUME NEW n \in Nat, NEW R, NEW h \in Holding(n, R), NEW i \in 1 .. n, NEW j \in 1 .. n,
         i # j
  PROVE  Swapped(h, i, j) \in Holding(n, R) /\ Exchanged(Swapped(h, i, j), h, n, i, j)
<1>1. PICK g : g = Swapped(h, i, j)
  OBVIOUS
<1>2. h \in Seq(Item) /\ h \in [1 .. n -> Item] /\ Len(h) = n
  BY DEF Holding
<1>3. /\ g \in [1 .. n -> Item]
      /\ g[i] = h[j] /\ g[j] = h[i]
      /\ \A k \in 1 .. n : k # i /\ k # j => g[k] = h[k]
  BY <1>1, <1>2 DEF Swapped
<1>4. g \in Seq(Item) /\ Len(g) = n
  BY <1>3
<1>5. Distinct(g)
  BY <1>2, <1>3, <1>4 DEF Holding, Distinct
<1>6. Items(g) = Items(h)
  <2>1. Items(g) = {g[k] : k \in 1 .. n} /\ Items(h) = {h[k] : k \in 1 .. n}
    BY <1>2, <1>4 DEF Items
  <2>2. \A k \in 1 .. n : g[k] \in Items(h)
    BY <1>3, <2>1
  <2>3. \A k \in 1 .. n : h[k] \in Items(g)
    BY <1>3, <2>1
  <2>4. QED
    BY <2>1, <2>2, <2>3
<1>7. QED
  BY <1>1, <1>3, <1>4, <1>5, <1>6 DEF Holding, Exchanged

LEMMA AppendIs ==
  ASSUME NEW n \in Nat, NEW R, NEW h \in Holding(n, R), NEW a \in Item, a \notin R
  PROVE  /\ Append(h, a) \in Holding(n + 1, R \cup {a})
         /\ Agree(Append(h, a), h, n)
         /\ Append(h, a)[n + 1] = a
<1>1. PICK g : g = Append(h, a)
  OBVIOUS
<1>2. h \in Seq(Item) /\ Len(h) = n /\ Items(h) = {h[k] : k \in 1 .. n}
  BY DEF Holding, Items
<1>3. g \in Seq(Item) /\ Len(g) = n + 1 /\ g[n + 1] = a /\ \A k \in 1 .. n : g[k] = h[k]
  BY <1>1, <1>2
<1>4. /\ \A k \in 1 .. n + 1 : k \in 1 .. n \/ k = n + 1
      /\ \A k \in 1 .. n : k \in 1 .. n + 1
      /\ n + 1 \in 1 .. n + 1
  OBVIOUS
<1>5. Items(g) = {g[k] : k \in 1 .. n + 1}
  BY <1>3 DEF Items
<1>6. Items(g) = Items(h) \cup {a}
  BY <1>2, <1>3, <1>4, <1>5
<1>7. \A k \in 1 .. n : h[k] # a
  BY <1>2 DEF Holding
<1>8. Distinct(g)
  BY <1>2, <1>3, <1>4, <1>7 DEF Holding, Distinct
<1>9. QED
  BY <1>1, <1>3, <1>6, <1>8 DEF Holding, Agree

LEMMA FrontIs ==
  ASSUME NEW n \in Nat, NEW R, NEW h \in Holding(n + 1, R)
  PROVE  /\ Last(h) = h[n + 1] /\ Last(h) \in R
         /\ Front(h) \in Holding(n, R \ {Last(h)})
         /\ Agree(Front(h), h, n)
<1>1. PICK g : g = Front(h)
  OBVIOUS
<1>2. h \in Seq(Item) /\ Len(h) = n + 1 /\ Items(h) = {h[k] : k \in 1 .. n + 1} /\ Items(h) = R
  BY DEF Holding, Items
<1>3. Len(h) - 1 = n
  BY <1>2
<1>4. g \in Seq(Item) /\ Len(g) = n /\ \A k \in 1 .. n : g[k] = h[k]
  BY <1>1, <1>2, <1>3 DEF Front
<1>5. /\ \A k \in 1 .. n + 1 : k \in 1 .. n \/ k = n + 1
      /\ \A k \in 1 .. n : k \in 1 .. n + 1 /\ k # n + 1
      /\ n + 1 \in 1 .. n + 1
  OBVIOUS
<1>6. Last(h) = h[n + 1]
  BY <1>2 DEF Last
<1>7. \A k \in 1 .. n : h[k] # h[n + 1]
  BY <1>2, <1>5 DEF Holding, Distinct
<1>8. Items(g) = {g[k] : k \in 1 .. n}
  BY <1>4 DEF Items
<1>9. Items(g) = R \ {h[n + 1]}
  BY <1>2, <1>4, <1>5, <1>7, <1>8
<1>10. Distinct(g)
  BY <1>2, <1>4, <1>5 DEF Holding, Distinct
<1>11. QED
  BY <1>1, <1>2, <1>4, <1>5, <1>6, <1>9, <1>10 DEF Holding, Agree

-----------------------------------------------------------------------------
(* The order of the heap, of the times its places hold.                    *)

\* The parent of a place is a place before it.
LEMMA Parents ==
  ASSUME NEW n \in Nat, NEW i \in 2 .. n
  PROVE  i \div 2 \in 1 .. n /\ i \div 2 < i
  OBVIOUS

\* Place i is not before its parent.
Over(key, i) == key[i \div 2] <= key[i]

Upright(key, n) == \A i \in 2 .. n : Over(key, i)

\* Upright, but for the place at, which may rise ...
Rises(key, n, at) ==
  /\ \A i \in 2 .. n : i # at => Over(key, i)
  /\ \A i \in 2 .. n : i \div 2 = at /\ at > 1 => key[at \div 2] <= key[i]

\* ... or for the place at, which may sink.
Sinks(key, n, at) ==
  /\ \A i \in 2 .. n : i \div 2 # at => Over(key, i)
  /\ \A i \in 2 .. n : i \div 2 = at /\ at > 1 => key[at \div 2] <= key[i]

\* A round of jetnet_timer_heap_add: at and its parent p change places.
Lifted(new, key, n, at, p) ==
  /\ key \in [1 .. n -> Nat] /\ new \in [1 .. n -> Nat]
  /\ at \in 2 .. n /\ p \in 1 .. n /\ p = at \div 2
  /\ key[at] < key[p] /\ Exchanged(new, key, n, at, p)

LEMMA RiseKeys ==
  ASSUME NEW n \in Nat, NEW key, NEW new, NEW at, NEW p,
         Lifted(new, key, n, at, p), Rises(key, n, at)
  PROVE  Rises(new, n, p)
<1> USE DEF Lifted
<1>0. /\ new[at] = key[p] /\ new[p] = key[at]
      /\ \A i \in 1 .. n : i # at /\ i # p => new[i] = key[i]
      /\ \A i \in 2 .. n : i # at => Over(key, i)
      /\ \A i \in 2 .. n : i \div 2 = at => key[p] <= key[i]
  BY DEF Exchanged, Rises
<1>1. p < at
  OBVIOUS
<1>2. ASSUME NEW i \in 2 .. n, i # p
      PROVE  Over(new, i)
  <2>1. PICK q \in 1 .. n : q = i \div 2 /\ q < i
    BY Parents
  <2>2. key[q] \in Nat /\ key[i] \in Nat /\ key[p] \in Nat /\ key[at] \in Nat
    OBVIOUS
  <2>3. i # at => key[q] <= key[i]
    BY <1>0, <2>1 DEF Over
  <2>4. CASE i = at
    BY <1>0, <2>1, <2>2, <2>4 DEF Over
  <2>5. CASE q = at
    <3>1. i # at /\ i # p
      BY <1>0, <1>1, <2>1, <2>5
    <3>2. new[i] = key[i] /\ new[q] = key[p] /\ key[p] <= key[i]
      BY <1>0, <2>1, <2>5, <3>1
    <3>3. QED
      BY <1>0, <2>1, <3>2 DEF Over
  <2>6. CASE i # at /\ q = p
    <3>1. i \in 1 .. n /\ i # at /\ i # p
      BY <1>0, <1>2, <2>6
    <3>2. new[i] = key[i]
      BY <1>0, <3>1
    <3>3. new[q] = key[at] /\ key[p] <= key[i]
      BY <1>0, <2>1, <2>3, <2>6
    <3>4. key[at] <= key[i]
      BY <1>0, <2>2, <3>3
    <3>5. QED
      BY <1>0, <2>1, <3>2, <3>3, <3>4 DEF Over
  <2>7. CASE i # at /\ q # at /\ q # p
    <3>1. i \in 1 .. n /\ i # at /\ i # p
      BY <1>0, <1>2, <2>7
    <3>2. new[i] = key[i] /\ new[q] = key[q]
      BY <1>0, <2>7, <3>1
    <3>3. key[q] <= key[i]
      BY <1>0, <2>3, <2>7
    <3>4. QED
      BY <1>0, <2>1, <3>2, <3>3 DEF Over
  <2>8. QED
    BY <1>0, <2>4, <2>5, <2>6, <2>7
<1>3. ASSUME NEW i \in 2 .. n, i \div 2 = p, p > 1
      PROVE  new[p \div 2] <= new[i]
  <2>1. PICK q \in 1 .. n : q = p \div 2 /\ q < p
    BY <1>0, <1>3, Parents
  <2>2. key[q] \in Nat /\ key[i] \in Nat /\ key[p] \in Nat
    OBVIOUS
  <2>3. key[q] <= key[p]
    <3>1. p \in 2 .. n /\ p # at
      BY <1>0, <1>1, <1>3
    <3>2. Over(key, p)
      BY <1>0, <3>1
    <3>3. QED
      BY <1>0, <2>1, <3>2 DEF Over
  <2>4. new[q] = key[q]
    BY <1>0, <1>1, <2>1
  <2>5. CASE i = at
    BY <1>0, <2>1, <2>3, <2>4, <2>5
  <2>6. CASE i # at
    <3>1. Over(key, i) /\ i # p
      BY <1>0, <1>3, <2>6
    <3>2. key[p] <= key[i] /\ new[i] = key[i]
      BY <1>0, <1>3, <2>6, <3>1 DEF Over
    <3>3. QED
      BY <1>0, <2>1, <2>2, <2>3, <2>4, <3>2
  <2>7. QED
    BY <1>0, <2>5, <2>6
<1>4. QED
  BY <1>2, <1>3 DEF Rises

\* A round of jetnet_timer_heap_adjust: at and the lesser of its children change
\* places.
Lowered(new, key, n, at, c) ==
  /\ key \in [1 .. n -> Nat] /\ new \in [1 .. n -> Nat]
  /\ c \in 2 .. n /\ at \in 1 .. n /\ at = c \div 2
  /\ key[c] < key[at] /\ Exchanged(new, key, n, at, c)
  /\ \A i \in 2 .. n : i \div 2 = at => key[c] <= key[i]

LEMMA SinkKeys ==
  ASSUME NEW n \in Nat, NEW key, NEW new, NEW at, NEW c,
         Lowered(new, key, n, at, c), Sinks(key, n, at)
  PROVE  Sinks(new, n, c)
<1> USE DEF Lowered
<1>0. /\ new[at] = key[c] /\ new[c] = key[at]
      /\ \A i \in 1 .. n : i # at /\ i # c => new[i] = key[i]
      /\ \A i \in 2 .. n : i \div 2 # at => Over(key, i)
      /\ \A i \in 2 .. n : i \div 2 = at /\ at > 1 => key[at \div 2] <= key[i]
  BY DEF Exchanged, Sinks
<1>1. at < c
  OBVIOUS
<1>2. ASSUME NEW i \in 2 .. n, i \div 2 # c
      PROVE  Over(new, i)
  <2>1. PICK q \in 1 .. n : q = i \div 2 /\ q < i
    BY Parents
  <2>2. key[q] \in Nat /\ key[i] \in Nat /\ key[c] \in Nat /\ key[at] \in Nat
    OBVIOUS
  <2>3. CASE q = at
    <3>1. new[q] = key[c] /\ key[c] <= key[i]
      BY <1>0, <2>1, <2>3
    <3>2. i \in 1 .. n /\ i # at
      BY <1>0, <2>1, <2>3
    <3>3. CASE i = c
      BY <1>0, <2>1, <2>2, <3>1, <3>3 DEF Over
    <3>4. CASE i # c
      <4>1. new[i] = key[i]
        BY <1>0, <3>2, <3>4
      <4>2. QED
        BY <1>0, <2>1, <3>1, <4>1 DEF Over
    <3>5. QED
      BY <1>0, <3>3, <3>4
  <2>4. CASE q # at /\ i = at
    <3>1. q # c
      BY <1>0, <1>2, <2>1
    <3>2. new[i] = key[c] /\ new[q] = key[q]
      BY <1>0, <2>4, <3>1
    <3>3. c \in 2 .. n /\ c \div 2 = at /\ at > 1 /\ at \div 2 = q
      BY <1>0, <2>1, <2>4
    <3>4. key[q] <= key[c]
      BY <1>0, <3>3
    <3>5. QED
      BY <1>0, <2>1, <3>2, <3>4 DEF Over
  <2>5. CASE q # at /\ i # at
    <3>1. i # c
      BY <1>0, <2>1, <2>5
    <3>2. i \in 1 .. n /\ q # c
      BY <1>0, <1>2, <2>1
    <3>3. new[i] = key[i] /\ new[q] = key[q]
      BY <1>0, <2>5, <3>1, <3>2
    <3>4. Over(key, i)
      BY <1>0, <2>1, <2>5
    <3>5. QED
      BY <1>0, <2>1, <3>3, <3>4 DEF Over
  <2>6. QED
    BY <1>0, <2>3, <2>4, <2>5
<1>3. ASSUME NEW i \in 2 .. n, i \div 2 = c
      PROVE  new[c \div 2] <= new[i]
  <2>1. i # c /\ i # at /\ c # at
    BY <1>0, <1>1, <1>3
  <2>2. Over(key, i)
    BY <1>0, <1>3, <2>1
  <2>3. key[c] <= key[i] /\ new[i] = key[i] /\ new[at] = key[c]
    BY <1>0, <1>3, <2>1, <2>2 DEF Over
  <2>4. QED
    BY <1>0, <2>3
<1>4. QED
  BY <1>2, <1>3 DEF Sinks

\* The root is the least.
LEMMA RootLeast ==
  ASSUME NEW n \in Nat, NEW key \in [1 .. n -> Nat], Upright(key, n)
  PROVE  \A i \in 1 .. n : key[1] <= key[i]
<1> DEFINE T == {m \in 0 .. n : \A i \in 1 .. m : key[1] <= key[i]}
<1>1. 0 \in T
  OBVIOUS
<1>2. ASSUME NEW m \in 0 .. n - 1, m \in T
      PROVE  m + 1 \in T
  <2>1. \A i \in 1 .. m + 1 : i \in 1 .. m \/ i = m + 1
    OBVIOUS
  <2>2. key[1] <= key[m + 1]
    <3>1. CASE m = 0
      BY <3>1
    <3>2. CASE m # 0
      <4>1. m + 1 \in 2 .. n /\ Over(key, m + 1)
        BY <3>2 DEF Upright
      <4>2. PICK q \in 1 .. m : q = (m + 1) \div 2
        BY <3>2
      <4>3. key[1] <= key[q] /\ key[q] <= key[m + 1]
        BY <1>2, <4>1, <4>2 DEF Over
      <4>4. key[1] \in Nat /\ key[q] \in Nat /\ key[m + 1] \in Nat
        BY <4>1
      <4>5. QED
        BY <4>3, <4>4
    <3>3. QED
      BY <3>1, <3>2
  <2>3. QED
    BY <1>2, <2>1, <2>2
<1>3. \A m \in 0 .. n : m \in T
  <2> HIDE DEF T
  <2>1. QED
    BY <1>1, <1>2, Ascends
<1>4. QED
  BY <1>3

-----------------------------------------------------------------------------
(* The heap.                                                               *)

Timed(it, R) == \A a \in R : it[a].expire \in Nat

\* The times that the places of a heap hold.
KeyOf(it, h, n) == [i \in 1 .. n |-> it[h[i]].expire]

\* The heap is in order.
Ordered(it, h) == Upright(KeyOf(it, h, Len(h)), Len(h))

LEMMA KeyIs ==
  ASSUME NEW n \in Nat, NEW R, NEW it, Timed(it, R), NEW h \in Holding(n, R)
  PROVE  /\ KeyOf(it, h, n) \in [1 .. n -> Nat]
         /\ \A i \in 1 .. n : KeyOf(it, h, n)[i] = it[h[i]].expire
<1>1. \A i \in 1 .. n : h[i] \in R
  BY DEF Holding, Items
<1>2. \A i \in 1 .. n : it[h[i]].expire \in Nat
  BY <1>1 DEF Timed
<1>3. QED
  BY <1>2 DEF KeyOf

\* What a change of two places does to the times.
LEMMA SwapKeys ==
  ASSUME NEW n \in Nat, NEW R, NEW it, Timed(it, R), NEW h \in Holding(n, R),
         NEW i \in 1 .. n, NEW j \in 1 .. n, i # j
  PROVE  /\ KeyOf(it, Swapped(h, i, j), n) \in [1 .. n -> Nat]
         /\ Exchanged(KeyOf(it, Swapped(h, i, j), n), KeyOf(it, h, n), n, i, j)
<1>1. Swapped(h, i, j) \in Holding(n, R) /\ Exchanged(Swapped(h, i, j), h, n, i, j)
  BY SwapIs
<1>2. PICK g \in Holding(n, R) : g = Swapped(h, i, j)
  BY <1>1
<1>3. /\ g[i] = h[j] /\ g[j] = h[i]
      /\ \A k \in 1 .. n : k # i /\ k # j => g[k] = h[k]
  BY <1>1, <1>2 DEF Exchanged
<1>4. \A k \in 1 .. n : KeyOf(it, h, n)[k] = it[h[k]].expire
  BY KeyIs
<1>5. /\ KeyOf(it, g, n) \in [1 .. n -> Nat]
      /\ \A k \in 1 .. n : KeyOf(it, g, n)[k] = it[g[k]].expire
  BY KeyIs
<1>6. Exchanged(KeyOf(it, g, n), KeyOf(it, h, n), n, i, j)
  BY <1>3, <1>4, <1>5 DEF Exchanged
<1>7. QED
  BY <1>2, <1>5, <1>6

-----------------------------------------------------------------------------
(* jetnet_timer_heap_add.                                                  *)

\* The states of its loop.
Rising(it, n, R) ==
  {s \in [heap : Holding(n, R), at : 1 .. n] : Rises(KeyOf(it, s.heap, n), n, s.at)}

LEMMA RiseIs ==
  ASSUME NEW n \in Nat, NEW R, NEW it, Timed(it, R), NEW s \in Rising(it, n, R)
  PROVE  /\ Rise(it, s) \in Rising(it, n, R)
         /\ \/ Rise(it, s).at < s.at
            \/ Rise(it, s) = s /\ Ordered(it, s.heap)
<1>1. PICK h \in Holding(n, R), at \in 1 .. n : s = [heap |-> h, at |-> at]
  BY DEF Rising
<1>2. Rises(KeyOf(it, h, n), n, at)
  BY <1>1 DEF Rising
<1>3. /\ KeyOf(it, h, n) \in [1 .. n -> Nat]
      /\ \A i \in 1 .. n : KeyOf(it, h, n)[i] = it[h[i]].expire
  BY KeyIs
<1>4. PICK key \in [1 .. n -> Nat] : key = KeyOf(it, h, n)
  BY <1>3
<1>5. Len(h) = n
  BY DEF Holding
<1>6. at > 1 => at \in 2 .. n /\ at \div 2 \in 1 .. n /\ at \div 2 < at
  BY Parents
<1>7. CASE at > 1 /\ Before(it, h, at, at \div 2)
  <2>1. PICK p \in 1 .. n : p = at \div 2 /\ p < at
    BY <1>6, <1>7
  <2>2. at # p /\ at \in 2 .. n
    BY <1>6, <1>7, <2>1
  <2>3. Swapped(h, at, p) \in Holding(n, R)
    BY <2>2, SwapIs
  <2>4. /\ KeyOf(it, Swapped(h, at, p), n) \in [1 .. n -> Nat]
        /\ Exchanged(KeyOf(it, Swapped(h, at, p), n), KeyOf(it, h, n), n, at, p)
    BY <2>2, SwapKeys
  <2>5. key[at] < key[p]
    BY <1>3, <1>4, <1>7, <2>1 DEF Before
  <2>6. PICK new \in [1 .. n -> Nat] : new = KeyOf(it, Swapped(h, at, p), n)
    BY <2>4
  <2>7. Exchanged(new, key, n, at, p) /\ Rises(key, n, at)
    BY <1>2, <1>4, <2>4, <2>6
  <2>8. Rises(new, n, p)
    <3>1. Lifted(new, key, n, at, p)
      BY <2>1, <2>2, <2>5, <2>7 DEF Lifted
    <3>2. QED
      BY <2>7, <3>1, RiseKeys
  <2>9. Rise(it, s) = [heap |-> Swapped(h, at, p), at |-> p]
    BY <1>1, <1>7, <2>1 DEF Rise
  <2>10. [heap |-> Swapped(h, at, p), at |-> p] \in Rising(it, n, R)
    BY <2>3, <2>6, <2>8 DEF Rising
  <2>11. QED
    BY <1>1, <2>1, <2>9, <2>10
<1>8. CASE ~ (at > 1 /\ Before(it, h, at, at \div 2))
  <2>1. Rise(it, s) = s
    BY <1>1, <1>8 DEF Rise
  <2>2. ASSUME NEW i \in 2 .. n
        PROVE  Over(key, i)
    <3>1. CASE i = at
      <4>1. at > 1
        BY <3>1
      <4>2. ~ (key[at] < key[at \div 2])
        BY <1>3, <1>4, <1>6, <1>8, <4>1 DEF Before
      <4>3. key[at] \in Nat /\ key[at \div 2] \in Nat
        BY <1>6, <4>1
      <4>4. QED
        BY <3>1, <4>2, <4>3 DEF Over
    <3>2. CASE i # at
      BY <1>2, <1>4, <3>2 DEF Rises
    <3>3. QED
      BY <3>1, <3>2
  <2>3. Ordered(it, h)
    BY <1>4, <1>5, <2>2 DEF Ordered, Upright
  <2>4. QED
    BY <1>1, <2>1, <2>3
<1>9. QED
  BY <1>7, <1>8

\* What is in order stays.
LEMMA RiseRests ==
  ASSUME NEW n \in Nat, NEW R, NEW it, Timed(it, R), NEW s \in Rising(it, n, R),
         Ordered(it, s.heap)
  PROVE  Rise(it, s) = s
<1>1. PICK h \in Holding(n, R), at \in 1 .. n : s = [heap |-> h, at |-> at]
  BY DEF Rising
<1>2. /\ KeyOf(it, h, n) \in [1 .. n -> Nat]
      /\ \A i \in 1 .. n : KeyOf(it, h, n)[i] = it[h[i]].expire
  BY KeyIs
<1>3. Len(h) = n
  BY DEF Holding
<1>4. CASE at > 1
  <2>1. at \in 2 .. n /\ at \div 2 \in 1 .. n
    BY <1>4, Parents
  <2>2. KeyOf(it, h, n)[at \div 2] <= KeyOf(it, h, n)[at]
    BY <1>1, <1>3, <2>1 DEF Ordered, Upright, Over
  <2>3. it[h[at \div 2]].expire <= it[h[at]].expire
    BY <1>2, <2>1, <2>2
  <2>4. it[h[at \div 2]].expire \in Nat /\ it[h[at]].expire \in Nat
    BY <2>1, <1>2
  <2>5. ~ Before(it, h, at, at \div 2)
    BY <2>3, <2>4 DEF Before
  <2>6. QED
    BY <1>1, <2>5 DEF Rise
<1>5. CASE ~ (at > 1)
  BY <1>1, <1>5 DEF Rise
<1>6. QED
  BY <1>4, <1>5

\* The loop ends with the heap ordered.
LEMMA SiftUpIs ==
  ASSUME NEW n \in Nat \ {0}, NEW R, NEW it, Timed(it, R), NEW h \in Holding(n, R),
         \A i \in 2 .. n : i # n => Over(KeyOf(it, h, n), i)
  PROVE  SiftUp(it, h, n) \in Holding(n, R) /\ Ordered(it, SiftUp(it, h, n))
<1> DEFINE S == Rising(it, n, R)
           s == [heap |-> h, at |-> n]
           F == [t \in S |-> Rise(it, t)]
           Body(p) == [k \in 0 .. n |-> IF k = 0 THEN s ELSE Rise(it, p[k - 1])]
<1>1. n \in Nat /\ Len(h) = n
  BY DEF Holding
<1>2. s \in S
  <2>1. \A i \in 2 .. n : i \div 2 # n
    BY Parents
  <2>2. Rises(KeyOf(it, h, n), n, n)
    BY <2>1 DEF Rises
  <2>3. QED
    BY <1>1, <2>2 DEF Rising
<1>3. F \in [S -> S] /\ \A t \in S : F[t] = Rise(it, t)
  BY <1>1, RiseIs
<1>4. PICK f \in [0 .. n -> S] : Rounds(f, n, s, F)
  <2> HIDE DEF S, s, F
  <2>1. QED
    BY <1>1, <1>2, <1>3, LoopRuns
<1>5. f = Body(f)
  <2>1. \A k \in 0 .. n : f[k] = IF k = 0 THEN s ELSE Rise(it, f[k - 1])
    <3> HIDE DEF S, s, F
    <3> TAKE k \in 0 .. n
    <3>1. f[k] = IF k = 0 THEN s ELSE F[f[k - 1]]
      BY <1>4 DEF Rounds
    <3>2. k # 0 => k - 1 \in 0 .. n /\ f[k - 1] \in S
      OBVIOUS
    <3>3. QED
      BY <1>3, <3>1, <3>2
  <2> HIDE DEF S, s, F
  <2>2. QED
    BY <2>1
<1> DEFINE p == CHOOSE p : p = Body(p)
<1>6. SiftUp(it, h, n) = p[n].heap
  BY <1>1 DEF SiftUp
<1>7. p = Body(p)
  <2> HIDE DEF Body
  <2>1. QED
    BY <1>5
<1> HIDE DEF p
<1>8. p[0] = s /\ \A k \in 1 .. n : p[k] = Rise(it, p[k - 1])
  <2> HIDE DEF s
  <2>1. QED
    BY <1>1, <1>7
<1> DEFINE T == {k \in 0 .. n : /\ p[k] \in S
                                /\ Ordered(it, p[k].heap) \/ p[k].at + k <= n}
<1>9. 0 \in T
  BY <1>1, <1>2, <1>8
<1>10. ASSUME NEW k \in 0 .. n - 1, k \in T
       PROVE  k + 1 \in T
  <2>1. p[k] \in S /\ (Ordered(it, p[k].heap) \/ p[k].at + k <= n)
    BY <1>10
  <2>2. k + 1 \in 1 .. n /\ (k + 1) - 1 = k
    BY <1>1
  <2>3. p[k + 1] = Rise(it, p[k])
    BY <1>8, <2>2
  <2>4. PICK t : t = p[k]
    OBVIOUS
  <2>5. PICK u : u = p[k + 1]
    OBVIOUS
  <2>6. u \in S /\ (u.at < t.at \/ (u = t /\ Ordered(it, t.heap)))
    BY <1>1, <2>1, <2>3, <2>4, <2>5, RiseIs
  <2>7. t.at \in 1 .. n /\ u.at \in 1 .. n /\ t.heap \in Holding(n, R)
    BY <2>1, <2>4, <2>6 DEF Rising
  <2>8. Ordered(it, u.heap) \/ u.at + (k + 1) <= n
    <3>1. CASE u = t /\ Ordered(it, t.heap)
      BY <3>1
    <3>2. CASE u.at < t.at /\ t.at + k <= n
      BY <2>7, <3>2
    <3>3. CASE u.at < t.at /\ Ordered(it, t.heap)
      <4>1. u = t
        BY <1>1, <2>1, <2>3, <2>4, <2>5, <3>3, RiseRests
      <4>2. QED
        BY <2>7, <3>3, <4>1
    <3>4. QED
      BY <2>1, <2>4, <2>6, <3>1, <3>2, <3>3
  <2>9. k + 1 \in 0 .. n
    BY <1>1
  <2>10. QED
    BY <2>5, <2>6, <2>8, <2>9
<1>11. n \in T
  <2> HIDE DEF T
  <2>1. \A k \in 0 .. n : k \in T
    BY <1>1, <1>9, <1>10, Ascends
  <2>2. QED
    BY <1>1, <2>1
<1>12. p[n].at \in 1 .. n /\ p[n].heap \in Holding(n, R)
  BY <1>11 DEF Rising
<1>13. Ordered(it, p[n].heap)
  BY <1>1, <1>11, <1>12
<1>14. QED
  BY <1>6, <1>12, <1>13

\* jetnet_timer_heap_add puts the item where the order has it.
LEMMA HeapAddIs ==
  ASSUME NEW n \in Nat, NEW R, NEW it, NEW h \in Holding(n, R), Ordered(it, h),
         NEW a \in Item, a \notin R, Timed(it, R \cup {a})
  PROVE  HeapAdd(it, h, a) \in Holding(n + 1, R \cup {a}) /\ Ordered(it, HeapAdd(it, h, a))
<1>1. Append(h, a) \in Holding(n + 1, R \cup {a}) /\ Agree(Append(h, a), h, n)
  BY AppendIs
<1>2. PICK g \in Holding(n + 1, R \cup {a}) : g = Append(h, a) /\ Agree(g, h, n)
  BY <1>1
<1>3. Len(h) = n
  BY DEF Holding
<1>4. ASSUME NEW i \in 2 .. n + 1, i # n + 1
      PROVE  Over(KeyOf(it, g, n + 1), i)
  <2>1. i \in 2 .. n /\ i \in 1 .. n
    BY <1>4
  <2>2. i \div 2 \in 1 .. n
    BY <2>1, Parents
  <2>3. /\ KeyOf(it, g, n + 1)[i] = KeyOf(it, h, n)[i]
        /\ KeyOf(it, g, n + 1)[i \div 2] = KeyOf(it, h, n)[i \div 2]
    <3>1. PICK j \in 1 .. n : j = i \div 2
      BY <2>2
    <3>2. i \in 1 .. n + 1 /\ j \in 1 .. n + 1
      BY <2>1
    <3>3. g[i] = h[i] /\ g[j] = h[j]
      BY <1>2, <2>1 DEF Agree
    <3>4. QED
      BY <2>1, <3>1, <3>2, <3>3 DEF KeyOf
  <2>4. Over(KeyOf(it, h, n), i)
    BY <1>3, <2>1 DEF Ordered, Upright
  <2>5. QED
    BY <2>3, <2>4 DEF Over
<1>5. HeapAdd(it, h, a) = SiftUp(it, g, n + 1)
  BY <1>2, <1>3 DEF HeapAdd
<1>6. n + 1 \in Nat \ {0}
  OBVIOUS
<1>7. QED
  BY <1>4, <1>5, <1>6, SiftUpIs

-----------------------------------------------------------------------------
(* jetnet_timer_heap_pop.                                                  *)

\* The children of a place.
LEMMA Children ==
  ASSUME NEW n \in Nat, NEW at \in 1 .. n, NEW i \in 2 .. n
  PROVE  i \div 2 = at <=> (i = 2 * at \/ i = 2 * at + 1)
  OBVIOUS

\* The place with which at changes: itself, if its children are due no earlier.
ChangesWith(c, key, n, at) ==
  /\ \A i \in 2 .. n : i \div 2 = at => key[c] <= key[i]
  /\ c # at => c \in 2 .. n /\ c \div 2 = at /\ key[c] < key[at]

LEMMA LeastIs ==
  ASSUME NEW n \in Nat, NEW R, NEW it, Timed(it, R), NEW h \in Holding(n, R),
         NEW at \in 1 .. n
  PROVE  /\ Least(it, h, at) \in 1 .. n
         /\ ChangesWith(Least(it, h, at), KeyOf(it, h, n), n, at)
<1>0. /\ KeyOf(it, h, n) \in [1 .. n -> Nat]
      /\ \A i \in 1 .. n : KeyOf(it, h, n)[i] = it[h[i]].expire
  BY KeyIs
<1>00. PICK key \in [1 .. n -> Nat] : key = KeyOf(it, h, n)
  BY <1>0
<1> DEFINE Lower(a, b) == IF b <= Len(h) /\ Before(it, h, b, a) THEN b ELSE a
<1>1. Len(h) = n
  BY DEF Holding
<1>2. \A i \in 1 .. n : key[i] = it[h[i]].expire
  BY <1>0, <1>00
<1>3. \A a, b \in 1 .. n : Before(it, h, b, a) <=> key[b] < key[a]
  BY <1>2 DEF Before
<1>4. ASSUME NEW a \in 1 .. n, NEW b \in Nat \ {0}
      PROVE  /\ Lower(a, b) \in 1 .. n
             /\ key[Lower(a, b)] <= key[a]
             /\ b \in 1 .. n => key[Lower(a, b)] <= key[b]
             /\ Lower(a, b) # a => b \in 1 .. n /\ Lower(a, b) = b /\ key[b] < key[a]
  <2>1. CASE b <= n
    <3>1. b \in 1 .. n /\ key[a] \in Nat /\ key[b] \in Nat
      BY <2>1
    <3>2. CASE key[b] < key[a]
      <4>1. Lower(a, b) = b
        BY <1>1, <1>3, <3>1, <3>2, <2>1
      <4>2. QED
        BY <3>1, <3>2, <4>1
    <3>3. CASE ~ (key[b] < key[a])
      <4>1. Lower(a, b) = a
        BY <1>1, <1>3, <3>1, <3>3
      <4>2. QED
        BY <3>1, <3>3, <4>1
    <3>4. QED
      BY <3>2, <3>3
  <2>2. CASE ~ (b <= n)
    <3>1. Lower(a, b) = a /\ b \notin 1 .. n /\ key[a] \in Nat
      BY <1>1, <2>2
    <3>2. QED
      BY <3>1
  <2>3. QED
    BY <2>1, <2>2
<1>5. Least(it, h, at) = Lower(Lower(at, 2 * at), 2 * at + 1)
  BY DEF Least
<1> HIDE DEF Lower
<1>6. PICK l \in Nat, r \in Nat :
        l = 2 * at /\ r = 2 * at + 1 /\ l # 0 /\ r # 0 /\ l # at /\ r # at
  OBVIOUS
<1>7. PICK d \in 1 .. n : d = Lower(at, l)
  BY <1>4, <1>6
<1>8. /\ key[d] <= key[at]
      /\ l \in 1 .. n => key[d] <= key[l]
      /\ d # at => l \in 1 .. n /\ d = l /\ key[l] < key[at]
  BY <1>4, <1>6, <1>7
<1>9. PICK c \in 1 .. n : c = Lower(d, r)
  BY <1>4, <1>6
<1>10. /\ key[c] <= key[d]
       /\ r \in 1 .. n => key[c] <= key[r]
       /\ c # d => r \in 1 .. n /\ c = r /\ key[r] < key[d]
  BY <1>4, <1>6, <1>9
<1>11. key[at] \in Nat /\ key[d] \in Nat /\ key[c] \in Nat /\ \A i \in 1 .. n : key[i] \in Nat
  OBVIOUS
<1>12. c = Least(it, h, at)
  BY <1>5, <1>6, <1>7, <1>9
<1>13. ASSUME NEW i \in 2 .. n, i \div 2 = at
       PROVE  key[c] <= key[i]
  <2>1. i = l \/ i = r
    BY <1>6, <1>13, Children
  <2>2. i \in 1 .. n
    OBVIOUS
  <2>3. CASE i = r
    BY <1>10, <2>2, <2>3
  <2>4. CASE i = l
    <3>1. key[d] <= key[i]
      BY <1>8, <2>2, <2>4
    <3>2. QED
      BY <1>10, <1>11, <2>2, <3>1
  <2>5. QED
    BY <2>1, <2>3, <2>4
<1>14. ASSUME c # at
       PROVE  c \in 2 .. n /\ c \div 2 = at /\ key[c] < key[at]
  <2>1. (c = l \/ c = r) /\ key[c] < key[at]
    <3>1. CASE c # d
      <4>1. c = r /\ key[c] < key[d]
        BY <1>10, <3>1
      <4>2. QED
        BY <1>8, <1>11, <4>1
    <3>2. CASE c = d
      BY <1>8, <1>14, <3>2
    <3>3. QED
      BY <3>1, <3>2
  <2>2. c \in 2 .. n
    BY <1>6, <2>1
  <2>3. QED
    BY <1>6, <2>1, <2>2, Children
<1>15. QED
  BY <1>00, <1>12, <1>13, <1>14 DEF ChangesWith

\* The states of the loop of jetnet_timer_heap_adjust.
Sinking(it, n, R) ==
  {s \in [heap : Holding(n, R), at : 1 .. n] : Sinks(KeyOf(it, s.heap, n), n, s.at)}

LEMMA SinkIs ==
  ASSUME NEW n \in Nat, NEW R, NEW it, Timed(it, R), NEW s \in Sinking(it, n, R)
  PROVE  /\ Sink(it, s) \in Sinking(it, n, R)
         /\ \/ Sink(it, s).at > s.at
            \/ Sink(it, s) = s /\ Ordered(it, s.heap)
<1>1. PICK h \in Holding(n, R), at \in 1 .. n : s = [heap |-> h, at |-> at]
  BY DEF Sinking
<1>2. Sinks(KeyOf(it, h, n), n, at)
  BY <1>1 DEF Sinking
<1>3. KeyOf(it, h, n) \in [1 .. n -> Nat]
  BY KeyIs
<1>4. PICK key \in [1 .. n -> Nat] : key = KeyOf(it, h, n)
  BY <1>3
<1>5. Len(h) = n
  BY DEF Holding
<1>6. PICK c \in 1 .. n :
        /\ c = Least(it, h, at)
        /\ \A i \in 2 .. n : i \div 2 = at => key[c] <= key[i]
        /\ c # at => c \in 2 .. n /\ c \div 2 = at /\ key[c] < key[at]
  <2>1. Least(it, h, at) \in 1 .. n /\ ChangesWith(Least(it, h, at), KeyOf(it, h, n), n, at)
    BY LeastIs
  <2>2. QED
    BY <1>4, <2>1 DEF ChangesWith
<1>7. CASE c # at
  <2>1. c \in 2 .. n /\ at = c \div 2 /\ key[c] < key[at]
    BY <1>6, <1>7
  <2>2. at < c
    BY <2>1
  <2>3. Swapped(h, at, c) \in Holding(n, R)
    BY <2>2, SwapIs
  <2>4. /\ KeyOf(it, Swapped(h, at, c), n) \in [1 .. n -> Nat]
        /\ Exchanged(KeyOf(it, Swapped(h, at, c), n), KeyOf(it, h, n), n, at, c)
    BY <2>2, SwapKeys
  <2>5. PICK new \in [1 .. n -> Nat] : new = KeyOf(it, Swapped(h, at, c), n)
    BY <2>4
  <2>6. Exchanged(new, key, n, at, c) /\ Sinks(key, n, at)
    BY <1>2, <1>4, <2>4, <2>5
  <2>7. Lowered(new, key, n, at, c)
    BY <1>6, <2>1, <2>6 DEF Lowered
  <2>8. Sinks(new, n, c)
    BY <2>6, <2>7, SinkKeys
  <2>9. Sink(it, s) = [heap |-> Swapped(h, at, c), at |-> c]
    BY <1>1, <1>6, <1>7 DEF Sink
  <2>10. [heap |-> Swapped(h, at, c), at |-> c] \in Sinking(it, n, R)
    BY <2>3, <2>5, <2>8 DEF Sinking
  <2>11. QED
    BY <1>1, <2>2, <2>9, <2>10
<1>8. CASE c = at
  <2>1. Sink(it, s) = s
    BY <1>1, <1>6, <1>8 DEF Sink
  <2>2. ASSUME NEW i \in 2 .. n
        PROVE  Over(key, i)
    <3>1. CASE i \div 2 = at
      BY <1>6, <1>8, <3>1 DEF Over
    <3>2. CASE i \div 2 # at
      BY <1>2, <1>4, <3>2 DEF Sinks
    <3>3. QED
      BY <3>1, <3>2
  <2>3. Ordered(it, h)
    BY <1>4, <1>5, <2>2 DEF Ordered, Upright
  <2>4. QED
    BY <1>1, <2>1, <2>3
<1>9. QED
  BY <1>7, <1>8

\* What is in order stays.
LEMMA SinkRests ==
  ASSUME NEW n \in Nat, NEW R, NEW it, Timed(it, R), NEW s \in Sinking(it, n, R),
         Ordered(it, s.heap)
  PROVE  Sink(it, s) = s
<1>1. PICK h \in Holding(n, R), at \in 1 .. n : s = [heap |-> h, at |-> at]
  BY DEF Sinking
<1>2. KeyOf(it, h, n) \in [1 .. n -> Nat]
  BY KeyIs
<1>3. PICK key \in [1 .. n -> Nat] : key = KeyOf(it, h, n)
  BY <1>2
<1>4. Len(h) = n
  BY DEF Holding
<1>5. PICK c \in 1 .. n :
        /\ c = Least(it, h, at)
        /\ c # at => c \in 2 .. n /\ c \div 2 = at /\ key[c] < key[at]
  <2>1. Least(it, h, at) \in 1 .. n /\ ChangesWith(Least(it, h, at), KeyOf(it, h, n), n, at)
    BY LeastIs
  <2>2. QED
    BY <1>3, <2>1 DEF ChangesWith
<1>6. c = at
  <2>1. ASSUME c # at
        PROVE  FALSE
    <3>1. c \in 2 .. n /\ c \div 2 = at /\ key[c] < key[at]
      BY <1>5, <2>1
    <3>2. key[at] <= key[c]
      BY <1>1, <1>3, <1>4, <3>1 DEF Ordered, Upright, Over
    <3>3. key[at] \in Nat /\ key[c] \in Nat
      OBVIOUS
    <3>4. QED
      BY <3>1, <3>2, <3>3
  <2>2. QED
    BY <2>1
<1>7. QED
  BY <1>1, <1>5, <1>6 DEF Sink

\* The loop ends with the heap ordered.
LEMMA SiftDownIs ==
  ASSUME NEW n \in Nat \ {0}, NEW R, NEW it, Timed(it, R), NEW h \in Holding(n, R),
         \A i \in 2 .. n : i \div 2 # 1 => Over(KeyOf(it, h, n), i)
  PROVE  SiftDown(it, h, 1) \in Holding(n, R) /\ Ordered(it, SiftDown(it, h, 1))
<1> DEFINE S == Sinking(it, n, R)
           s == [heap |-> h, at |-> 1]
           F == [t \in S |-> Sink(it, t)]
           Body(p) == [k \in 0 .. n |-> IF k = 0 THEN s ELSE Sink(it, p[k - 1])]
<1>1. n \in Nat /\ Len(h) = n /\ 1 \in 1 .. n
  BY DEF Holding
<1>2. s \in S
  <2>1. Sinks(KeyOf(it, h, n), n, 1)
    BY DEF Sinks
  <2>2. QED
    BY <1>1, <2>1 DEF Sinking
<1>3. F \in [S -> S] /\ \A t \in S : F[t] = Sink(it, t)
  BY <1>1, SinkIs
<1>4. PICK f \in [0 .. n -> S] : Rounds(f, n, s, F)
  <2> HIDE DEF S, s, F
  <2>1. QED
    BY <1>1, <1>2, <1>3, LoopRuns
<1>5. f = Body(f)
  <2>1. \A k \in 0 .. n : f[k] = IF k = 0 THEN s ELSE Sink(it, f[k - 1])
    <3> HIDE DEF S, s, F
    <3> TAKE k \in 0 .. n
    <3>1. f[k] = IF k = 0 THEN s ELSE F[f[k - 1]]
      BY <1>4 DEF Rounds
    <3>2. k # 0 => k - 1 \in 0 .. n /\ f[k - 1] \in S
      OBVIOUS
    <3>3. QED
      BY <1>3, <3>1, <3>2
  <2> HIDE DEF S, s, F
  <2>2. QED
    BY <2>1
<1> DEFINE p == CHOOSE p : p = Body(p)
<1>6. SiftDown(it, h, 1) = p[n].heap
  BY <1>1 DEF SiftDown
<1>7. p = Body(p)
  <2> HIDE DEF Body
  <2>1. QED
    BY <1>5
<1> HIDE DEF p
<1>8. p[0] = s /\ \A k \in 1 .. n : p[k] = Sink(it, p[k - 1])
  <2> HIDE DEF s
  <2>1. QED
    BY <1>1, <1>7
<1> DEFINE T == {k \in 0 .. n : /\ p[k] \in S
                                /\ Ordered(it, p[k].heap) \/ p[k].at >= 1 + k}
<1>9. 0 \in T
  BY <1>1, <1>2, <1>8
<1>10. ASSUME NEW k \in 0 .. n - 1, k \in T
       PROVE  k + 1 \in T
  <2>1. p[k] \in S /\ (Ordered(it, p[k].heap) \/ p[k].at >= 1 + k)
    BY <1>10
  <2>2. k + 1 \in 1 .. n /\ (k + 1) - 1 = k
    BY <1>1
  <2>3. p[k + 1] = Sink(it, p[k])
    BY <1>8, <2>2
  <2>4. PICK t : t = p[k]
    OBVIOUS
  <2>5. PICK u : u = p[k + 1]
    OBVIOUS
  <2>6. u \in S /\ (u.at > t.at \/ (u = t /\ Ordered(it, t.heap)))
    BY <1>1, <2>1, <2>3, <2>4, <2>5, SinkIs
  <2>7. t.at \in 1 .. n /\ u.at \in 1 .. n /\ t.heap \in Holding(n, R)
    BY <2>1, <2>4, <2>6 DEF Sinking
  <2>8. Ordered(it, u.heap) \/ u.at >= 1 + (k + 1)
    <3>1. CASE u = t /\ Ordered(it, t.heap)
      BY <3>1
    <3>2. CASE u.at > t.at /\ t.at >= 1 + k
      BY <2>7, <3>2
    <3>3. CASE u.at > t.at /\ Ordered(it, t.heap)
      <4>1. u = t
        BY <1>1, <2>1, <2>3, <2>4, <2>5, <3>3, SinkRests
      <4>2. QED
        BY <2>7, <3>3, <4>1
    <3>4. QED
      BY <2>1, <2>4, <2>6, <3>1, <3>2, <3>3
  <2>9. k + 1 \in 0 .. n
    BY <1>1
  <2>10. QED
    BY <2>5, <2>6, <2>8, <2>9
<1>11. n \in T
  <2> HIDE DEF T
  <2>1. \A k \in 0 .. n : k \in T
    BY <1>1, <1>9, <1>10, Ascends
  <2>2. QED
    BY <1>1, <2>1
<1>12. p[n].at \in 1 .. n /\ p[n].heap \in Holding(n, R)
  BY <1>11 DEF Sinking
<1>13. Ordered(it, p[n].heap)
  BY <1>1, <1>11, <1>12
<1>14. QED
  BY <1>6, <1>12, <1>13

\* The last item takes the place of the root.
LEMMA RootIs ==
  ASSUME NEW n \in Nat \ {0}, NEW R, NEW h \in Holding(n + 1, R)
  PROVE  /\ [Front(h) EXCEPT ![1] = Last(h)] \in Holding(n, R \ {h[1]})
         /\ \A i \in 2 .. n : [Front(h) EXCEPT ![1] = Last(h)][i] = h[i]
<1>1. n \in Nat /\ 1 \in 1 .. n
  OBVIOUS
<1>2. /\ Last(h) = h[n + 1]
      /\ Front(h) \in Holding(n, R \ {Last(h)}) /\ Agree(Front(h), h, n)
  BY <1>1, FrontIs
<1>3. PICK f \in Holding(n, R \ {Last(h)}) : f = Front(h) /\ Agree(f, h, n)
  BY <1>2
<1>4. f \in Seq(Item) /\ f \in [1 .. n -> Item] /\ Len(f) = n /\ \A i \in 1 .. n : f[i] = h[i]
  BY <1>3 DEF Holding, Agree
<1>5. /\ h \in Seq(Item) /\ h \in [1 .. n + 1 -> Item] /\ R = {h[i] : i \in 1 .. n + 1}
      /\ \A i, j \in 1 .. n + 1 : h[i] = h[j] => i = j
  BY DEF Holding, Items, Distinct
<1>6. PICK g : g = [f EXCEPT ![1] = h[n + 1]]
  OBVIOUS
<1>7. /\ g \in [1 .. n -> Item]
      /\ g[1] = h[n + 1] /\ \A i \in 2 .. n : g[i] = h[i]
  BY <1>1, <1>4, <1>5, <1>6
<1>8. g \in Seq(Item) /\ Len(g) = n
  BY <1>7
<1>9. \A i \in 1 .. n : i = 1 \/ i \in 2 .. n
  OBVIOUS
<1>10. Distinct(g)
  <2> SUFFICES ASSUME NEW i \in 1 .. n, NEW j \in 1 .. n, g[i] = g[j]
               PROVE  i = j
    BY <1>8 DEF Distinct
  <2>1. CASE i = 1 /\ j = 1
    BY <2>1
  <2>2. CASE i = 1 /\ j \in 2 .. n
    BY <1>5, <1>7, <2>2
  <2>3. CASE j = 1 /\ i \in 2 .. n
    BY <1>5, <1>7, <2>3
  <2>4. CASE i \in 2 .. n /\ j \in 2 .. n
    BY <1>5, <1>7, <2>4
  <2>5. QED
    BY <1>9, <2>1, <2>2, <2>3, <2>4
<1>11. Items(g) = R \ {h[1]}
  <2>1. Items(g) = {g[i] : i \in 1 .. n}
    BY <1>8 DEF Items
  <2>2. ASSUME NEW i \in 1 .. n
        PROVE  g[i] \in R \ {h[1]}
    <3>1. CASE i = 1
      BY <1>1, <1>5, <1>7, <3>1
    <3>2. CASE i \in 2 .. n
      BY <1>1, <1>5, <1>7, <3>2
    <3>3. QED
      BY <1>9, <3>1, <3>2
  <2>3. ASSUME NEW i \in 1 .. n + 1, h[i] # h[1]
        PROVE  h[i] \in Items(g)
    <3>1. i \in 2 .. n \/ i = n + 1
      BY <2>3
    <3>2. CASE i \in 2 .. n
      BY <1>7, <2>1, <3>2
    <3>3. CASE i = n + 1
      BY <1>1, <1>7, <2>1, <3>3
    <3>4. QED
      BY <3>1, <3>2, <3>3
  <2>4. QED
    BY <1>5, <2>1, <2>2, <2>3
<1>12. g \in Holding(n, R \ {h[1]})
  BY <1>8, <1>10, <1>11 DEF Holding
<1>13. [Front(h) EXCEPT ![1] = Last(h)] = g
  BY <1>2, <1>3, <1>6
<1>14. QED
  BY <1>7, <1>12, <1>13

\* jetnet_timer_heap_pop takes the root out and leaves the rest in order.
LEMMA HeapPopIs ==
  ASSUME NEW n \in Nat, NEW R, NEW it, Timed(it, R), NEW h \in Holding(n + 1, R),
         Ordered(it, h)
  PROVE  HeapPop(it, h) \in Holding(n, R \ {h[1]}) /\ Ordered(it, HeapPop(it, h))
<1>1. Len(h) = n + 1 /\ R = {h[i] : i \in 1 .. n + 1}
  BY DEF Holding, Items
<1>2. CASE n = 0
  <2>1. HeapPop(it, h) = <<>>
    BY <1>1, <1>2 DEF HeapPop
  <2>2. R \ {h[1]} = {}
    BY <1>1, <1>2
  <2>3. <<>> \in Holding(n, {})
    BY <1>2 DEF Holding, Items, Distinct
  <2>4. Ordered(it, <<>>)
    BY DEF Ordered, Upright
  <2>5. QED
    BY <2>1, <2>2, <2>3, <2>4
<1>3. CASE n # 0
  <2>1. n \in Nat \ {0}
    BY <1>3
  <2>2. PICK g : g = [Front(h) EXCEPT ![1] = Last(h)]
    OBVIOUS
  <2>3. g \in Holding(n, R \ {h[1]}) /\ \A i \in 2 .. n : g[i] = h[i]
    BY <2>1, <2>2, RootIs
  <2>4. ASSUME NEW i \in 2 .. n, i \div 2 # 1
        PROVE  Over(KeyOf(it, g, n), i)
    <3>1. PICK j \in 2 .. n : j = i \div 2
      BY <2>4
    <3>2. i \in 1 .. n /\ j \in 1 .. n /\ i \in 1 .. n + 1 /\ j \in 1 .. n + 1 /\ i \in 2 .. n + 1
      BY <3>1
    <3>3. g[i] = h[i] /\ g[j] = h[j]
      BY <2>3
    <3>4. Over(KeyOf(it, h, n + 1), i)
      BY <1>1, <3>2 DEF Ordered, Upright
    <3>5. KeyOf(it, h, n + 1)[j] <= KeyOf(it, h, n + 1)[i]
      BY <3>1, <3>4 DEF Over
    <3>6. /\ KeyOf(it, g, n)[i] = KeyOf(it, h, n + 1)[i]
          /\ KeyOf(it, g, n)[j] = KeyOf(it, h, n + 1)[j]
      BY <3>2, <3>3 DEF KeyOf
    <3>7. QED
      BY <3>1, <3>5, <3>6 DEF Over
  <2>5. HeapPop(it, h) = SiftDown(it, g, 1)
    BY <1>1, <1>3, <2>2 DEF HeapPop
  <2>6. Timed(it, R \ {h[1]})
    BY DEF Timed
  <2>7. QED
    BY <2>1, <2>3, <2>4, <2>5, <2>6, SiftDownIs
<1>4. QED
  BY <1>2, <1>3

\* The root of an ordered heap is due first.
LEMMA RootFirst ==
  ASSUME NEW n \in Nat \ {0}, NEW R, NEW it, Timed(it, R), NEW h \in Holding(n, R),
         Ordered(it, h)
  PROVE  h[1] \in R /\ \A a \in R : it[h[1]].expire <= it[a].expire
<1>1. n \in Nat /\ Len(h) = n /\ 1 \in 1 .. n /\ R = {h[i] : i \in 1 .. n}
  BY DEF Holding, Items
<1>2. /\ KeyOf(it, h, n) \in [1 .. n -> Nat]
      /\ \A i \in 1 .. n : KeyOf(it, h, n)[i] = it[h[i]].expire
  BY <1>1, KeyIs
<1>3. Upright(KeyOf(it, h, n), n)
  BY <1>1 DEF Ordered
<1>4. \A i \in 1 .. n : KeyOf(it, h, n)[1] <= KeyOf(it, h, n)[i]
  BY <1>1, <1>2, <1>3, RootLeast
<1>5. QED
  BY <1>1, <1>2, <1>4

-----------------------------------------------------------------------------
(* Arrays of items, of any length.                                         *)

Whole(h) == h \in Seq(Item) /\ Distinct(h)

LEMMA WholeIs ==
  ASSUME NEW h
  PROVE  Whole(h) <=> Len(h) \in Nat /\ h \in Holding(Len(h), Items(h))
<1>1. ASSUME Whole(h)
      PROVE  Len(h) \in Nat /\ h \in Holding(Len(h), Items(h))
  BY <1>1 DEF Whole, Holding
<1>2. ASSUME h \in Holding(Len(h), Items(h))
      PROVE  Whole(h)
  BY <1>2 DEF Whole, Holding
<1>3. QED
  BY <1>1, <1>2

LEMMA EmptyIs == Whole(<<>>) /\ Items(<<>>) = {} /\ \A it : Ordered(it, <<>>)
  BY DEF Whole, Distinct, Items, Ordered, Upright

LEMMA NoItems ==
  ASSUME NEW h, Whole(h), Items(h) = {}
  PROVE  h = <<>>
<1>1. h \in Seq(Item) /\ Len(h) \in Nat /\ \A i \in 1 .. Len(h) : h[i] \in Items(h)
  BY DEF Whole, Items
<1>2. Len(h) = 0
  <2>1. ASSUME Len(h) # 0
        PROVE  FALSE
    <3>1. 1 \in 1 .. Len(h)
      BY <1>1, <2>1
    <3>2. QED
      BY <1>1, <3>1
  <2>2. QED
    BY <2>1
<1>3. QED
  BY <1>1, <1>2

\* The order depends on the times of the items of the heap.
LEMMA OrderIs ==
  ASSUME NEW h, NEW it, NEW jt, Whole(h), Ordered(it, h),
         \A a \in Items(h) : jt[a].expire = it[a].expire
  PROVE  Ordered(jt, h)
<1>1. \A i \in 1 .. Len(h) : h[i] \in Items(h)
  BY DEF Items
<1>2. KeyOf(it, h, Len(h)) = KeyOf(jt, h, Len(h))
  BY <1>1 DEF KeyOf
<1>3. QED
  BY <1>2 DEF Ordered

\* An item goes into the heap.
LEMMA Joins ==
  ASSUME NEW h, NEW it, Whole(h), Ordered(it, h), NEW a \in Item, a \notin Items(h),
         Timed(it, Items(h) \cup {a})
  PROVE  /\ Whole(HeapAdd(it, h, a)) /\ Ordered(it, HeapAdd(it, h, a))
         /\ Items(HeapAdd(it, h, a)) = Items(h) \cup {a}
<1>1. Len(h) \in Nat /\ h \in Holding(Len(h), Items(h))
  BY WholeIs
<1>2. PICK n, R : n \in Nat /\ n = Len(h) /\ R = Items(h)
  BY <1>1
<1>3. h \in Holding(n, R) /\ a \notin R /\ Timed(it, R \cup {a})
  BY <1>1, <1>2
<1>4. HeapAdd(it, h, a) \in Holding(n + 1, R \cup {a}) /\ Ordered(it, HeapAdd(it, h, a))
  BY <1>2, <1>3, HeapAddIs
<1>5. QED
  BY <1>2, <1>4 DEF Whole, Holding

\* The root leaves the heap.
LEMMA Leaves ==
  ASSUME NEW h, NEW it, Whole(h), Ordered(it, h), Timed(it, Items(h)), h # <<>>
  PROVE  /\ Whole(HeapPop(it, h)) /\ Ordered(it, HeapPop(it, h))
         /\ Items(HeapPop(it, h)) = Items(h) \ {h[1]} /\ Len(HeapPop(it, h)) = Len(h) - 1
         /\ h[1] \in Items(h) /\ h[1] \in Item
         /\ \A a \in Items(h) : it[h[1]].expire <= it[a].expire
<1>1. Len(h) \in Nat /\ h \in Holding(Len(h), Items(h)) /\ h \in Seq(Item)
  BY WholeIs DEF Whole
<1>2. Len(h) # 0
  BY <1>1
<1>3. PICK n, R : n \in Nat /\ n = Len(h) - 1 /\ R = Items(h)
  BY <1>1, <1>2
<1>4. h \in Holding(n + 1, R) /\ Timed(it, R) /\ n + 1 \in Nat \ {0}
  BY <1>1, <1>2, <1>3
<1>5. HeapPop(it, h) \in Holding(n, R \ {h[1]}) /\ Ordered(it, HeapPop(it, h))
  BY <1>3, <1>4, HeapPopIs
<1>6. h[1] \in R /\ \A a \in R : it[h[1]].expire <= it[a].expire
  BY <1>4, RootFirst
<1>7. h[1] \in Item
  BY <1>1, <1>2
<1>8. QED
  BY <1>3, <1>5, <1>6, <1>7 DEF Whole, Holding

\* An item goes to the end of the array.
LEMMA Follows ==
  ASSUME NEW t, Whole(t), NEW a \in Item, a \notin Items(t)
  PROVE  /\ Whole(Append(t, a)) /\ Items(Append(t, a)) = Items(t) \cup {a}
         /\ Len(Append(t, a)) = Len(t) + 1
<1>1. Len(t) \in Nat /\ t \in Holding(Len(t), Items(t))
  BY WholeIs
<1>2. PICK n, R : n \in Nat /\ n = Len(t) /\ R = Items(t)
  BY <1>1
<1>3. t \in Holding(n, R) /\ a \notin R
  BY <1>1, <1>2
<1>4. Append(t, a) \in Holding(n + 1, R \cup {a})
  BY <1>2, <1>3, AppendIs
<1>5. QED
  BY <1>2, <1>4 DEF Whole, Holding

\* The last item leaves the array.
LEMMA Departs ==
  ASSUME NEW t, Whole(t), t # <<>>
  PROVE  /\ Whole(Front(t)) /\ Items(Front(t)) = Items(t) \ {Last(t)}
         /\ Last(t) \in Items(t) /\ Last(t) \in Item
<1>1. Len(t) \in Nat /\ t \in Holding(Len(t), Items(t)) /\ t \in Seq(Item)
  BY WholeIs DEF Whole
<1>2. Len(t) # 0
  BY <1>1
<1>3. PICK n, R : n \in Nat /\ n = Len(t) - 1 /\ R = Items(t)
  BY <1>1, <1>2
<1>4. t \in Holding(n + 1, R)
  BY <1>1, <1>2, <1>3
<1>5. Last(t) \in R /\ Front(t) \in Holding(n, R \ {Last(t)})
  BY <1>3, <1>4, FrontIs
<1>6. Last(t) \in Item
  BY <1>1, <1>3, <1>5 DEF Items
<1>7. QED
  BY <1>3, <1>5, <1>6 DEF Whole, Holding

-----------------------------------------------------------------------------
(* The first loop of jetnet_timer_mgr_update.                              *)

\* The states of the loop: n items, those of R, some of them popped, and those due.
Popping(n, R) ==
  {s \in [heap : Seq(Item), trigger : Seq(Item)] :
     /\ Whole(s.heap) /\ Whole(s.trigger) /\ Len(s.heap) + Len(s.trigger) = n
     /\ Items(s.heap) \cap Items(s.trigger) = {} /\ Items(s.heap) \cup Items(s.trigger) = R
     /\ Ordered(item, s.heap)
     /\ \A a \in Items(s.trigger) : item[a].expire <= now}

\* Nothing in the heap is due any more.
Settled(s) == \A a \in Items(s.heap) : item[a].expire > now

LEMMA PopNextIs ==
  ASSUME NEW n \in Nat, NEW R, Timed(item, R), now \in Nat, NEW s \in Popping(n, R)
  PROVE  /\ PopNext(s) \in Popping(n, R)
         /\ \/ Len(PopNext(s).trigger) = Len(s.trigger) + 1 /\ ~ Settled(s)
            \/ PopNext(s) = s /\ Settled(s)
<1>1. PICK h, t : s = [heap |-> h, trigger |-> t]
  BY DEF Popping
<1>2. /\ Whole(h) /\ Whole(t) /\ Len(h) + Len(t) = n
      /\ Items(h) \cap Items(t) = {} /\ Items(h) \cup Items(t) = R
      /\ Ordered(item, h) /\ \A a \in Items(t) : item[a].expire <= now
  BY <1>1 DEF Popping
<1>3. Len(h) \in Nat /\ Len(t) \in Nat
  BY <1>2, WholeIs
<1>4. Timed(item, Items(h)) /\ \A a \in Items(h) : item[a].expire \in Nat
  BY <1>2 DEF Timed
<1>5. CASE h = <<>>
  <2>1. PopNext(s) = s
    BY <1>1, <1>5 DEF PopNext
  <2>2. Settled(s)
    BY <1>1, <1>5, EmptyIs DEF Settled
  <2>3. QED
    BY <2>1, <2>2
<1>6. CASE h # <<>>
  <2>1. /\ Whole(HeapPop(item, h)) /\ Ordered(item, HeapPop(item, h))
        /\ Items(HeapPop(item, h)) = Items(h) \ {h[1]} /\ Len(HeapPop(item, h)) = Len(h) - 1
        /\ h[1] \in Items(h) /\ h[1] \in Item
        /\ \A a \in Items(h) : item[h[1]].expire <= item[a].expire
    BY <1>2, <1>4, <1>6, Leaves
  <2>2. PICK a \in Item : a = h[1] /\ a \in Items(h)
    BY <2>1
  <2>3. item[a].expire \in Nat
    BY <1>4, <2>2
  <2>4. CASE item[a].expire > now
    <3>1. PopNext(s) = s
      BY <1>1, <2>2, <2>4 DEF PopNext
    <3>2. ASSUME NEW b \in Items(h)
          PROVE  item[b].expire > now
      <4>1. item[a].expire <= item[b].expire /\ item[b].expire \in Nat
        BY <1>4, <2>1, <2>2
      <4>2. QED
        BY <2>3, <2>4, <4>1
    <3>3. Settled(s)
      BY <1>1, <3>2 DEF Settled
    <3>4. QED
      BY <3>1, <3>3
  <2>5. CASE ~ (item[a].expire > now)
    <3>1. PICK g : /\ g = HeapPop(item, h) /\ Whole(g) /\ Ordered(item, g)
                   /\ Items(g) = Items(h) \ {a} /\ Len(g) = Len(h) - 1
      BY <2>1, <2>2
    <3>2. PICK u : /\ u = Append(t, a) /\ Whole(u) /\ Items(u) = Items(t) \cup {a}
                   /\ Len(u) = Len(t) + 1
      <4>1. a \notin Items(t)
        BY <1>2, <2>2
      <4>2. QED
        BY <1>2, <4>1, Follows
    <3>3. PopNext(s) = [heap |-> g, trigger |-> u]
      BY <1>1, <1>6, <2>2, <2>5, <3>1, <3>2 DEF PopNext
    <3>4. item[a].expire <= now
      BY <2>3, <2>5
    <3>5. Len(g) + Len(u) = n
      BY <1>2, <1>3, <3>1, <3>2
    <3>6. Items(g) \cap Items(u) = {} /\ Items(g) \cup Items(u) = R
      BY <1>2, <2>2, <3>1, <3>2
    <3>7. \A b \in Items(u) : item[b].expire <= now
      BY <1>2, <3>2, <3>4
    <3>8. g \in Seq(Item) /\ u \in Seq(Item)
      BY <3>1, <3>2 DEF Whole
    <3>9. [heap |-> g, trigger |-> u] \in Popping(n, R)
      BY <3>1, <3>2, <3>5, <3>6, <3>7, <3>8 DEF Popping
    <3>10. ~ Settled(s)
      BY <1>1, <2>2, <2>5 DEF Settled
    <3>11. QED
      BY <1>1, <3>2, <3>3, <3>9, <3>10
  <2>6. QED
    BY <2>4, <2>5
<1>7. QED
  BY <1>5, <1>6

\* The loop ends when nothing that is due is left.
LEMMA PopDueIs ==
  ASSUME NEW h, Whole(h), Ordered(item, h), Timed(item, Items(h)), now \in Nat
  PROVE  /\ PopDue(h, <<>>) \in Popping(Len(h), Items(h))
         /\ Settled(PopDue(h, <<>>))
<1> DEFINE n == Len(h)
           R == Items(h)
           S == Popping(n, R)
           s == [heap |-> h, trigger |-> <<>>]
           F == [t \in S |-> PopNext(t)]
           Body(p) == [k \in 0 .. n |-> IF k = 0 THEN s ELSE PopNext(p[k - 1])]
<1>1. n \in Nat /\ h \in Seq(Item)
  BY WholeIs DEF Whole
<1>2. s \in S
  <2>1. Len(<<>>) = 0 /\ <<>> \in Seq(Item)
    OBVIOUS
  <2>2. QED
    BY <1>1, <2>1, EmptyIs DEF Popping
<1>3. F \in [S -> S] /\ \A t \in S : F[t] = PopNext(t)
  BY <1>1, PopNextIs
<1>4. PICK f \in [0 .. n -> S] : Rounds(f, n, s, F)
  <2> HIDE DEF n, S, s, F
  <2>1. QED
    BY <1>1, <1>2, <1>3, LoopRuns
<1>5. f = Body(f)
  <2>1. \A k \in 0 .. n : f[k] = IF k = 0 THEN s ELSE PopNext(f[k - 1])
    <3> HIDE DEF n, S, s, F
    <3> TAKE k \in 0 .. n
    <3>1. f[k] = IF k = 0 THEN s ELSE F[f[k - 1]]
      BY <1>4 DEF Rounds
    <3>2. k # 0 => k - 1 \in 0 .. n /\ f[k - 1] \in S
      BY <1>1
    <3>3. QED
      BY <1>3, <3>1, <3>2
  <2> HIDE DEF n, S, s, F
  <2>2. QED
    BY <2>1
<1> DEFINE p == CHOOSE p : p = Body(p)
<1>6. PopDue(h, <<>>) = p[n]
  BY <1>1 DEF PopDue
<1>7. p = Body(p)
  <2> HIDE DEF Body
  <2>1. QED
    BY <1>5
<1> HIDE DEF p
<1>8. p[0] = s /\ \A k \in 1 .. n : p[k] = PopNext(p[k - 1])
  <2> HIDE DEF s, n
  <2>1. QED
    BY <1>1, <1>7
<1> HIDE DEF s, n, R
<1> DEFINE T == {k \in 0 .. n : /\ p[k] \in S
                                /\ Settled(p[k]) \/ Len(p[k].trigger) >= k}
<1>9. 0 \in T
  <2>1. p[0] \in S /\ Len(p[0].trigger) = 0
    BY <1>2, <1>8 DEF s
  <2>2. QED
    BY <1>1, <2>1
<1>10. ASSUME NEW k \in 0 .. n - 1, k \in T
       PROVE  k + 1 \in T
  <2>1. p[k] \in S /\ (Settled(p[k]) \/ Len(p[k].trigger) >= k)
    BY <1>10
  <2>2. k + 1 \in 1 .. n /\ (k + 1) - 1 = k
    BY <1>1
  <2>3. p[k + 1] = PopNext(p[k])
    BY <1>8, <2>2
  <2>4. PICK t \in S : t = p[k]
    BY <2>1
  <2>5. PICK u : u = p[k + 1]
    OBVIOUS
  <2>6. u = PopNext(t)
    BY <2>3, <2>4, <2>5
  <2>7. /\ u \in S
        /\ (Len(u.trigger) = Len(t.trigger) + 1 /\ ~ Settled(t)) \/ (u = t /\ Settled(t))
    <3>1. Timed(item, R)
      BY DEF R
    <3>2. QED
      BY <1>1, <2>4, <2>6, <3>1, PopNextIs
  <2>8. Len(t.trigger) \in Nat
    BY <2>4, WholeIs DEF Popping
  <2>9. Settled(u) \/ Len(u.trigger) >= k + 1
    BY <2>1, <2>4, <2>7, <2>8
  <2>10. k + 1 \in 0 .. n
    BY <1>1
  <2>11. QED
    BY <2>5, <2>7, <2>9, <2>10
<1>11. n \in T
  <2> HIDE DEF T
  <2>1. \A k \in 0 .. n : k \in T
    BY <1>1, <1>9, <1>10, Ascends
  <2>2. QED
    BY <1>1, <2>1
<1>12. Settled(p[n])
  <2>1. PICK u : u = p[n]
    OBVIOUS
  <2>2. /\ Whole(u.heap) /\ Whole(u.trigger) /\ Len(u.heap) + Len(u.trigger) = n
        /\ Settled(u) \/ Len(u.trigger) >= n
    BY <1>11, <2>1 DEF Popping
  <2>3. Len(u.heap) \in Nat /\ Len(u.trigger) \in Nat /\ u.heap \in Seq(Item)
    BY <2>2, WholeIs DEF Whole
  <2>4. CASE Len(u.trigger) >= n
    <3>1. Len(u.heap) = 0
      BY <1>1, <2>2, <2>3, <2>4
    <3>2. Items(u.heap) = {}
      BY <3>1 DEF Items
    <3>3. QED
      BY <2>1, <3>2 DEF Settled
  <2>5. QED
    BY <2>1, <2>2, <2>4
<1>13. QED
  BY <1>6, <1>11, <1>12 DEF n, R

-----------------------------------------------------------------------------
(* The invariant.                                                          *)

\* The heap h and the array t hold the allocated items, each once, and the heap is
\* in order.
Held(it, h, t) ==
  /\ DOMAIN it \subseteq Item /\ \A a \in DOMAIN it : it[a] \in ItemRecord
  /\ Whole(h) /\ Whole(t)
  /\ Items(h) \cap Items(t) = {} /\ Items(h) \cup Items(t) = DOMAIN it
  /\ Ordered(it, h)

\* Of the ids given out, c of them, no two items have the same one, and the tree d
\* has those whose item has its callback still.
Named(it, d, c) ==
  /\ DOMAIN d \subseteq 1 .. c
  /\ \A a \in DOMAIN it : it[a].id \in 1 .. c
  /\ \A a, b \in DOMAIN it : it[a].id = it[b].id => a = b
  /\ \A id \in DOMAIN d : d[id] \in DOMAIN it /\ it[d[id]].id = id /\ it[d[id]].cb
  /\ \A a \in DOMAIN it : it[a].cb => it[a].id \in DOMAIN d

Inv ==
  /\ Held(item, heap, trigger)
  /\ Named(item, ids, counter)
  /\ up \in BOOLEAN /\ inside \in BOOLEAN
  /\ counter \in 0 .. MaxId /\ now \in 0 .. MaxNow
  /\ inside => trigger # <<>>
  /\ ~up => heap = <<>> /\ trigger = <<>>

-----------------------------------------------------------------------------
(* What the actions do to the items, the heap and the trigger array.       *)

LEMMA HeldTimes ==
  ASSUME NEW it, NEW h, NEW t, Held(it, h, t)
  PROVE  Timed(it, DOMAIN it) /\ Timed(it, Items(h)) /\ Timed(it, Items(t))
<1>1. Timed(it, DOMAIN it)
  BY DEF Held, Timed, ItemRecord
<1>2. Items(h) \subseteq DOMAIN it /\ Items(t) \subseteq DOMAIN it
  BY DEF Held
<1>3. QED
  BY <1>1, <1>2 DEF Timed

\* A new item.
LEMMA HeldCreate ==
  ASSUME NEW it, NEW h, NEW t, Held(it, h, t), NEW a \in Item \ DOMAIN it,
         NEW r \in ItemRecord, NEW jt, jt = With(it, a, r)
  PROVE  Held(jt, HeapAdd(jt, h, a), t)
<1>1. /\ DOMAIN jt = DOMAIN it \cup {a} /\ jt[a] = r
      /\ \A b \in DOMAIN it : jt[b] = it[b]
  BY DEF With
<1>2. /\ Whole(h) /\ Whole(t) /\ DOMAIN it \subseteq Item
      /\ Items(h) \cap Items(t) = {} /\ Items(h) \cup Items(t) = DOMAIN it
      /\ Ordered(it, h) /\ \A b \in DOMAIN it : it[b] \in ItemRecord
  BY DEF Held
<1>3. \A b \in DOMAIN jt : jt[b] \in ItemRecord
  BY <1>1, <1>2
<1>4. Timed(jt, Items(h) \cup {a})
  BY <1>1, <1>2, <1>3 DEF Timed, ItemRecord
<1>5. Ordered(jt, h)
  BY <1>1, <1>2, OrderIs
<1>6. a \notin Items(h)
  BY <1>2
<1>7. /\ Whole(HeapAdd(jt, h, a)) /\ Ordered(jt, HeapAdd(jt, h, a))
      /\ Items(HeapAdd(jt, h, a)) = Items(h) \cup {a}
  BY <1>2, <1>4, <1>5, <1>6, Joins
<1>8. QED
  BY <1>1, <1>2, <1>3, <1>7 DEF Held

\* An item changes, but not its time.
LEMMA HeldChange ==
  ASSUME NEW it, NEW h, NEW t, Held(it, h, t), NEW jt, DOMAIN jt = DOMAIN it,
         \A b \in DOMAIN it : jt[b] \in ItemRecord /\ jt[b].expire = it[b].expire
  PROVE  Held(jt, h, t)
<1>1. Whole(h) /\ Ordered(it, h) /\ \A a \in Items(h) : jt[a].expire = it[a].expire
  BY DEF Held
<1>2. Ordered(jt, h)
  BY <1>1, OrderIs
<1>3. QED
  BY <1>2 DEF Held

\* The last item of the array goes back into the heap, with another time.
LEMMA HeldRearm ==
  ASSUME NEW it, NEW h, NEW t, Held(it, h, t), t # <<>>, NEW a, a = Last(t),
         NEW jt, DOMAIN jt = DOMAIN it, jt[a] \in ItemRecord,
         \A b \in DOMAIN it : b # a => jt[b] = it[b]
  PROVE  Held(jt, HeapAdd(jt, h, a), Front(t))
<1>1. /\ Whole(h) /\ Whole(t) /\ DOMAIN it \subseteq Item
      /\ Items(h) \cap Items(t) = {} /\ Items(h) \cup Items(t) = DOMAIN it
      /\ Ordered(it, h) /\ \A b \in DOMAIN it : it[b] \in ItemRecord
  BY DEF Held
<1>2. /\ Whole(Front(t)) /\ Items(Front(t)) = Items(t) \ {a}
      /\ a \in Items(t) /\ a \in Item
  BY <1>1, Departs
<1>3. \A b \in DOMAIN jt : jt[b] \in ItemRecord
  BY <1>1
<1>4. a \notin Items(h)
  BY <1>1, <1>2
<1>5. Timed(jt, Items(h) \cup {a})
  BY <1>1, <1>2, <1>3 DEF Timed, ItemRecord
<1>6. Ordered(jt, h)
  BY <1>1, <1>4, OrderIs
<1>7. /\ Whole(HeapAdd(jt, h, a)) /\ Ordered(jt, HeapAdd(jt, h, a))
      /\ Items(HeapAdd(jt, h, a)) = Items(h) \cup {a}
  BY <1>1, <1>2, <1>4, <1>5, <1>6, Joins
<1>8. QED
  BY <1>1, <1>2, <1>3, <1>7 DEF Held

\* The last item of the array is freed.
LEMMA HeldFree ==
  ASSUME NEW it, NEW h, NEW t, Held(it, h, t), t # <<>>,
         NEW jt, jt = Restrict(it, DOMAIN it \ {Last(t)})
  PROVE  Held(jt, h, Front(t))
<1>1. /\ Whole(h) /\ Whole(t) /\ DOMAIN it \subseteq Item
      /\ Items(h) \cap Items(t) = {} /\ Items(h) \cup Items(t) = DOMAIN it
      /\ Ordered(it, h) /\ \A b \in DOMAIN it : it[b] \in ItemRecord
  BY DEF Held
<1>2. /\ Whole(Front(t)) /\ Items(Front(t)) = Items(t) \ {Last(t)}
      /\ Last(t) \in Items(t)
  BY <1>1, Departs
<1>3. DOMAIN jt = DOMAIN it \ {Last(t)} /\ \A b \in DOMAIN jt : jt[b] = it[b]
  BY DEF Restrict
<1>4. \A b \in Items(h) : jt[b].expire = it[b].expire
  <2>1. \A b \in Items(h) : b \in DOMAIN jt
    BY <1>1, <1>2, <1>3
  <2>2. QED
    BY <1>3, <2>1
<1>5. Ordered(jt, h)
  BY <1>1, <1>4, OrderIs
<1>6. QED
  BY <1>1, <1>2, <1>3, <1>5 DEF Held

-----------------------------------------------------------------------------
(* What they do to the ids.                                                *)

LEMMA NamedCreate ==
  ASSUME NEW it, NEW d, NEW c \in Nat, Named(it, d, c), NEW a, a \notin DOMAIN it,
         NEW r, r.id = c + 1, r.cb = TRUE
  PROVE  Named(With(it, a, r), With(d, c + 1, a), c + 1)
<1>1. PICK jt : jt = With(it, a, r)
  OBVIOUS
<1>2. PICK e : e = With(d, c + 1, a)
  OBVIOUS
<1>3. /\ DOMAIN jt = DOMAIN it \cup {a} /\ jt[a] = r
      /\ \A b \in DOMAIN it : jt[b] = it[b]
  BY <1>1 DEF With
<1>4. /\ DOMAIN e = DOMAIN d \cup {c + 1} /\ e[c + 1] = a
      /\ \A i \in DOMAIN d : i # c + 1 => e[i] = d[i]
  BY <1>2 DEF With
<1>5. /\ DOMAIN d \subseteq 1 .. c
      /\ \A b \in DOMAIN it : it[b].id \in 1 .. c
      /\ \A b, b2 \in DOMAIN it : it[b].id = it[b2].id => b = b2
      /\ \A i \in DOMAIN d : d[i] \in DOMAIN it /\ it[d[i]].id = i /\ it[d[i]].cb
      /\ \A b \in DOMAIN it : it[b].cb => it[b].id \in DOMAIN d
  BY DEF Named
<1>6. c + 1 \notin 1 .. c /\ c + 1 \in 1 .. c + 1 /\ \A i \in 1 .. c : i \in 1 .. c + 1
  OBVIOUS
<1>7. DOMAIN e \subseteq 1 .. c + 1
  BY <1>4, <1>5, <1>6
<1>8. \A b \in DOMAIN jt : jt[b].id \in 1 .. c + 1
  BY <1>3, <1>5, <1>6
<1>9. \A b, b2 \in DOMAIN jt : jt[b].id = jt[b2].id => b = b2
  BY <1>3, <1>5, <1>6
<1>10. ASSUME NEW i \in DOMAIN e
       PROVE  e[i] \in DOMAIN jt /\ jt[e[i]].id = i /\ jt[e[i]].cb
  <2>1. CASE i = c + 1
    BY <1>3, <1>4, <2>1
  <2>2. CASE i # c + 1
    <3>1. i \in DOMAIN d /\ e[i] = d[i]
      BY <1>4, <2>2
    <3>2. d[i] \in DOMAIN it /\ jt[d[i]] = it[d[i]]
      BY <1>3, <1>5, <3>1
    <3>3. QED
      BY <1>3, <1>5, <3>1, <3>2
  <2>3. QED
    BY <2>1, <2>2
<1>11. \A b \in DOMAIN jt : jt[b].cb => jt[b].id \in DOMAIN e
  BY <1>3, <1>4, <1>5
<1>12. Named(jt, e, c + 1)
  BY <1>7, <1>8, <1>9, <1>10, <1>11 DEF Named
<1>13. QED
  BY <1>1, <1>2, <1>12

\* Items that keep their ids and their callbacks.
LEMMA NamedChange ==
  ASSUME NEW it, NEW d, NEW c, Named(it, d, c), NEW jt, DOMAIN jt = DOMAIN it,
         \A b \in DOMAIN it : jt[b].id = it[b].id /\ jt[b].cb = it[b].cb
  PROVE  Named(jt, d, c)
  BY DEF Named

\* An item loses its callback and its id.
LEMMA NamedKill ==
  ASSUME NEW it, NEW d, NEW c, Named(it, d, c), NEW id \in DOMAIN d,
         \A b \in DOMAIN it : it[b] \in ItemRecord,
         NEW jt, jt = [it EXCEPT ![d[id]].cb = FALSE]
  PROVE  Named(jt, Restrict(d, DOMAIN d \ {id}), c)
<1>1. PICK e : e = Restrict(d, DOMAIN d \ {id})
  OBVIOUS
<1>2. DOMAIN e = DOMAIN d \ {id} /\ \A i \in DOMAIN e : e[i] = d[i]
  BY <1>1 DEF Restrict
<1>3. PICK a \in DOMAIN it : a = d[id] /\ it[a].id = id
  BY DEF Named
<1>4. /\ DOMAIN jt = DOMAIN it
      /\ jt[a].id = id /\ jt[a].cb = FALSE
      /\ \A b \in DOMAIN it : b # a => jt[b] = it[b]
  BY <1>3 DEF ItemRecord
<1>5. \A b \in DOMAIN it : jt[b].id = it[b].id
  BY <1>3, <1>4
<1>6. ASSUME NEW i \in DOMAIN e
      PROVE  e[i] \in DOMAIN jt /\ jt[e[i]].id = i /\ jt[e[i]].cb
  <2>1. i \in DOMAIN d /\ i # id /\ e[i] = d[i]
    BY <1>2
  <2>2. d[i] \in DOMAIN it /\ it[d[i]].id = i /\ it[d[i]].cb
    BY <2>1 DEF Named
  <2>3. d[i] # a
    BY <1>3, <2>1, <2>2
  <2>4. QED
    BY <1>4, <2>1, <2>2, <2>3
<1>7. ASSUME NEW b \in DOMAIN jt, jt[b].cb
      PROVE  jt[b].id \in DOMAIN e
  <2>1. b # a /\ b \in DOMAIN it /\ jt[b] = it[b]
    BY <1>4, <1>7
  <2>2. it[b].id \in DOMAIN d /\ it[b].id # id
    BY <1>3, <1>7, <2>1 DEF Named
  <2>3. QED
    BY <1>2, <2>1, <2>2
<1>8. /\ DOMAIN e \subseteq 1 .. c
      /\ \A b \in DOMAIN jt : jt[b].id \in 1 .. c
      /\ \A b, b2 \in DOMAIN jt : jt[b].id = jt[b2].id => b = b2
  BY <1>2, <1>4, <1>5 DEF Named
<1>9. QED
  BY <1>1, <1>6, <1>7, <1>8 DEF Named

\* An item without a callback is freed.
LEMMA NamedFree ==
  ASSUME NEW it, NEW d, NEW c, Named(it, d, c), NEW a \in DOMAIN it, ~ it[a].cb,
         NEW jt, jt = Restrict(it, DOMAIN it \ {a})
  PROVE  Named(jt, d, c)
<1>1. DOMAIN jt = DOMAIN it \ {a} /\ \A b \in DOMAIN jt : jt[b] = it[b]
  BY DEF Restrict
<1>2. ASSUME NEW i \in DOMAIN d
      PROVE  d[i] \in DOMAIN jt /\ jt[d[i]].id = i /\ jt[d[i]].cb
  <2>1. d[i] \in DOMAIN it /\ it[d[i]].id = i /\ it[d[i]].cb
    BY DEF Named
  <2>2. d[i] # a
    BY <2>1
  <2>3. QED
    BY <1>1, <2>1, <2>2
<1>3. \A b \in DOMAIN jt : b \in DOMAIN it /\ jt[b].id = it[b].id /\ jt[b].cb = it[b].cb
  BY <1>1
<1>4. /\ DOMAIN d \subseteq 1 .. c
      /\ \A b \in DOMAIN jt : jt[b].id \in 1 .. c
      /\ \A b \in DOMAIN jt : jt[b].cb => jt[b].id \in DOMAIN d
  BY <1>3 DEF Named
<1>5. ASSUME NEW b \in DOMAIN jt, NEW b2 \in DOMAIN jt, jt[b].id = jt[b2].id
      PROVE  b = b2
  <2>1. b \in DOMAIN it /\ b2 \in DOMAIN it /\ it[b].id = it[b2].id
    BY <1>3, <1>5
  <2>2. QED
    BY <2>1 DEF Named
<1>6. QED
  BY <1>2, <1>4, <1>5 DEF Named

\* An item is freed, and its id taken out of the tree.
LEMMA NamedFinish ==
  ASSUME NEW it, NEW d, NEW c, Named(it, d, c), NEW a \in DOMAIN it,
         NEW jt, jt = Restrict(it, DOMAIN it \ {a})
  PROVE  Named(jt, Restrict(d, DOMAIN d \ {it[a].id}), c)
<1>1. DOMAIN jt = DOMAIN it \ {a} /\ \A b \in DOMAIN jt : jt[b] = it[b]
  BY DEF Restrict
<1>2. PICK e : e = Restrict(d, DOMAIN d \ {it[a].id})
  OBVIOUS
<1>3. DOMAIN e = DOMAIN d \ {it[a].id} /\ \A i \in DOMAIN e : e[i] = d[i]
  BY <1>2 DEF Restrict
<1>4. ASSUME NEW i \in DOMAIN e
      PROVE  e[i] \in DOMAIN jt /\ jt[e[i]].id = i /\ jt[e[i]].cb
  <2>1. i \in DOMAIN d /\ i # it[a].id /\ e[i] = d[i]
    BY <1>3
  <2>2. d[i] \in DOMAIN it /\ it[d[i]].id = i /\ it[d[i]].cb
    BY <2>1 DEF Named
  <2>3. d[i] # a
    BY <2>1, <2>2
  <2>4. QED
    BY <1>1, <2>1, <2>2, <2>3
<1>5. ASSUME NEW b \in DOMAIN jt, jt[b].cb
      PROVE  jt[b].id \in DOMAIN e
  <2>1. b \in DOMAIN it /\ b # a /\ jt[b] = it[b]
    BY <1>1
  <2>2. it[b].id \in DOMAIN d /\ it[b].id # it[a].id
    BY <1>5, <2>1 DEF Named
  <2>3. QED
    BY <1>3, <2>1, <2>2
<1>6. /\ DOMAIN e \subseteq 1 .. c
      /\ \A b \in DOMAIN jt : b \in DOMAIN it /\ jt[b].id = it[b].id /\ jt[b].id \in 1 .. c
  BY <1>1, <1>3 DEF Named
<1>7. ASSUME NEW b \in DOMAIN jt, NEW b2 \in DOMAIN jt, jt[b].id = jt[b2].id
      PROVE  b = b2
  <2>1. b \in DOMAIN it /\ b2 \in DOMAIN it /\ it[b].id = it[b2].id
    BY <1>6, <1>7
  <2>2. QED
    BY <2>1 DEF Named
<1>8. QED
  BY <1>2, <1>4, <1>5, <1>6, <1>7 DEF Named

-----------------------------------------------------------------------------
(* Every action keeps the invariant.                                       *)

LEMMA NothingHeld ==
  ASSUME NEW it, DOMAIN it = {}
  PROVE  Held(it, <<>>, <<>>)
  BY EmptyIs DEF Held

LEMMA NothingNamed ==
  ASSUME NEW it, DOMAIN it = {}, NEW d, DOMAIN d = {}, NEW c
  PROVE  Named(it, d, c)
  BY DEF Named

\* With both arrays empty nothing is allocated, and no id is known.
LEMMA NothingLeft ==
  ASSUME NEW it, NEW d, NEW c, Held(it, <<>>, <<>>), Named(it, d, c)
  PROVE  DOMAIN it = {} /\ DOMAIN d = {}
<1>1. DOMAIN it = {}
  BY EmptyIs DEF Held
<1>2. QED
  BY <1>1 DEF Named

LEMMA InvInit ==
  ASSUME Init
  PROVE  Inv
<1>1. DOMAIN item = {} /\ DOMAIN ids = {} /\ heap = <<>> /\ trigger = <<>>
  BY DEF Init
<1>2. Held(item, heap, trigger)
  BY <1>1, NothingHeld
<1>3. Named(item, ids, counter)
  BY <1>1, NothingNamed
<1>4. counter \in 0 .. MaxId /\ now \in 0 .. MaxNow
  BY TimerAssumption DEF Init
<1>5. QED
  BY <1>1, <1>2, <1>3, <1>4 DEF Inv, Init

LEMMA InvCreate ==
  ASSUME Inv, Create
  PROVE  Inv'
<1>1. PICK a \in Item \ DOMAIN item, t \in Timing :
        LET new == [id |-> counter + 1, cb |-> TRUE, delay |-> t.delay, period |-> t.period,
                    repeat |-> t.repeat, expire |-> Expiry(t)]
            it == With(item, a, new)
        IN /\ item' = it
           /\ heap' = HeapAdd(it, heap, a)
           /\ ids' = Registered(counter + 1, a)
  BY DEF Create
<1>2. PICK r : r = [id |-> counter + 1, cb |-> TRUE, delay |-> t.delay, period |-> t.period,
                    repeat |-> t.repeat, expire |-> Expiry(t)]
  OBVIOUS
<1>3. PICK jt : jt = With(item, a, r)
  OBVIOUS
<1>4. item' = jt /\ heap' = HeapAdd(jt, heap, a) /\ ids' = With(ids, counter + 1, a)
  BY <1>1, <1>2, <1>3 DEF Registered
<1>5. /\ Calling /\ counter < MaxId /\ counter' = counter + 1
      /\ up' = up /\ trigger' = trigger /\ inside' = inside /\ now' = now
  BY DEF Create
<1>6. /\ Held(item, heap, trigger) /\ Named(item, ids, counter)
      /\ counter \in 0 .. MaxId /\ now \in 0 .. MaxNow /\ up
      /\ counter + 1 \in 1 .. MaxId /\ counter \in Nat /\ counter + 1 \in 0 .. MaxId
  BY <1>5, TimerAssumption DEF Inv, Calling
<1>7. r \in ItemRecord
  <2>1. t.delay \in Nat /\ t.period \in Nat /\ t.repeat \in Nat
    BY TimerAssumption
  <2>2. now \in Nat
    BY <1>6, TimerAssumption
  <2>3. Expiry(t) \in Nat
    BY <2>1, <2>2 DEF Expiry
  <2>4. QED
    BY <1>2, <1>6, <2>1, <2>3 DEF ItemRecord
<1>8. Held(jt, HeapAdd(jt, heap, a), trigger)
  BY <1>3, <1>6, <1>7, HeldCreate
<1>9. Named(jt, With(ids, counter + 1, a), counter + 1)
  <2>1. r.id = counter + 1 /\ r.cb = TRUE
    BY <1>2
  <2>2. QED
    BY <1>3, <1>6, <2>1, NamedCreate
<1>10. Held(item', heap', trigger')
  BY <1>4, <1>5, <1>8
<1>11. Named(item', ids', counter')
  BY <1>4, <1>5, <1>9
<1>12. QED
  BY <1>5, <1>6, <1>10, <1>11 DEF Inv

LEMMA InvKill ==
  ASSUME Inv, NEW id \in 1 .. MaxId, Kill(id)
  PROVE  Inv'
<1>1. PICK jt : jt = [item EXCEPT ![ids[id]].cb = FALSE]
  OBVIOUS
<1>2. /\ id \in DOMAIN ids /\ item' = jt /\ ids' = Restrict(ids, DOMAIN ids \ {id})
      /\ up' = up /\ heap' = heap /\ trigger' = trigger /\ counter' = counter
      /\ inside' = inside /\ now' = now
  BY <1>1 DEF Kill, Unregistered
<1>3. Held(item, heap, trigger) /\ Named(item, ids, counter)
  BY DEF Inv
<1>4. \A b \in DOMAIN item : item[b] \in ItemRecord
  BY <1>3 DEF Held
<1>5. ids[id] \in DOMAIN item
  BY <1>2, <1>3 DEF Named
<1>6. /\ DOMAIN jt = DOMAIN item
      /\ \A b \in DOMAIN item : jt[b] \in ItemRecord /\ jt[b].expire = item[b].expire
  BY <1>1, <1>4, <1>5 DEF ItemRecord
<1>7. Held(jt, heap, trigger)
  BY <1>3, <1>6, HeldChange
<1>8. Named(jt, Restrict(ids, DOMAIN ids \ {id}), counter)
  BY <1>1, <1>2, <1>3, <1>4, NamedKill
<1>9. Held(item', heap', trigger')
  BY <1>2, <1>7
<1>10. Named(item', ids', counter')
  BY <1>2, <1>8
<1>11. QED
  BY <1>2, <1>9, <1>10 DEF Inv

\* What an update begins with.
LEMMA DueIs ==
  ASSUME Inv, Update, NEW due, due = PopDue(heap, <<>>)
  PROVE  /\ heap' = due.heap /\ trigger' = due.trigger
         /\ due \in Popping(Len(heap), Items(heap)) /\ Settled(due)
         /\ Items(heap) = DOMAIN item
<1>1. trigger = <<>> /\ heap' = due.heap /\ trigger' = due.trigger
  BY DEF Update
<1>2. Held(item, heap, trigger) /\ now \in Nat
  BY TimerAssumption DEF Inv
<1>3. Whole(heap) /\ Ordered(item, heap) /\ Timed(item, Items(heap))
  BY <1>2, HeldTimes DEF Held
<1>4. Items(heap) = DOMAIN item
  BY <1>1, <1>2, EmptyIs DEF Held
<1>5. QED
  BY <1>1, <1>2, <1>3, <1>4, PopDueIs

LEMMA InvUpdate ==
  ASSUME Inv, Update
  PROVE  Inv'
<1>1. PICK due : due = PopDue(heap, <<>>)
  OBVIOUS
<1>2. /\ heap' = due.heap /\ trigger' = due.trigger
      /\ due \in Popping(Len(heap), Items(heap)) /\ Settled(due)
      /\ Items(heap) = DOMAIN item
  BY <1>1, DueIs
<1>3. /\ up /\ trigger = <<>> /\ up' = up /\ item' = item /\ ids' = ids /\ counter' = counter
      /\ inside' = inside /\ now' = now
  BY DEF Update
<1>4. /\ Whole(due.heap) /\ Whole(due.trigger) /\ Ordered(item, due.heap)
      /\ Items(due.heap) \cap Items(due.trigger) = {}
      /\ Items(due.heap) \cup Items(due.trigger) = DOMAIN item
  BY <1>2 DEF Popping
<1>5. Held(item, due.heap, due.trigger)
  BY <1>4 DEF Held, Inv
<1>6. Held(item', heap', trigger')
  BY <1>2, <1>3, <1>5
<1>7. Named(item', ids', counter')
  BY <1>3 DEF Inv
<1>8. ~ inside /\ up
  BY <1>3 DEF Inv
<1>9. QED
  BY <1>3, <1>6, <1>7, <1>8 DEF Inv

\* The item that the update serves.
LEMMA CurIs ==
  ASSUME Inv, trigger # <<>>
  PROVE  /\ Cur \in DOMAIN item /\ item[Cur] \in ItemRecord /\ up
         /\ \A jt, h, d : (/\ Held(jt, h, Front(trigger)) /\ Named(jt, d, counter)
                           /\ item' = jt /\ heap' = h /\ ids' = d
                           /\ trigger' = Front(trigger) /\ inside' = FALSE
                           /\ up' = up /\ counter' = counter /\ now' = now)
                          => Inv'
<1>1. Held(item, heap, trigger)
  BY DEF Inv
<1>2. Whole(trigger) /\ Items(trigger) \subseteq DOMAIN item
  BY <1>1 DEF Held
<1>3. Cur \in Items(trigger)
  BY <1>2, Departs DEF Cur
<1>4. Cur \in DOMAIN item /\ item[Cur] \in ItemRecord
  BY <1>1, <1>2, <1>3 DEF Held
<1>5. up
  BY DEF Inv
<1>6. ASSUME NEW jt, NEW h, NEW d, Held(jt, h, Front(trigger)), Named(jt, d, counter),
             item' = jt, heap' = h, ids' = d, trigger' = Front(trigger), inside' = FALSE,
             up' = up, counter' = counter, now' = now
      PROVE  Inv'
  <2>1. Held(item', heap', trigger')
    BY <1>6
  <2>2. Named(item', ids', counter')
    BY <1>6
  <2>3. QED
    BY <1>5, <1>6, <2>1, <2>2 DEF Inv
<1>7. QED
  BY <1>4, <1>5, <1>6

LEMMA InvFree ==
  ASSUME Inv, trigger # <<>>, ~ item[Cur].cb, item' = Freed(Cur), heap' = heap, ids' = ids,
         trigger' = Front(trigger), inside' = FALSE, up' = up, counter' = counter, now' = now
  PROVE  Inv'
<1>1. PICK jt : jt = Restrict(item, DOMAIN item \ {Cur})
  OBVIOUS
<1>2. item' = jt
  BY <1>1 DEF Freed
<1>3. Held(item, heap, trigger) /\ Named(item, ids, counter) /\ Cur \in DOMAIN item
  BY CurIs DEF Inv
<1>4. Held(jt, heap, Front(trigger))
  BY <1>1, <1>3, HeldFree DEF Cur
<1>5. Named(jt, ids, counter)
  BY <1>1, <1>3, NamedFree
<1>6. QED
  BY <1>2, <1>4, <1>5, CurIs

LEMMA InvRearm ==
  ASSUME Inv, trigger # <<>>, NEW r \in ItemRecord, r.id = item[Cur].id, r.cb = item[Cur].cb,
         NEW jt, jt = [item EXCEPT ![Cur] = r], Rearm(jt),
         trigger' = Front(trigger), inside' = FALSE, up' = up, counter' = counter, now' = now
  PROVE  Inv'
<1>1. item' = jt /\ heap' = HeapAdd(jt, heap, Cur) /\ ids' = ids
  BY DEF Rearm
<1>2. Held(item, heap, trigger) /\ Named(item, ids, counter) /\ Cur \in DOMAIN item
  BY CurIs DEF Inv
<1>3. PICK a : a = Cur
  OBVIOUS
<1>4. /\ DOMAIN jt = DOMAIN item /\ jt[a] = r
      /\ \A b \in DOMAIN item : b # a => jt[b] = item[b]
  BY <1>2, <1>3
<1>5. Held(jt, HeapAdd(jt, heap, a), Front(trigger))
  <2>1. a = Last(trigger) /\ jt[a] \in ItemRecord
    BY <1>3, <1>4 DEF Cur
  <2>2. QED
    BY <1>2, <1>4, <2>1, HeldRearm
<1>6. \A b \in DOMAIN item : jt[b].id = item[b].id /\ jt[b].cb = item[b].cb
  BY <1>3, <1>4
<1>7. Named(jt, ids, counter)
  BY <1>2, <1>4, <1>6, NamedChange
<1>8. QED
  BY <1>1, <1>3, <1>5, <1>7, CurIs

\* The record that a served alarm goes on with.
Postponed == [item[Cur] EXCEPT !.delay = 0, !.expire = now + item[Cur].period]
RungOnce == [item[Cur] EXCEPT !.expire = now + item[Cur].period,
                                !.repeat = IF @ = 0 THEN 0 ELSE @ - 1]

LEMMA PostponeIs ==
  ASSUME Inv, Postpone
  PROVE  /\ trigger # <<>> /\ inside = FALSE
         /\ Postponed \in ItemRecord /\ Postponed.id = item[Cur].id
         /\ Postponed.cb = item[Cur].cb
         /\ Rearm([item EXCEPT ![Cur] = Postponed])
<1>1. item[Cur] \in ItemRecord /\ Cur \in DOMAIN item /\ trigger # <<>> /\ inside = FALSE
  BY CurIs DEF Postpone, Serving, Inv
<1>2. now + item[Cur].period \in Nat
  <2>1. now \in Nat
    BY TimerAssumption DEF Inv
  <2>2. item[Cur].period \in Nat
    BY <1>1 DEF ItemRecord
  <2>3. QED
    BY <2>1, <2>2
<1>3. PICK r \in ItemRecord : r = item[Cur]
  BY <1>1
<1>4. /\ Postponed \in ItemRecord /\ Postponed.id = item[Cur].id
      /\ Postponed.cb = item[Cur].cb
  BY <1>2, <1>3 DEF ItemRecord, Postponed
<1>5. [item EXCEPT ![Cur].delay = 0, ![Cur].expire = now + item[Cur].period]
        = [item EXCEPT ![Cur] = Postponed]
  BY <1>1 DEF Postponed
<1>6. QED
  BY <1>1, <1>4, <1>5 DEF Postpone

LEMMA AgainIs ==
  ASSUME Inv, trigger # <<>>, Again
  PROVE  /\ RungOnce \in ItemRecord /\ RungOnce.id = item[Cur].id
         /\ RungOnce.cb = item[Cur].cb
         /\ Rearm([item EXCEPT ![Cur] = RungOnce])
<1>1. item[Cur] \in ItemRecord /\ Cur \in DOMAIN item
  BY CurIs
<1>2. now + item[Cur].period \in Nat
  <2>1. now \in Nat
    BY TimerAssumption DEF Inv
  <2>2. item[Cur].period \in Nat
    BY <1>1 DEF ItemRecord
  <2>3. QED
    BY <2>1, <2>2
<1>3. PICK r \in ItemRecord : r = item[Cur]
  BY <1>1
<1>4. PICK left \in Nat : left = IF r.repeat = 0 THEN 0 ELSE r.repeat - 1
  BY DEF ItemRecord
<1>5. /\ RungOnce \in ItemRecord /\ RungOnce.id = item[Cur].id
      /\ RungOnce.cb = item[Cur].cb
  BY <1>2, <1>3, <1>4 DEF ItemRecord, RungOnce
<1>6. [item EXCEPT ![Cur].expire = now + item[Cur].period,
                   ![Cur].repeat = IF @ = 0 THEN 0 ELSE @ - 1]
        = [item EXCEPT ![Cur] = RungOnce]
  BY <1>1 DEF RungOnce
<1>7. QED
  BY <1>5, <1>6 DEF Again

LEMMA InvFinish ==
  ASSUME Inv, trigger # <<>>, Finish,
         trigger' = Front(trigger), inside' = FALSE, up' = up, counter' = counter, now' = now
  PROVE  Inv'
<1>1. PICK jt : jt = Restrict(item, DOMAIN item \ {Cur})
  OBVIOUS
<1>2. PICK d : d = Restrict(ids, DOMAIN ids \ {item[Cur].id})
  OBVIOUS
<1>3. item' = jt /\ heap' = heap /\ ids' = d
  BY <1>1, <1>2 DEF Finish, Freed, Unregistered
<1>4. Held(item, heap, trigger) /\ Named(item, ids, counter) /\ Cur \in DOMAIN item
  BY CurIs DEF Inv
<1>5. Held(jt, heap, Front(trigger))
  BY <1>1, <1>4, HeldFree DEF Cur
<1>6. Named(jt, d, counter)
  BY <1>1, <1>2, <1>4, NamedFinish
<1>7. QED
  BY <1>3, <1>5, <1>6, CurIs

LEMMA InvRelease ==
  ASSUME Inv, Release
  PROVE  Inv'
<1>1. /\ trigger = <<>> /\ trigger' = trigger /\ heap' = <<>> /\ up' = FALSE
      /\ item' = Restrict(item, DOMAIN item \ Range(heap)) /\ ids' = [id \in {} |-> 0]
      /\ counter' = counter /\ inside' = inside /\ now' = now
  BY DEF Release
<1>2. Held(item, heap, trigger)
  BY DEF Inv
<1>3. Items(heap) = DOMAIN item /\ heap \in Seq(Item)
  BY <1>1, <1>2, EmptyIs DEF Held, Whole
<1>4. Range(heap) = Items(heap)
  BY <1>3, AsRange
<1>5. PICK jt : jt = Restrict(item, DOMAIN item \ Range(heap))
  OBVIOUS
<1>6. DOMAIN jt = {}
  BY <1>3, <1>4, <1>5 DEF Restrict
<1>7. PICK d : d = [id \in {} |-> 0]
  OBVIOUS
<1>8. DOMAIN d = {}
  BY <1>7
<1>9. Held(jt, <<>>, <<>>) /\ Named(jt, d, counter)
  BY <1>6, <1>8, NothingHeld, NothingNamed
<1>10. Held(item', heap', trigger')
  BY <1>1, <1>5, <1>9
<1>11. Named(item', ids', counter')
  BY <1>1, <1>5, <1>7, <1>9
<1>12. QED
  BY <1>1, <1>10, <1>11 DEF Inv

LEMMA InvStart ==
  ASSUME Inv, Start
  PROVE  Inv'
<1>1. /\ ~ up /\ up' = TRUE /\ counter' = 0 /\ item' = item /\ heap' = heap
      /\ trigger' = trigger /\ ids' = ids /\ inside' = inside /\ now' = now
  BY DEF Start
<1>2. heap = <<>> /\ trigger = <<>> /\ Held(item, heap, trigger) /\ Named(item, ids, counter)
  BY <1>1 DEF Inv
<1>3. DOMAIN item = {} /\ DOMAIN ids = {}
  BY <1>2, NothingLeft
<1>4. Named(item, ids, 0)
  BY <1>3, NothingNamed
<1>5. Named(item', ids', counter')
  BY <1>1, <1>4
<1>6. 0 \in 0 .. MaxId
  BY TimerAssumption
<1>7. QED
  BY <1>1, <1>2, <1>5, <1>6 DEF Inv

LEMMA InvNext ==
  ASSUME Inv, [Next]_vars
  PROVE  Inv'
<1>1. CASE Create
  BY <1>1, InvCreate
<1>2. CASE \E id \in 1 .. MaxId : Kill(id)
  BY <1>2, InvKill
<1>3. CASE Update
  BY <1>3, InvUpdate
<1>4. CASE FreeKilled
  <2>1. /\ trigger # <<>> /\ ~ item[Cur].cb /\ item' = Freed(Cur) /\ heap' = heap /\ ids' = ids
        /\ trigger' = Front(trigger) /\ inside' = FALSE /\ up' = up /\ counter' = counter
        /\ now' = now
    BY <1>4 DEF FreeKilled, Serving, Inv
  <2>2. QED
    BY <2>1, InvFree
<1>5. CASE Postpone
  <2>1. /\ trigger' = Front(trigger) /\ inside' = FALSE /\ up' = up /\ counter' = counter
        /\ now' = now
    BY <1>5, PostponeIs DEF Postpone
  <2>2. QED
    BY <1>5, <2>1, PostponeIs, InvRearm
<1>6. CASE Fire
  <2>1. trigger # <<>>
    BY <1>6 DEF Fire, Serving
  <2>2. QED
    BY <1>6, <2>1 DEF Fire, Inv
<1>7. CASE Return
  <2>1. trigger # <<>>
    BY <1>7 DEF Return, Inv
  <2>2. /\ trigger' = Front(trigger) /\ inside' = FALSE /\ up' = up /\ counter' = counter
        /\ now' = now
    BY <1>7 DEF Return
  <2>3. CASE ~ item[Cur].cb /\ item' = Freed(Cur) /\ UNCHANGED <<heap, ids>>
    BY <2>1, <2>2, <2>3, InvFree
  <2>4. CASE Finish
    BY <2>1, <2>2, <2>4, InvFinish
  <2>5. CASE Again
    BY <2>1, <2>2, <2>5, AgainIs, InvRearm
  <2>6. QED
    BY <1>7, <2>3, <2>4, <2>5 DEF Return
<1>8. CASE Tick
  <2>1. now' \in 0 .. MaxNow
    BY <1>8, TimerAssumption DEF Tick, Inv
  <2>2. QED
    BY <1>8, <2>1 DEF Tick, Inv
<1>9. CASE Release
  BY <1>9, InvRelease
<1>10. CASE Start
  BY <1>10, InvStart
<1>11. CASE UNCHANGED vars
  BY <1>11 DEF vars, Inv
<1>12. QED
  BY <1>1, <1>2, <1>3, <1>4, <1>5, <1>6, <1>7, <1>8, <1>9, <1>10, <1>11 DEF Next

\* The invariant of every behaviour.
THEOREM TimerInvariant == Spec => []Inv
<1>1. Init => Inv
  BY InvInit
<1>2. Inv /\ [Next]_vars => Inv'
  BY InvNext
<1>3. QED
  BY <1>1, <1>2, PTL DEF Spec

-----------------------------------------------------------------------------
(* What follows from the invariant.                                        *)

\* The state has the types its comments say (jetnet_timer_mgr_t).
THEOREM TimerTypes == Spec => []TypeOK
<1>1. ASSUME Inv
      PROVE  TypeOK
  <2>1. Held(item, heap, trigger) /\ Named(item, ids, counter)
    BY <1>1 DEF Inv
  <2>2. /\ DOMAIN item \subseteq Item /\ \A a \in DOMAIN item : item[a] \in ItemRecord
        /\ heap \in Seq(Item) /\ trigger \in Seq(Item)
    BY <2>1 DEF Held, Whole
  <2>3. counter \in 0 .. MaxId /\ MaxId \in Nat
    BY <1>1, TimerAssumption DEF Inv
  <2>4. DOMAIN ids \subseteq 1 .. MaxId
    BY <2>1, <2>3 DEF Named
  <2>5. \A id \in DOMAIN ids : ids[id] \in Item
    BY <2>1, <2>2 DEF Named
  <2>6. Range(ids) \subseteq Item
    BY <2>5 DEF Range
  <2>7. QED
    BY <1>1, <2>2, <2>4, <2>6 DEF TypeOK, Inv
<1>2. QED
  BY <1>1, TimerInvariant, PTL

\* Two arrays with no item in common, one after the other.
LEMMA JoinedIs ==
  ASSUME NEW h, NEW t, Whole(h), Whole(t), Items(h) \cap Items(t) = {}
  PROVE  IsInjective(h \o t) /\ Range(h \o t) = Items(h) \cup Items(t)
<1>1. h \in Seq(Item) /\ t \in Seq(Item) /\ Distinct(h) /\ Distinct(t)
  BY DEF Whole
<1>2. PICK n \in Nat, m \in Nat : n = Len(h) /\ m = Len(t)
  BY <1>1
<1>3. PICK g : g = h \o t
  OBVIOUS
<1>4. /\ g \in Seq(Item) /\ Len(g) = n + m
      /\ \A i \in 1 .. n : g[i] = h[i]
      /\ \A i \in n + 1 .. n + m : g[i] = t[i - n]
  BY <1>1, <1>2, <1>3
<1>5. \A i \in 1 .. n + m : i \in 1 .. n \/ i \in n + 1 .. n + m
  OBVIOUS
<1>6. \A i \in n + 1 .. n + m : i - n \in 1 .. m
  OBVIOUS
<1>7. \A i \in 1 .. n : g[i] \in Items(h)
  BY <1>2, <1>4 DEF Items
<1>8. \A i \in n + 1 .. n + m : g[i] \in Items(t)
  BY <1>2, <1>4, <1>6 DEF Items
<1>9. Distinct(g)
  <2> SUFFICES ASSUME NEW i \in 1 .. n + m, NEW j \in 1 .. n + m, g[i] = g[j]
               PROVE  i = j
    BY <1>4 DEF Distinct
  <2>1. CASE i \in 1 .. n /\ j \in 1 .. n
    <3>1. h[i] = h[j]
      BY <1>4, <2>1
    <3>2. QED
      BY <1>1, <1>2, <2>1, <3>1 DEF Distinct
  <2>2. CASE i \in n + 1 .. n + m /\ j \in n + 1 .. n + m
    <3>1. i - n \in 1 .. m /\ j - n \in 1 .. m /\ t[i - n] = t[j - n]
      BY <1>4, <1>6, <2>2
    <3>2. i - n = j - n
      BY <1>1, <1>2, <3>1 DEF Distinct
    <3>3. QED
      BY <2>2, <3>2
  <2>3. CASE i \in 1 .. n /\ j \in n + 1 .. n + m
    BY <1>7, <1>8, <2>3
  <2>4. CASE j \in 1 .. n /\ i \in n + 1 .. n + m
    BY <1>7, <1>8, <2>4
  <2>5. QED
    BY <1>5, <2>1, <2>2, <2>3, <2>4
<1>10. Items(g) = Items(h) \cup Items(t)
  <2>1. Items(g) = {g[i] : i \in 1 .. n + m}
    BY <1>4 DEF Items
  <2>2. Items(g) \subseteq Items(h) \cup Items(t)
    BY <1>5, <1>7, <1>8, <2>1
  <2>3. ASSUME NEW i \in 1 .. n
        PROVE  h[i] \in Items(g)
    <3>1. i \in 1 .. n + m
      OBVIOUS
    <3>2. QED
      BY <1>4, <2>1, <3>1
  <2>4. ASSUME NEW i \in 1 .. m
        PROVE  t[i] \in Items(g)
    <3>1. PICK j \in n + 1 .. n + m : j = n + i
      OBVIOUS
    <3>2. j - n = i /\ j \in 1 .. n + m
      BY <3>1
    <3>3. QED
      BY <1>4, <2>1, <3>2
  <2>5. Items(h) = {h[i] : i \in 1 .. n} /\ Items(t) = {t[i] : i \in 1 .. m}
    BY <1>2 DEF Items
  <2>6. QED
    BY <2>2, <2>3, <2>4, <2>5
<1>11. QED
  BY <1>3, <1>4, <1>9, <1>10, AsRange

\* Whatever callbacks create and kill while jetnet_timer_mgr_update walks its array,
\* every allocated item is in the heap or in the array, once: it is freed once.
THEOREM ItemsHeldOnce == Spec => []OneHolder
<1>1. ASSUME Inv
      PROVE  OneHolder
  <2>1. /\ Whole(heap) /\ Whole(trigger) /\ Items(heap) \cap Items(trigger) = {}
        /\ Items(heap) \cup Items(trigger) = DOMAIN item
    BY <1>1 DEF Inv, Held
  <2>2. QED
    BY <2>1, JoinedIs DEF OneHolder
<1>2. QED
  BY <1>1, TimerInvariant, PTL

\* jetnet_timer_kill finds, under an id that was given out, the item that was created
\* with it and no other, and finds none once the timer can ring no more.
THEOREM IdsFindTheirItems == Spec => []IdsResolve
<1>1. ASSUME Inv
      PROVE  IdsResolve
  <2>1. Named(item, ids, counter)
    BY <1>1 DEF Inv
  <2>2. ASSUME NEW a \in DOMAIN item, item[a].cb
        PROVE  \E id \in DOMAIN ids : ids[id] = a
    <3>1. PICK id \in DOMAIN ids : id = item[a].id
      BY <2>1, <2>2 DEF Named
    <3>2. ids[id] \in DOMAIN item /\ item[ids[id]].id = item[a].id
      BY <2>1, <3>1 DEF Named
    <3>3. ids[id] = a
      BY <2>1, <3>2 DEF Named
    <3>4. QED
      BY <3>3
  <2>3. \A id \in DOMAIN ids : ids[id] \in DOMAIN item /\ item[ids[id]].id = id /\ item[ids[id]].cb
    BY <2>1 DEF Named
  <2>4. {ids[id] : id \in DOMAIN ids} = {a \in DOMAIN item : item[a].cb}
    BY <2>2, <2>3
  <2>5. QED
    BY <2>3, <2>4 DEF IdsResolve
<1>2. QED
  BY <1>1, TimerInvariant, PTL

-----------------------------------------------------------------------------
(* The alarms that the program sees.                                       *)

\* An item as an alarm.
AsAlarm(r) == [due |-> r.expire, delay |-> r.delay, period |-> r.period, repeat |-> r.repeat]

\* The alarms of the tree d, and those of the array t that are still to be served.
AlarmOf(it, d) == [id \in DOMAIN d |-> AsAlarm(it[d[id]])]
RoundOf(it, t, s) == {it[a].id : a \in {b \in Items(t) : it[b].cb /\ (s => b # Last(t))}}

\* By the invariant they are those of the refinement mapping.
LEMMA AwaitedIs == Inv => Awaited = AlarmOf(item, ids)
<1> SUFFICES ASSUME Inv
             PROVE  Awaited = AlarmOf(item, ids)
  OBVIOUS
<1>1. Named(item, ids, counter)
  BY DEF Inv
<1>2. {item[a].id : a \in Alive} = DOMAIN ids
  <2>1. \A a \in Alive : item[a].id \in DOMAIN ids
    BY <1>1 DEF Named, Alive
  <2>2. \A id \in DOMAIN ids : ids[id] \in Alive /\ item[ids[id]].id = id
    BY <1>1 DEF Named, Alive
  <2>3. QED
    BY <2>1, <2>2
<1>3. ASSUME NEW id \in DOMAIN ids
      PROVE  (CHOOSE b \in Alive : item[b].id = id) = ids[id]
  <2>1. ids[id] \in Alive /\ item[ids[id]].id = id
    BY <1>1 DEF Named, Alive
  <2>2. \A b \in Alive : item[b].id = id => b = ids[id]
    BY <1>1, <2>1 DEF Named, Alive
  <2>3. QED
    BY <2>1, <2>2
<1>4. QED
  BY <1>2, <1>3 DEF Awaited, AlarmOf, AsAlarm

LEMMA ToServeIs == Inv => ToServe = RoundOf(item, trigger, inside)
<1> SUFFICES ASSUME Inv
             PROVE  ToServe = RoundOf(item, trigger, inside)
  OBVIOUS
<1>1. Range(trigger) = Items(trigger)
  BY AsRange DEF Inv, Held, Whole
<1>2. QED
  BY <1>1 DEF ToServe, RoundOf, Cur

\* After a step, too.
LEMMA AwaitedNext == Inv' => Awaited' = AlarmOf(item', ids')
<1>1. (Inv => Awaited = AlarmOf(item, ids))'
  BY AwaitedIs, PTL
<1>2. QED
  BY <1>1

LEMMA ToServeNext == Inv' => ToServe' = RoundOf(item', trigger', inside')
<1>1. (Inv => ToServe = RoundOf(item, trigger, inside))'
  BY ToServeIs, PTL
<1>2. QED
  BY <1>1

-----------------------------------------------------------------------------
(* What a change of the items does to the alarms.                          *)

LEMMA AlarmSame ==
  ASSUME NEW it, NEW d, NEW jt, \A id \in DOMAIN d : AsAlarm(jt[d[id]]) = AsAlarm(it[d[id]])
  PROVE  AlarmOf(jt, d) = AlarmOf(it, d)
  BY DEF AlarmOf

LEMMA AlarmCut ==
  ASSUME NEW it, NEW d, NEW jt, NEW id,
         \A i \in DOMAIN d \ {id} : AsAlarm(jt[d[i]]) = AsAlarm(it[d[i]])
  PROVE  AlarmOf(jt, Restrict(d, DOMAIN d \ {id}))
           = Restrict(AlarmOf(it, d), DOMAIN AlarmOf(it, d) \ {id})
  BY DEF AlarmOf, Restrict

LEMMA RoundSame ==
  ASSUME NEW it, NEW t, NEW s, NEW jt,
         \A a \in Items(t) : jt[a].id = it[a].id /\ jt[a].cb = it[a].cb
  PROVE  RoundOf(jt, t, s) = RoundOf(it, t, s)
  BY DEF RoundOf

\* The alarm whose item is the last of the array is not in the round while it rings.
LEMMA RoundFire ==
  ASSUME NEW it, NEW t, Whole(t), t # <<>>, Items(t) \subseteq DOMAIN it,
         \A a, b \in DOMAIN it : it[a].id = it[b].id => a = b
  PROVE  RoundOf(it, t, TRUE) = RoundOf(it, t, FALSE) \ {it[Last(t)].id}
<1>1. Last(t) \in Items(t)
  BY Departs
<1>2. \A a \in Items(t) : a # Last(t) => it[a].id # it[Last(t)].id
  BY <1>1
<1>3. QED
  BY <1>2 DEF RoundOf

LEMMA RoundSkips ==
  ASSUME NEW it, NEW t, ~ it[Last(t)].cb
  PROVE  RoundOf(it, t, TRUE) = RoundOf(it, t, FALSE)
  BY DEF RoundOf

\* The array without its last item.
LEMMA RoundPop ==
  ASSUME NEW it, NEW t, Whole(t), t # <<>>, NEW jt,
         \A a \in Items(t) : a # Last(t) => jt[a].id = it[a].id /\ jt[a].cb = it[a].cb
  PROVE  RoundOf(jt, Front(t), FALSE) = RoundOf(it, t, TRUE)
<1>1. Items(Front(t)) = Items(t) \ {Last(t)}
  BY Departs
<1>2. QED
  BY <1>1 DEF RoundOf

LEMMA RoundEmpty ==
  ASSUME NEW it, NEW s
  PROVE  RoundOf(it, <<>>, s) = {}
  BY EmptyIs DEF RoundOf

-----------------------------------------------------------------------------
(* Every step of the timer manager is a step of Alarms, or changes nothing *)
(* there.                                                                  *)

LEMMA CreateSets ==
  ASSUME Inv, Inv', Create
  PROVE  \E id \in DOMAIN Awaited' \ DOMAIN Awaited : Abstract!Set(id)
<1>1. PICK a \in Item \ DOMAIN item, t \in Timing :
        LET new == [id |-> counter + 1, cb |-> TRUE, delay |-> t.delay, period |-> t.period,
                    repeat |-> t.repeat, expire |-> Expiry(t)]
            it == With(item, a, new)
        IN /\ item' = it
           /\ heap' = HeapAdd(it, heap, a)
           /\ ids' = Registered(counter + 1, a)
  BY DEF Create
<1>2. PICK r : r = [id |-> counter + 1, cb |-> TRUE, delay |-> t.delay, period |-> t.period,
                    repeat |-> t.repeat, expire |-> Expiry(t)]
  OBVIOUS
<1>3. item' = With(item, a, r) /\ ids' = With(ids, counter + 1, a)
  BY <1>1, <1>2 DEF Registered
<1>4. PICK c : c = counter + 1
  OBVIOUS
<1>5. /\ DOMAIN item' = DOMAIN item \cup {a} /\ item'[a] = r
      /\ \A b \in DOMAIN item : item'[b] = item[b]
  BY <1>3 DEF With
<1>6. /\ DOMAIN ids' = DOMAIN ids \cup {c} /\ ids'[c] = a
      /\ \A i \in DOMAIN ids : i # c => ids'[i] = ids[i]
  BY <1>3, <1>4 DEF With
<1>7. Held(item, heap, trigger) /\ Named(item, ids, counter) /\ counter \in Nat
  BY TimerAssumption DEF Inv
<1>8. c \notin DOMAIN ids
  BY <1>4, <1>7 DEF Named
<1>9. /\ Awaited = AlarmOf(item, ids) /\ Awaited' = AlarmOf(item', ids')
      /\ ToServe = RoundOf(item, trigger, inside)
      /\ ToServe' = RoundOf(item', trigger', inside')
  BY AwaitedIs, AwaitedNext, ToServeIs, ToServeNext
<1>10. DOMAIN Awaited = DOMAIN ids /\ DOMAIN Awaited' = DOMAIN ids'
  BY <1>9 DEF AlarmOf
<1>11. c \in DOMAIN Awaited' \ DOMAIN Awaited
  BY <1>6, <1>8, <1>10
<1>12. PICK new : new = AsAlarm(r)
  OBVIOUS
<1>13. Awaited' = [i \in DOMAIN Awaited \cup {c} |-> IF i = c THEN new ELSE Awaited[i]]
  <2>1. \A i \in DOMAIN ids : ids[i] \in DOMAIN item
    BY <1>7 DEF Named
  <2>2. \A i \in DOMAIN ids : i # c /\ AsAlarm(item'[ids'[i]]) = AsAlarm(item[ids[i]])
    BY <1>5, <1>6, <1>8, <2>1
  <2>3. AsAlarm(item'[ids'[c]]) = new
    BY <1>5, <1>6, <1>12
  <2>4. \A i \in DOMAIN ids : Awaited[i] = AsAlarm(item[ids[i]])
    BY <1>9 DEF AlarmOf
  <2>5. Awaited' = [i \in DOMAIN ids' |-> AsAlarm(item'[ids'[i]])]
    BY <1>9 DEF AlarmOf
  <2>6. QED
    BY <1>6, <1>10, <2>2, <2>3, <2>4, <2>5
<1>14. new = [due |-> Expiry(t), delay |-> t.delay, period |-> t.period, repeat |-> t.repeat]
  BY <1>2, <1>12 DEF AsAlarm
<1>15. trigger' = trigger /\ inside' = inside /\ now' = now
  BY DEF Create
<1>16. \A b \in Items(trigger) : item'[b] = item[b]
  BY <1>5, <1>7 DEF Held
<1>17. ToServe' = ToServe
  <2>1. PICK jt : jt = item'
    OBVIOUS
  <2>2. RoundOf(jt, trigger, inside) = RoundOf(item, trigger, inside)
    BY <1>16, <2>1, RoundSame
  <2>3. QED
    BY <1>9, <1>15, <2>1, <2>2
<1>18. Called' = Called
  <2>1. CASE inside
    <3>1. Cur \in Items(trigger)
      BY <1>7, <2>1, Departs DEF Held, Inv, Cur
    <3>2. Cur' = Cur
      BY <1>15 DEF Cur
    <3>3. QED
      BY <1>15, <1>16, <2>1, <3>1, <3>2 DEF Called
  <2>2. CASE ~ inside
    BY <1>15, <2>2 DEF Called
  <2>3. QED
    BY <2>1, <2>2
<1>19. Abstract!Set(c)
  BY <1>13, <1>14, <1>15, <1>17, <1>18 DEF Abstract!Set, Expiry
<1>20. QED
  BY <1>11, <1>19

\* What the mapping is made of, before and after a step.
LEMMA MappingIs ==
  ASSUME Inv, Inv'
  PROVE  /\ Awaited = AlarmOf(item, ids) /\ Awaited' = AlarmOf(item', ids')
         /\ ToServe = RoundOf(item, trigger, inside)
         /\ ToServe' = RoundOf(item', trigger', inside')
         /\ DOMAIN Awaited = DOMAIN ids /\ DOMAIN Awaited' = DOMAIN ids'
  BY AwaitedIs, AwaitedNext, ToServeIs, ToServeNext DEF AlarmOf

LEMMA KillUnsets ==
  ASSUME Inv, Inv', NEW id \in 1 .. MaxId, Kill(id)
  PROVE  id \in DOMAIN Awaited /\ Abstract!Unset(id)
<1>1. /\ id \in DOMAIN ids /\ item' = [item EXCEPT ![ids[id]].cb = FALSE]
      /\ ids' = Restrict(ids, DOMAIN ids \ {id})
      /\ trigger' = trigger /\ inside' = inside /\ now' = now
  BY DEF Kill, Unregistered
<1>2. Held(item, heap, trigger) /\ Named(item, ids, counter)
  BY DEF Inv
<1>3. PICK a \in DOMAIN item : a = ids[id] /\ item[a].id = id /\ item[a] \in ItemRecord
  BY <1>1, <1>2 DEF Named, Held
<1>4. PICK jt : jt = item'
  OBVIOUS
<1>5. /\ \A b \in DOMAIN item : b # a => jt[b] = item[b]
      /\ jt[a].id = id /\ jt[a].cb = FALSE /\ AsAlarm(jt[a]) = AsAlarm(item[a])
  BY <1>1, <1>3, <1>4 DEF ItemRecord, AsAlarm
<1>6. \A b \in DOMAIN item : jt[b].id = item[b].id /\ AsAlarm(jt[b]) = AsAlarm(item[b])
  BY <1>3, <1>5
<1>7. Awaited' = Restrict(Awaited, DOMAIN Awaited \ {id})
  <2>1. \A i \in DOMAIN ids \ {id} : AsAlarm(jt[ids[i]]) = AsAlarm(item[ids[i]])
    BY <1>2, <1>6 DEF Named
  <2>2. AlarmOf(jt, Restrict(ids, DOMAIN ids \ {id}))
          = Restrict(AlarmOf(item, ids), DOMAIN AlarmOf(item, ids) \ {id})
    BY <2>1 DEF AlarmOf, Restrict
  <2>3. QED
    BY <1>1, <1>4, <2>2, MappingIs
<1>8. ToServe' = ToServe \ {id}
  <2>1. Items(trigger) \subseteq DOMAIN item
    BY <1>2 DEF Held
  <2>2. \A b \in DOMAIN item : item[b].id = id <=> b = a
    BY <1>2, <1>3 DEF Named
  <2>3. \A b \in Items(trigger) : /\ jt[b].id = item[b].id
                                  /\ jt[b].cb <=> item[b].cb /\ item[b].id # id
    BY <1>5, <1>6, <2>1, <2>2
  <2>4. RoundOf(jt, trigger, inside) = RoundOf(item, trigger, inside) \ {id}
    BY <2>3 DEF RoundOf
  <2>5. QED
    BY <1>1, <1>4, <2>4, MappingIs
<1>9. Called' = Called
  <2>1. CASE inside
    <3>1. Cur \in DOMAIN item
      BY <2>1, CurIs DEF Inv
    <3>2. Cur' = Cur
      BY <1>1 DEF Cur
    <3>3. QED
      BY <1>1, <1>4, <1>6, <2>1, <3>1, <3>2 DEF Called
  <2>2. CASE ~ inside
    BY <1>1, <2>2 DEF Called
  <2>3. QED
    BY <2>1, <2>2
<1>10. Abstract!Unset(id)
  BY <1>1, <1>7, <1>8, <1>9 DEF Abstract!Unset, Abstract!Without, Abstract!Restrict, Restrict
<1>11. QED
  BY <1>1, <1>10, MappingIs

LEMMA UpdateBegins ==
  ASSUME Inv, Inv', Update
  PROVE  Abstract!BeginRound
<1>1. PICK due : due = PopDue(heap, <<>>)
  OBVIOUS
<1>2. /\ heap' = due.heap /\ trigger' = due.trigger
      /\ due \in Popping(Len(heap), Items(heap)) /\ Settled(due)
      /\ Items(heap) = DOMAIN item
  BY <1>1, DueIs
<1>3. /\ trigger = <<>> /\ item' = item /\ ids' = ids /\ inside' = inside /\ now' = now
      /\ inside = FALSE
  BY DEF Update, Inv
<1>4. Held(item, heap, trigger) /\ Named(item, ids, counter)
  BY DEF Inv
<1>5. /\ Items(due.heap) \cup Items(due.trigger) = DOMAIN item
      /\ \A a \in Items(due.trigger) : item[a].expire <= now
      /\ \A a \in Items(due.heap) : item[a].expire > now
  BY <1>2 DEF Popping, Settled
<1>6. now \in Nat /\ \A a \in DOMAIN item : item[a].expire \in Nat
  BY <1>4, TimerAssumption DEF Inv, Held, ItemRecord
<1>7. \A a \in DOMAIN item : a \in Items(due.trigger) <=> item[a].expire <= now
  BY <1>5, <1>6
<1>8. Items(due.trigger) \subseteq DOMAIN item
  BY <1>5
<1>9. RoundOf(item, due.trigger, FALSE) = {id \in DOMAIN ids : AlarmOf(item, ids)[id].due <= now}
  <2>1. \A id \in DOMAIN ids : AlarmOf(item, ids)[id].due = item[ids[id]].expire
    BY DEF AlarmOf, AsAlarm
  <2>2. ASSUME NEW a \in Items(due.trigger), item[a].cb
        PROVE  item[a].id \in DOMAIN ids /\ item[ids[item[a].id]].expire <= now
    <3>1. a \in DOMAIN item /\ item[a].id \in DOMAIN ids
      BY <1>4, <1>8, <2>2 DEF Named
    <3>2. ids[item[a].id] = a
      BY <1>4, <3>1 DEF Named
    <3>3. QED
      BY <1>5, <3>1, <3>2
  <2>3. ASSUME NEW id \in DOMAIN ids, item[ids[id]].expire <= now
        PROVE  ids[id] \in Items(due.trigger) /\ item[ids[id]].cb /\ item[ids[id]].id = id
    BY <1>4, <1>7, <2>3 DEF Named
  <2>4. QED
    BY <2>1, <2>2, <2>3 DEF RoundOf
<1>10. ToServe = {} /\ ToServe' = RoundOf(item, due.trigger, FALSE)
  <2>1. RoundOf(item, <<>>, inside) = {}
    BY RoundEmpty
  <2>2. ToServe = RoundOf(item, trigger, inside) /\ ToServe' = RoundOf(item', trigger', inside')
    BY MappingIs
  <2>3. ToServe' = RoundOf(item, due.trigger, FALSE)
    BY <1>2, <1>3, <2>2
  <2>4. QED
    BY <1>3, <2>1, <2>2, <2>3
<1>11. Awaited' = Awaited
  BY <1>3, MappingIs
<1>12. Called = 0 /\ Called' = 0
  BY <1>3 DEF Called
<1>13. ToServe' = {id \in DOMAIN Awaited : Awaited[id].due <= now}
  BY <1>9, <1>10, MappingIs
<1>14. QED
  BY <1>3, <1>10, <1>11, <1>12, <1>13 DEF Abstract!BeginRound

\* An item without a callback leaves the array: nobody sees it.
LEMMA FreeIsSilent ==
  ASSUME Inv, Inv', trigger # <<>>, ~ item[Cur].cb, item' = Freed(Cur), ids' = ids,
         trigger' = Front(trigger), inside' = FALSE
  PROVE  Awaited' = Awaited /\ ToServe' = RoundOf(item, trigger, TRUE) /\ Called' = 0
<1>1. PICK jt : jt = Restrict(item, DOMAIN item \ {Cur})
  OBVIOUS
<1>2. item' = jt
  BY <1>1 DEF Freed
<1>3. Held(item, heap, trigger) /\ Named(item, ids, counter)
  BY DEF Inv
<1>4. \A b \in DOMAIN item : b # Cur => jt[b] = item[b]
  BY <1>1 DEF Restrict
<1>5. \A id \in DOMAIN ids : ids[id] \in DOMAIN item /\ ids[id] # Cur
  BY <1>3 DEF Named
<1>6. AlarmOf(jt, ids) = AlarmOf(item, ids)
  <2>1. \A id \in DOMAIN ids : jt[ids[id]] = item[ids[id]]
    BY <1>4, <1>5
  <2>2. \A id \in DOMAIN ids : AsAlarm(jt[ids[id]]) = AsAlarm(item[ids[id]])
    BY <2>1
  <2>3. QED
    BY <2>2, AlarmSame
<1>7. RoundOf(jt, Front(trigger), FALSE) = RoundOf(item, trigger, TRUE)
  <2>1. \A a \in Items(trigger) : a # Last(trigger) =>
          jt[a].id = item[a].id /\ jt[a].cb = item[a].cb
    BY <1>3, <1>4 DEF Held, Cur
  <2>2. Whole(trigger)
    BY <1>3 DEF Held
  <2>3. QED
    BY <2>1, <2>2, RoundPop
<1>8. QED
  BY <1>2, <1>6, <1>7, MappingIs DEF Called

\* An item goes back into the heap with another time.
LEMMA RearmSets ==
  ASSUME Inv, Inv', trigger # <<>>, item[Cur].cb,
         NEW r, r.id = item[Cur].id, r.cb = item[Cur].cb, Rearm([item EXCEPT ![Cur] = r]),
         trigger' = Front(trigger), inside' = FALSE,
         NEW id, id = item[Cur].id
  PROVE  /\ id \in DOMAIN Awaited /\ Awaited[id] = AsAlarm(item[Cur])
         /\ Awaited' = [Awaited EXCEPT ![id] = AsAlarm(r)]
         /\ ToServe' = RoundOf(item, trigger, TRUE) /\ Called' = 0
<1>1. Held(item, heap, trigger) /\ Named(item, ids, counter) /\ Cur \in DOMAIN item
  BY CurIs DEF Inv
<1>2. PICK a \in DOMAIN item : a = Cur
  BY <1>1
<1>3. PICK jt : jt = [item EXCEPT ![a] = r]
  OBVIOUS
<1>4. item' = jt /\ ids' = ids
  BY <1>2, <1>3 DEF Rearm
<1>5. jt[a] = r /\ \A b \in DOMAIN item : b # a => jt[b] = item[b]
  BY <1>2, <1>3
<1>6. id \in DOMAIN ids /\ ids[id] = a
  <2>1. item[a].id \in DOMAIN ids
    BY <1>1, <1>2 DEF Named
  <2>2. ids[id] \in DOMAIN item /\ item[ids[id]].id = item[a].id
    BY <1>1, <1>2, <2>1 DEF Named
  <2>3. QED
    BY <1>1, <1>2, <2>1, <2>2 DEF Named
<1>7. \A i \in DOMAIN ids : ids[i] \in DOMAIN item /\ (i # id => ids[i] # a)
  BY <1>1, <1>2 DEF Named
<1>8. AlarmOf(jt, ids) = [AlarmOf(item, ids) EXCEPT ![id] = AsAlarm(r)]
  <2>1. AsAlarm(jt[ids[id]]) = AsAlarm(r)
    BY <1>5, <1>6
  <2>2. \A i \in DOMAIN ids : i # id => AsAlarm(jt[ids[i]]) = AsAlarm(item[ids[i]])
    BY <1>5, <1>7
  <2>3. QED
    BY <1>6, <2>1, <2>2 DEF AlarmOf
<1>9. RoundOf(jt, Front(trigger), FALSE) = RoundOf(item, trigger, TRUE)
  <2>1. \A b \in Items(trigger) : b # Last(trigger) =>
          jt[b].id = item[b].id /\ jt[b].cb = item[b].cb
    BY <1>1, <1>2, <1>5 DEF Held, Cur
  <2>2. Whole(trigger)
    BY <1>1 DEF Held
  <2>3. QED
    BY <2>1, <2>2, RoundPop
<1>10. AlarmOf(item, ids)[id] = AsAlarm(item[a])
  BY <1>6 DEF AlarmOf
<1>11. Called' = 0
  BY DEF Called
<1>12. QED
  BY <1>2, <1>4, <1>6, <1>8, <1>9, <1>10, <1>11, MappingIs

\* The alarm whose item is served is the last of the round.
LEMMA RoundIs ==
  ASSUME Inv, trigger # <<>>
  PROVE  /\ RoundOf(item, trigger, TRUE) = RoundOf(item, trigger, FALSE) \ {item[Cur].id}
         /\ item[Cur].cb => item[Cur].id \in RoundOf(item, trigger, FALSE)
         /\ ~ item[Cur].cb => RoundOf(item, trigger, TRUE) = RoundOf(item, trigger, FALSE)
<1>1. Held(item, heap, trigger) /\ Named(item, ids, counter)
  BY DEF Inv
<1>2. /\ Whole(trigger) /\ Items(trigger) \subseteq DOMAIN item
      /\ \A a, b \in DOMAIN item : item[a].id = item[b].id => a = b
  BY <1>1 DEF Held, Named
<1>3. RoundOf(item, trigger, TRUE) = RoundOf(item, trigger, FALSE) \ {item[Cur].id}
  BY <1>2, RoundFire DEF Cur
<1>4. Cur \in Items(trigger)
  BY <1>2, Departs DEF Cur
<1>5. item[Cur].cb => item[Cur].id \in RoundOf(item, trigger, FALSE)
  BY <1>4 DEF RoundOf
<1>6. ~ item[Cur].cb => RoundOf(item, trigger, TRUE) = RoundOf(item, trigger, FALSE)
  BY RoundSkips DEF Cur
<1>7. QED
  BY <1>3, <1>5, <1>6

\* What the update does with the last item of its array, before any callback.
LEMMA FreeKilledStutters ==
  ASSUME Inv, Inv', FreeKilled
  PROVE  UNCHANGED Abstract!avars
<1>1. /\ trigger # <<>> /\ inside = FALSE /\ ~ item[Cur].cb /\ item' = Freed(Cur) /\ ids' = ids
      /\ trigger' = Front(trigger) /\ inside' = FALSE /\ now' = now
  BY DEF FreeKilled, Serving, Inv
<1>2. Awaited' = Awaited /\ ToServe' = RoundOf(item, trigger, TRUE) /\ Called' = 0
  BY <1>1, FreeIsSilent
<1>3. RoundOf(item, trigger, TRUE) = RoundOf(item, trigger, FALSE)
  BY <1>1, RoundIs
<1>4. ToServe = RoundOf(item, trigger, FALSE)
  BY <1>1, MappingIs
<1>5. Called = 0
  BY <1>1 DEF Called
<1>6. QED
  BY <1>1, <1>2, <1>3, <1>4, <1>5 DEF Abstract!avars

LEMMA PostponeDelays ==
  ASSUME Inv, Inv', Postpone
  PROVE  \E id \in DOMAIN Awaited : Abstract!Delayed(id)
<1>1. /\ trigger # <<>> /\ inside = FALSE
      /\ Postponed \in ItemRecord /\ Postponed.id = item[Cur].id
      /\ Postponed.cb = item[Cur].cb
      /\ Rearm([item EXCEPT ![Cur] = Postponed])
  BY PostponeIs
<1>2. /\ item[Cur].cb /\ item[Cur].delay > 0
      /\ trigger' = Front(trigger) /\ inside' = FALSE /\ now' = now
  BY <1>1 DEF Postpone
<1>3. PICK id : id = item[Cur].id
  OBVIOUS
<1>4. PICK r : r = Postponed
  OBVIOUS
<1>5. /\ id \in DOMAIN Awaited /\ Awaited[id] = AsAlarm(item[Cur])
      /\ Awaited' = [Awaited EXCEPT ![id] = AsAlarm(r)]
      /\ ToServe' = RoundOf(item, trigger, TRUE) /\ Called' = 0
  BY <1>1, <1>2, <1>3, <1>4, RearmSets
<1>6. /\ RoundOf(item, trigger, TRUE) = RoundOf(item, trigger, FALSE) \ {id}
      /\ id \in RoundOf(item, trigger, FALSE)
  BY <1>1, <1>2, <1>3, RoundIs
<1>7. ToServe = RoundOf(item, trigger, FALSE)
  BY <1>1, MappingIs
<1>8. Called = 0
  BY <1>1 DEF Called
<1>9. PICK c \in ItemRecord : c = item[Cur]
  BY <1>1, CurIs
<1>10. AsAlarm(r) = [due |-> now + c.period, delay |-> 0, period |-> c.period, repeat |-> c.repeat]
  BY <1>4, <1>9 DEF Postponed, ItemRecord, AsAlarm
<1>11. AsAlarm(c) = [due |-> c.expire, delay |-> c.delay, period |-> c.period, repeat |-> c.repeat]
  BY DEF AsAlarm
<1>12. Awaited[id].delay > 0
  BY <1>2, <1>5, <1>9, <1>11
<1>13. [Awaited EXCEPT ![id].delay = 0, ![id].due = now + Awaited[id].period]
         = [Awaited EXCEPT ![id] = AsAlarm(r)]
  <2>1. [Awaited EXCEPT ![id].delay = 0, ![id].due = now + Awaited[id].period]
          = [Awaited EXCEPT ![id] = [Awaited[id] EXCEPT !.delay = 0, !.due = now + Awaited[id].period]]
    BY <1>5
  <2>2. [Awaited[id] EXCEPT !.delay = 0, !.due = now + Awaited[id].period] = AsAlarm(r)
    <3>1. PICK p : p = [due |-> c.expire, delay |-> c.delay, period |-> c.period, repeat |-> c.repeat]
      OBVIOUS
    <3>2. Awaited[id] = p
      BY <1>5, <1>9, <1>11, <3>1
    <3>3. [p EXCEPT !.delay = 0, !.due = now + p.period]
            = [due |-> now + c.period, delay |-> 0, period |-> c.period, repeat |-> c.repeat]
      <4>1. PICK q : q = [p EXCEPT !.delay = 0]
        OBVIOUS
      <4>2. q = [due |-> c.expire, delay |-> 0, period |-> c.period, repeat |-> c.repeat]
        BY <3>1, <4>1
      <4>3. [q EXCEPT !.due = now + p.period]
              = [due |-> now + c.period, delay |-> 0, period |-> c.period, repeat |-> c.repeat]
        BY <3>1, <4>2
      <4>4. QED
        BY <4>1, <4>3
    <3>4. QED
      BY <1>10, <3>2, <3>3
  <2>3. QED
    BY <2>1, <2>2
<1>14. Abstract!Delayed(id)
  BY <1>2, <1>5, <1>6, <1>7, <1>8, <1>12, <1>13 DEF Abstract!Delayed
<1>15. QED
  BY <1>5, <1>14

LEMMA FireRings ==
  ASSUME Inv, Inv', Fire
  PROVE  \E id \in DOMAIN Awaited : Abstract!Ring(id)
<1>1. /\ trigger # <<>> /\ inside = FALSE /\ item[Cur].cb /\ item[Cur].delay = 0
      /\ inside' = TRUE /\ item' = item /\ ids' = ids /\ trigger' = trigger /\ now' = now
  BY DEF Fire, Serving, Inv
<1>2. PICK id : id = item[Cur].id
  OBVIOUS
<1>3. /\ RoundOf(item, trigger, TRUE) = RoundOf(item, trigger, FALSE) \ {id}
      /\ id \in RoundOf(item, trigger, FALSE)
  BY <1>1, <1>2, RoundIs
<1>4. /\ ToServe = RoundOf(item, trigger, FALSE) /\ ToServe' = RoundOf(item, trigger, TRUE)
      /\ Awaited = AlarmOf(item, ids) /\ Awaited' = Awaited
  BY <1>1, MappingIs
<1>5. Cur' = Cur
  BY <1>1 DEF Cur
<1>6. Called = 0 /\ Called' = id
  BY <1>1, <1>2, <1>5 DEF Called
<1>7. id \in DOMAIN ids /\ ids[id] = Cur
  <2>1. Named(item, ids, counter) /\ Cur \in DOMAIN item
    BY <1>1, CurIs DEF Inv
  <2>2. id \in DOMAIN ids
    BY <1>1, <1>2, <2>1 DEF Named
  <2>3. ids[id] \in DOMAIN item /\ item[ids[id]].id = item[Cur].id
    BY <1>2, <2>1, <2>2 DEF Named
  <2>4. QED
    BY <2>1, <2>2, <2>3 DEF Named
<1>8. id \in DOMAIN Awaited /\ Awaited[id].delay = 0
  BY <1>1, <1>4, <1>7 DEF AlarmOf, AsAlarm
<1>9. Abstract!Ring(id)
  BY <1>1, <1>3, <1>4, <1>6, <1>8 DEF Abstract!Ring
<1>10. QED
  BY <1>8, <1>9

LEMMA ReturnSilences ==
  ASSUME Inv, Inv', Return
  PROVE  Abstract!Silence
<1>1. inside = TRUE /\ trigger # <<>> /\ trigger' = Front(trigger) /\ inside' = FALSE /\ now' = now
  BY DEF Return, Inv
<1>2. Held(item, heap, trigger) /\ Named(item, ids, counter)
  BY DEF Inv
<1>3. Cur \in DOMAIN item
  BY <1>1, CurIs
<1>4. PICK c \in ItemRecord : c = item[Cur]
  BY <1>1, CurIs
<1>5. PICK id : id = c.id
  OBVIOUS
<1>6. Called = id /\ id # 0
  BY <1>1, <1>4, <1>5 DEF Called, ItemRecord
<1>7. ToServe = RoundOf(item, trigger, TRUE)
  BY <1>1, MappingIs
<1>8. CASE ~ item[Cur].cb /\ item' = Freed(Cur) /\ UNCHANGED <<heap, ids>>
  <2>1. Awaited' = Awaited /\ ToServe' = ToServe /\ Called' = 0
    BY <1>1, <1>7, <1>8, FreeIsSilent
  <2>2. id \notin DOMAIN ids
    <3>1. ASSUME id \in DOMAIN ids
          PROVE  FALSE
      <4>1. ids[id] \in DOMAIN item /\ item[ids[id]].id = item[Cur].id /\ item[ids[id]].cb
        BY <1>2, <1>4, <1>5, <3>1 DEF Named
      <4>2. ids[id] = Cur
        BY <1>2, <1>3, <4>1 DEF Named
      <4>3. QED
        BY <1>8, <4>1, <4>2
    <3>2. QED
      BY <3>1
  <2>3. id \notin DOMAIN Awaited
    BY <2>2, MappingIs
  <2>4. QED
    BY <1>1, <1>6, <2>1, <2>3 DEF Abstract!Silence
<1>9. CASE item[Cur].cb /\ item[Cur].repeat = 1 /\ Finish
  <2>1. PICK jt : jt = Restrict(item, DOMAIN item \ {Cur})
    OBVIOUS
  <2>2. item' = jt /\ ids' = Restrict(ids, DOMAIN ids \ {id})
    BY <1>4, <1>5, <1>9, <2>1 DEF Finish, Freed, Unregistered
  <2>3. \A b \in DOMAIN item : b # Cur => jt[b] = item[b]
    BY <2>1 DEF Restrict
  <2>4. id \in DOMAIN ids /\ ids[id] = Cur
    <3>1. id \in DOMAIN ids
      BY <1>2, <1>3, <1>4, <1>5, <1>9 DEF Named
    <3>2. ids[id] \in DOMAIN item /\ item[ids[id]].id = item[Cur].id
      BY <1>2, <1>4, <1>5, <3>1 DEF Named
    <3>3. QED
      BY <1>2, <1>3, <3>1, <3>2 DEF Named
  <2>5. \A i \in DOMAIN ids \ {id} : ids[i] \in DOMAIN item /\ ids[i] # Cur
    BY <1>2, <2>4 DEF Named
  <2>6. \A i \in DOMAIN ids \ {id} : AsAlarm(jt[ids[i]]) = AsAlarm(item[ids[i]])
    <3>1. \A i \in DOMAIN ids \ {id} : jt[ids[i]] = item[ids[i]]
      BY <2>3, <2>5
    <3>2. QED
      BY <3>1
  <2>7. Awaited' = Restrict(Awaited, DOMAIN Awaited \ {id})
    <3>1. AlarmOf(jt, Restrict(ids, DOMAIN ids \ {id}))
            = Restrict(AlarmOf(item, ids), DOMAIN AlarmOf(item, ids) \ {id})
      BY <2>6 DEF AlarmOf, Restrict
    <3>2. QED
      BY <2>2, <3>1, MappingIs
  <2>8. RoundOf(jt, Front(trigger), FALSE) = RoundOf(item, trigger, TRUE)
    <3>1. \A a \in Items(trigger) : a # Last(trigger) => jt[a].id = item[a].id /\ jt[a].cb = item[a].cb
      BY <1>2, <2>3 DEF Held, Cur
    <3>2. Whole(trigger)
      BY <1>2 DEF Held
    <3>3. QED
      BY <1>1, <3>1, <3>2, RoundPop
  <2>9. ToServe' = ToServe
    BY <1>1, <1>7, <2>2, <2>8, MappingIs
  <2>10. Called' = 0
    BY <1>1 DEF Called
  <2>11. id \in DOMAIN Awaited /\ Awaited[id] = AsAlarm(c)
    BY <1>4, <2>4, MappingIs DEF AlarmOf
  <2>12. Awaited[id].repeat = 1
    BY <1>4, <1>9, <2>11 DEF AsAlarm
  <2>13. QED
    BY <1>1, <1>6, <2>7, <2>9, <2>10, <2>11, <2>12
       DEF Abstract!Silence, Abstract!Without, Abstract!Restrict, Restrict
<1>10. CASE item[Cur].cb /\ item[Cur].repeat # 1 /\ Again
  <2>1. PICK r : r = RungOnce
    OBVIOUS
  <2>2. /\ r.id = item[Cur].id /\ r.cb = item[Cur].cb
        /\ Rearm([item EXCEPT ![Cur] = r])
    BY <1>1, <1>10, <2>1, AgainIs
  <2>3. /\ id \in DOMAIN Awaited /\ Awaited[id] = AsAlarm(item[Cur])
        /\ Awaited' = [Awaited EXCEPT ![id] = AsAlarm(r)]
        /\ ToServe' = RoundOf(item, trigger, TRUE) /\ Called' = 0
    BY <1>1, <1>4, <1>5, <1>10, <2>2, RearmSets
  <2>4. AsAlarm(r) = [due |-> now + c.period, delay |-> c.delay, period |-> c.period,
                      repeat |-> IF c.repeat = 0 THEN 0 ELSE c.repeat - 1]
    BY <1>4, <2>1 DEF RungOnce, ItemRecord, AsAlarm
  <2>5. AsAlarm(c) = [due |-> c.expire, delay |-> c.delay, period |-> c.period, repeat |-> c.repeat]
    BY DEF AsAlarm
  <2>6. Awaited[id].repeat # 1
    BY <1>4, <1>10, <2>3, <2>5
  <2>7. [Awaited EXCEPT ![id].due = now + Awaited[id].period,
                        ![id].repeat = IF @ = 0 THEN 0 ELSE @ - 1]
          = [Awaited EXCEPT ![id] = AsAlarm(r)]
    <3>1. [Awaited EXCEPT ![id].due = now + Awaited[id].period,
                          ![id].repeat = IF @ = 0 THEN 0 ELSE @ - 1]
            = [Awaited EXCEPT ![id] = [Awaited[id] EXCEPT !.due = now + Awaited[id].period,
                                                          !.repeat = IF @ = 0 THEN 0 ELSE @ - 1]]
      BY <2>3
    <3>2. [Awaited[id] EXCEPT !.due = now + Awaited[id].period,
                              !.repeat = IF @ = 0 THEN 0 ELSE @ - 1] = AsAlarm(r)
      <4>1. PICK p : p = [due |-> c.expire, delay |-> c.delay, period |-> c.period, repeat |-> c.repeat]
        OBVIOUS
      <4>2. Awaited[id] = p
        BY <1>4, <2>3, <2>5, <4>1
      <4>3. [p EXCEPT !.due = now + p.period, !.repeat = IF @ = 0 THEN 0 ELSE @ - 1]
              = [due |-> now + c.period, delay |-> c.delay, period |-> c.period,
                 repeat |-> IF c.repeat = 0 THEN 0 ELSE c.repeat - 1]
        <5>1. PICK q : q = [p EXCEPT !.due = now + p.period]
          OBVIOUS
        <5>2. q = [due |-> now + c.period, delay |-> c.delay, period |-> c.period,
                   repeat |-> c.repeat]
          BY <4>1, <5>1
        <5>3. [q EXCEPT !.repeat = IF c.repeat = 0 THEN 0 ELSE c.repeat - 1]
                = [due |-> now + c.period, delay |-> c.delay, period |-> c.period,
                   repeat |-> IF c.repeat = 0 THEN 0 ELSE c.repeat - 1]
          BY <5>2
        <5>4. [p EXCEPT !.due = now + p.period, !.repeat = IF @ = 0 THEN 0 ELSE @ - 1]
                = [q EXCEPT !.repeat = IF c.repeat = 0 THEN 0 ELSE c.repeat - 1]
          BY <4>1, <5>1, <5>2
        <5>5. QED
          BY <5>3, <5>4
      <4>4. QED
        BY <2>4, <4>2, <4>3
    <3>3. QED
      BY <3>1, <3>2
  <2>8. QED
    BY <1>1, <1>6, <1>7, <2>3, <2>6, <2>7 DEF Abstract!Silence
<1>11. QED
  BY <1>8, <1>9, <1>10 DEF Return

LEMMA TickPasses ==
  ASSUME Inv, Inv', Tick
  PROVE  Abstract!Pass
<1>1. /\ trigger = <<>> /\ inside = FALSE /\ now' = now + 1 /\ now \in Nat
      /\ item' = item /\ ids' = ids /\ trigger' = trigger /\ inside' = inside
  BY TimerAssumption DEF Tick, Inv
<1>2. /\ Awaited = AlarmOf(item, ids) /\ Awaited' = Awaited
      /\ ToServe = RoundOf(item, trigger, inside) /\ ToServe' = ToServe
  BY <1>1, MappingIs
<1>3. ToServe = {}
  BY <1>1, <1>2, RoundEmpty
<1>4. Called = 0 /\ Called' = 0
  BY <1>1 DEF Called
<1>5. now' > now
  BY <1>1
<1>6. QED
  BY <1>2, <1>3, <1>4, <1>5 DEF Abstract!Pass

LEMMA ReleaseClears ==
  ASSUME Inv, Inv', Release
  PROVE  Abstract!Clear
<1>1. /\ trigger = <<>> /\ inside = FALSE /\ trigger' = <<>> /\ inside' = FALSE /\ now' = now
      /\ ids' = [id \in {} |-> 0]
  BY DEF Release, Inv
<1>2. DOMAIN Awaited' = {} /\ Awaited' = AlarmOf(item', ids')
  BY <1>1, MappingIs
<1>3. Awaited' = [id \in {} |-> 0]
  BY <1>1, <1>2 DEF AlarmOf
<1>4. RoundOf(item, <<>>, FALSE) = {} /\ RoundOf(item', <<>>, FALSE) = {}
  BY RoundEmpty
<1>5. ToServe = {} /\ ToServe' = {}
  BY <1>1, <1>4, MappingIs
<1>6. Called = 0 /\ Called' = 0
  BY <1>1 DEF Called
<1>7. QED
  BY <1>1, <1>3, <1>5, <1>6 DEF Abstract!Clear

LEMMA QuietIs ==
  ASSUME Inv, Inv', item' = item, ids' = ids, trigger' = trigger, inside' = inside, now' = now
  PROVE  UNCHANGED Abstract!avars
<1>1. Awaited' = Awaited /\ ToServe' = ToServe
  BY MappingIs
<1>2. Cur' = Cur
  BY DEF Cur
<1>3. Called' = Called
  BY <1>2 DEF Called
<1>4. QED
  BY <1>1, <1>3 DEF Abstract!avars

LEMMA StepIs ==
  ASSUME Inv, Inv', [Next]_vars
  PROVE  [Abstract!ANext]_(Abstract!avars)
<1>1. CASE Create
  BY <1>1, CreateSets DEF Abstract!ANext
<1>2. CASE \E id \in 1 .. MaxId : Kill(id)
  BY <1>2, KillUnsets DEF Abstract!ANext
<1>3. CASE Update
  BY <1>3, UpdateBegins DEF Abstract!ANext
<1>4. CASE FreeKilled
  BY <1>4, FreeKilledStutters
<1>5. CASE Postpone
  BY <1>5, PostponeDelays DEF Abstract!ANext
<1>6. CASE Fire
  BY <1>6, FireRings DEF Abstract!ANext
<1>7. CASE Return
  BY <1>7, ReturnSilences DEF Abstract!ANext
<1>8. CASE Tick
  BY <1>8, TickPasses DEF Abstract!ANext
<1>9. CASE Release
  BY <1>9, ReleaseClears DEF Abstract!ANext
<1>10. CASE Start
  <2>1. item' = item /\ ids' = ids /\ trigger' = trigger /\ inside' = inside /\ now' = now
    BY <1>10 DEF Start
  <2>2. QED
    BY <2>1, QuietIs
<1>11. CASE UNCHANGED vars
  <2>1. item' = item /\ ids' = ids /\ trigger' = trigger /\ inside' = inside /\ now' = now
    BY <1>11 DEF vars
  <2>2. QED
    BY <2>1, QuietIs
<1>12. QED
  BY <1>1, <1>2, <1>3, <1>4, <1>5, <1>6, <1>7, <1>8, <1>9, <1>10, <1>11 DEF Next

LEMMA StartIs ==
  ASSUME Init
  PROVE  Abstract!AInit
<1>1. Inv
  BY InvInit
<1>2. DOMAIN ids = {} /\ trigger = <<>> /\ inside = FALSE /\ now = 0
  BY DEF Init
<1>3. Awaited = AlarmOf(item, ids) /\ ToServe = RoundOf(item, trigger, inside)
  BY <1>1, AwaitedIs, ToServeIs
<1>4. Awaited = [id \in {} |-> 0]
  BY <1>2, <1>3 DEF AlarmOf
<1>5. ToServe = {}
  BY <1>2, <1>3, RoundEmpty
<1>6. Called = 0
  BY <1>2 DEF Called
<1>7. QED
  BY <1>2, <1>4, <1>5, <1>6 DEF Abstract!AInit

\* The heap, the tree and the trigger array of jetnet_timer.c keep the promise of
\* Alarms: an update serves every alarm that is due, each once, and none that was
\* killed, whatever its callbacks create and kill.
THEOREM AlarmsKept == Spec => AlarmSpec
<1>1. Init => Abstract!AInit
  BY StartIs
<1>2. Inv /\ Inv' /\ [Next]_vars => [Abstract!ANext]_(Abstract!avars)
  BY StepIs
<1>3. QED
  BY <1>1, <1>2, TimerInvariant, PTL DEF Spec, AlarmSpec, Abstract!SafeSpec
=============================================================================
