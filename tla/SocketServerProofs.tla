------------------------- MODULE SocketServerProofs -------------------------
(***************************************************************************)
(* Proofs about module SocketServer, for any number of slots, any kernel   *)
(* buffers, messages and bounds: the lists and the ids stay sound, and the *)
(* events are those of module Sockets.                                     *)
(***************************************************************************)
EXTENDS SocketServer, SequenceTheorems, FiniteSetTheorems, WellFoundedInduction, TLAPS

-----------------------------------------------------------------------------
(* What the list operations do to the members of a list without duplicates. *)

\* Enlisting an object keeps the list free of duplicates and adds that one.
LEMMA EnlistedTailProperties ==
  ASSUME NEW S, NEW list \in Seq(S), NEW e \in S, IsInjective(list)
  PROVE  /\ EnlistedTail(list, e) \in Seq(S)
         /\ IsInjective(EnlistedTail(list, e))
         /\ Range(EnlistedTail(list, e)) = Range(list) \cup {e}
<1>1. CASE e \in Range(list)
  BY <1>1 DEF EnlistedTail
<1>2. CASE e \notin Range(list)
  <2>1. EnlistedTail(list, e) = Append(list, e)
    BY <1>2 DEF EnlistedTail
  <2>2. DOMAIN Append(list, e) = 1..(Len(list) + 1)
    OBVIOUS
  <2>3. \A i \in 1..(Len(list) + 1) :
          Append(list, e)[i] = IF i <= Len(list) THEN list[i] ELSE e
    OBVIOUS
  <2>4. IsInjective(Append(list, e))
    BY <1>2, <2>2, <2>3 DEF IsInjective, Range
  <2>5. Range(Append(list, e)) = Range(list) \cup {e}
    <3>1. Append(list, e)[Len(list) + 1] = e
      OBVIOUS
    <3>2. \A i \in DOMAIN list : /\ i \in DOMAIN Append(list, e)
                                 /\ Append(list, e)[i] = list[i]
      BY <2>2, <2>3
    <3>3. QED
      BY <2>2, <2>3, <3>1, <3>2 DEF Range
  <2>6. QED
    BY <2>1, <2>4, <2>5
<1>3. QED
  BY <1>1, <1>2

\* Popping the head removes that object and no other.
LEMMA TailProperties ==
  ASSUME NEW S, NEW list \in Seq(S), IsInjective(list), list # <<>>
  PROVE  /\ Tail(list) \in Seq(S)
         /\ IsInjective(Tail(list))
         /\ Head(list) \in Range(list)
         /\ Range(Tail(list)) = Range(list) \ {Head(list)}
<1>1. /\ Tail(list) \in Seq(S)
      /\ Len(Tail(list)) = Len(list) - 1
      /\ \A i \in 1..Len(Tail(list)) : Tail(list)[i] = list[i + 1]
  BY HeadTailProperties
<1>2. /\ Head(list) = list[1]
      /\ Len(list) \in Nat \ {0}
      /\ DOMAIN list = 1..Len(list)
      /\ DOMAIN Tail(list) = 1..(Len(list) - 1)
  BY <1>1
<1>3. IsInjective(Tail(list))
  BY <1>1, <1>2 DEF IsInjective
<1>4. \A i \in DOMAIN list : i # 1 => /\ i - 1 \in DOMAIN Tail(list)
                                      /\ Tail(list)[i - 1] = list[i]
  BY <1>1, <1>2
<1>5. \A i \in DOMAIN Tail(list) : /\ Tail(list)[i] \in Range(list)
                                   /\ Tail(list)[i] # list[1]
  BY <1>1, <1>2 DEF IsInjective, Range
<1>6. Range(Tail(list)) = Range(list) \ {Head(list)}
  BY <1>2, <1>4, <1>5 DEF Range
<1>7. Head(list) \in Range(list)
  BY <1>2 DEF Range
<1>8. QED
  BY <1>1, <1>3, <1>6, <1>7

\* Delisting the objects of a set removes those, and no other.
LEMMA DelistedAllProperties ==
  ASSUME NEW T, NEW list \in Seq(T), NEW S, IsInjective(list)
  PROVE  /\ DelistedAll(list, S) \in Seq(T)
         /\ IsInjective(DelistedAll(list, S))
         /\ Range(DelistedAll(list, S)) = Range(list) \ S
<1> DEFINE stays == {i \in DOMAIN list : list[i] \notin S}
           below(i) == {j \in stays : j <= i}
           n == Cardinality(stays)
           at(k) == CHOOSE i \in stays : Cardinality(below(i)) = k
           rest == DelistedAll(list, S)
<1>1. DOMAIN list = 1..Len(list) /\ Len(list) \in Nat
  OBVIOUS
<1>2. IsFiniteSet(stays) /\ n \in Nat
  <2>1. IsFiniteSet(1..Len(list))
    BY <1>1, FS_Interval
  <2>2. stays \in SUBSET (1..Len(list))
    BY <1>1
  <2> HIDE DEF stays
  <2>3. IsFiniteSet(stays)
    BY <2>1, <2>2, FS_Subset
  <2>4. QED
    BY <2>3, FS_CardinalityType
<1>3. \A i \in stays : /\ IsFiniteSet(below(i))
                       /\ Cardinality(below(i)) \in 1..n
  <2> SUFFICES ASSUME NEW i \in stays
               PROVE  IsFiniteSet(below(i)) /\ Cardinality(below(i)) \in 1..n
    OBVIOUS
  <2>1. below(i) \in SUBSET stays /\ i \in below(i)
    BY <1>1
  <2> HIDE DEF stays, below
  <2>2. /\ IsFiniteSet(below(i)) /\ Cardinality(below(i)) <= n
    BY <1>2, <2>1, FS_Subset
  <2>3. Cardinality(below(i)) \in Nat /\ Cardinality(below(i)) # 0
    BY <2>1, <2>2, FS_CardinalityType, FS_EmptySet
  <2>4. QED
    BY <1>2, <2>2, <2>3
\* An object further on has more of those that stay in front of it.
<1>4. \A i, j \in stays : Cardinality(below(i)) = Cardinality(below(j)) => i = j
  <2>1. \A i, j \in stays : i < j => Cardinality(below(i)) # Cardinality(below(j))
    <3> SUFFICES ASSUME NEW i \in stays, NEW j \in stays, i < j
                 PROVE  Cardinality(below(i)) # Cardinality(below(j))
      OBVIOUS
    <3>1. below(i) \in SUBSET below(j) /\ j \in below(j) /\ j \notin below(i)
      BY <1>1
    <3>2. IsFiniteSet(below(j))
      BY <1>3
    <3> HIDE DEF stays, below
    <3>3. QED
      BY <3>1, <3>2, FS_Subset
  <2>2. \A i, j \in stays : i < j \/ j < i \/ i = j
    BY <1>1
  <2> HIDE DEF stays, below
  <2>3. QED
    BY <2>1, <2>2
<1>5. \A k \in 1..n : \E i \in stays : Cardinality(below(i)) = k
  <2> DEFINE rank == [i \in stays |-> Cardinality(below(i))]
  <2> HIDE DEF stays, below
  <2>1. rank \in Injection(stays, 1..n)
    BY <1>3, <1>4 DEF Injection, IsInjective
  <2>2. IsFiniteSet(1..n) /\ Cardinality(1..n) = n
    BY <1>2, FS_Interval
  <2>3. rank \in Surjection(stays, 1..n)
    BY <2>1, <2>2, FS_Injection
  <2>4. QED
    BY <2>3 DEF Surjection
<1>6. \A k \in 1..n : at(k) \in stays /\ Cardinality(below(at(k))) = k
  <2> HIDE DEF stays, below
  <2>1. QED
    BY <1>5
<1>7. \A i \in stays : i = at(Cardinality(below(i)))
  <2> HIDE DEF stays, below
  <2>1. \A i \in stays : Cardinality(below(i)) \in 1..n
    BY <1>3
  <2>2. QED
    BY <1>4, <1>6, <2>1
<1>8. rest = [k \in 1..n |-> list[at(k)]]
  BY DEF DelistedAll
<1>9. \A i \in stays : i \in 1..Len(list) /\ list[i] \in T /\ list[i] \notin S
  BY <1>1
<1>10. \A i \in 1..Len(list) : list[i] \notin S => i \in stays
  BY <1>1
<1> HIDE DEF at, rest, stays, below
<1>11. rest \in [1..n -> T]
  BY <1>6, <1>8, <1>9
<1>12. rest \in Seq(T) /\ DOMAIN rest = 1..n
  BY <1>2, <1>11
<1>13. IsInjective(rest)
  <2> SUFFICES ASSUME NEW a \in 1..n, NEW b \in 1..n, rest[a] = rest[b]
               PROVE  a = b
    BY <1>12 DEF IsInjective
  <2>1. list[at(a)] = list[at(b)]
    BY <1>8
  <2>2. at(a) = at(b)
    BY <1>1, <1>6, <1>9, <2>1 DEF IsInjective
  <2>3. QED
    BY <1>6, <2>2
<1>14. Range(rest) = Range(list) \ S
  <2>1. \A k \in 1..n : rest[k] \in Range(list) \ S
    BY <1>1, <1>6, <1>8, <1>9 DEF Range
  <2>2. ASSUME NEW i \in 1..Len(list), list[i] \notin S
        PROVE  list[i] \in Range(rest)
    <3>1. i \in stays
      BY <1>10, <2>2
    <3>2. Cardinality(below(i)) \in 1..n /\ at(Cardinality(below(i))) = i
      BY <1>3, <1>7, <3>1
    <3>3. rest[Cardinality(below(i))] = list[i]
      BY <1>8, <3>2
    <3>4. QED
      BY <1>12, <3>2, <3>3 DEF Range
  <2>3. QED
    BY <1>1, <1>12, <2>1, <2>2 DEF Range
<1>15. QED
  BY <1>12, <1>13, <1>14 DEF rest

\* Lists without a common object, joined.
LEMMA JoinedProperties ==
  ASSUME NEW T, NEW p \in Seq(T), NEW q \in Seq(T), IsInjective(p), IsInjective(q),
         Range(p) \cap Range(q) = {}
  PROVE  /\ p \o q \in Seq(T)
         /\ IsInjective(p \o q)
         /\ Range(p \o q) = Range(p) \cup Range(q)
<1>1. /\ p \o q \in Seq(T) /\ Len(p \o q) = Len(p) + Len(q)
      /\ DOMAIN p = 1..Len(p) /\ DOMAIN q = 1..Len(q)
      /\ DOMAIN (p \o q) = 1..Len(p) + Len(q)
      /\ Len(p) \in Nat /\ Len(q) \in Nat
  BY ConcatProperties, LenProperties
<1>2. \A i \in 1..Len(p) + Len(q) :
        (p \o q)[i] = IF i <= Len(p) THEN p[i] ELSE q[i - Len(p)]
  BY ConcatProperties
<1> DEFINE r == p \o q
<1> HIDE DEF r
<1>3. /\ \A i \in 1..Len(p) : i \in DOMAIN r /\ r[i] = p[i]
      /\ \A i \in 1..Len(q) : i + Len(p) \in DOMAIN r /\ r[i + Len(p)] = q[i]
  BY <1>1, <1>2 DEF r
<1>4. \A i \in DOMAIN r : \/ i \in 1..Len(p)
                          \/ i - Len(p) \in 1..Len(q) /\ i = (i - Len(p)) + Len(p)
  BY <1>1 DEF r
<1>5. \A i \in 1..Len(p), j \in 1..Len(q) : p[i] # q[j]
  BY <1>1 DEF Range
<1>6. IsInjective(r)
  <2> SUFFICES ASSUME NEW i \in DOMAIN r, NEW j \in DOMAIN r, r[i] = r[j]
               PROVE  i = j
    BY DEF IsInjective
  <2>1. CASE i \in 1..Len(p) /\ j \in 1..Len(p)
    BY <1>1, <1>3, <2>1 DEF IsInjective
  <2>2. CASE i \in 1..Len(p) /\ j - Len(p) \in 1..Len(q) /\ j = (j - Len(p)) + Len(p)
    BY <1>3, <1>5, <2>2
  <2>3. CASE j \in 1..Len(p) /\ i - Len(p) \in 1..Len(q) /\ i = (i - Len(p)) + Len(p)
    BY <1>3, <1>5, <2>3
  <2>4. CASE /\ i - Len(p) \in 1..Len(q) /\ i = (i - Len(p)) + Len(p)
             /\ j - Len(p) \in 1..Len(q) /\ j = (j - Len(p)) + Len(p)
    <3>1. q[i - Len(p)] = q[j - Len(p)]
      BY <1>3, <2>4
    <3>2. i - Len(p) = j - Len(p)
      BY <1>1, <2>4, <3>1 DEF IsInjective
    <3>3. QED
      BY <2>4, <3>2
  <2>5. QED
    BY <1>4, <2>1, <2>2, <2>3, <2>4
<1>7. Range(r) = Range(p) \cup Range(q)
  <2>1. Range(p) \subseteq Range(r) /\ Range(q) \subseteq Range(r)
    BY <1>1, <1>3 DEF Range
  <2>2. \A i \in DOMAIN r : r[i] \in Range(p) \cup Range(q)
    BY <1>1, <1>3, <1>4 DEF Range
  <2>3. QED
    BY <2>1, <2>2 DEF Range
<1>8. QED
  BY <1>1, <1>6, <1>7 DEF r

\* list_move_tail of the head.
LEMMA RotatedProperties ==
  ASSUME NEW T, NEW list \in Seq(T), IsInjective(list), list # <<>>
  PROVE  /\ Tail(list) \o <<Head(list)>> \in Seq(T)
         /\ IsInjective(Tail(list) \o <<Head(list)>>)
         /\ Range(Tail(list) \o <<Head(list)>>) = Range(list)
<1> DEFINE h == Head(list)
<1>1. /\ Tail(list) \in Seq(T) /\ IsInjective(Tail(list))
      /\ h \in Range(list) /\ Range(Tail(list)) = Range(list) \ {h}
  BY TailProperties
<1>2. h \in T /\ <<h>> \in Seq(T)
  BY HeadTailProperties
<1> HIDE DEF h
<1>3. IsInjective(<<h>>) /\ Range(<<h>>) = {h}
  <2>1. DOMAIN <<h>> = {1} /\ <<h>>[1] = h
    OBVIOUS
  <2>2. QED
    BY <2>1 DEF IsInjective, Range
<1> DEFINE front == Tail(list)
           back == <<h>>
<1>4. /\ front \in Seq(T) /\ back \in Seq(T) /\ IsInjective(front)
      /\ IsInjective(back) /\ Range(front) \cap Range(back) = {}
  BY <1>1, <1>2, <1>3
<1> HIDE DEF front, back
<1>5. /\ front \o back \in Seq(T) /\ IsInjective(front \o back)
      /\ Range(front \o back) = Range(front) \cup Range(back)
  BY <1>4, JoinedProperties
<1> USE DEF front, back
<1>6. Range(front) \cup Range(back) = Range(list)
  BY <1>1, <1>3
<1>7. QED
  BY <1>5, <1>6 DEF h

-----------------------------------------------------------------------------
(* The invariant, slot by slot.                                            *)

Fields == {"state", "role", "id", "can_send", "can_recv", "recv_size", "wbl"}

Shapes ==
  /\ DOMAIN sock = Slot /\ DOMAIN net = Slot
  /\ \A s \in Slot : DOMAIN sock[s] = Fields
  /\ active \in Seq(Slot) /\ IsInjective(active)
  /\ closing \in Seq(Slot) /\ IsInjective(closing)
  /\ alloc_id \in Nat
  /\ DOMAIN view \subseteq Nat /\ view = [id \in DOMAIN view |-> view[id]]

\* The sockets whose ids the protocols hold.
Live(s) ==
  sock[s].state \notin {"INVALID", "CLOSING"} /\ s \notin Range(closing)

\* What the lists, the kernel and the protocols know of slot s.
Good(s) ==
  /\ sock[s].state = "ERROR" => s \in Range(active)
  /\ sock[s].state = "INVALID" => s \notin Range(active) /\ net[s] = NoNet
  /\ s \in Range(closing) => sock[s].state = "ERROR"
  /\ sock[s].state # "INVALID" => sock[s].id \in Nat /\ SlotOf(sock[s].id) = s
  /\ Live(s) => sock[s].id \in DOMAIN view
  /\ sock[s].state = "CONNECTED" => view[sock[s].id] = "open"
  /\ sock[s].state = "CONNECTING" => view[sock[s].id] = "connecting"
  /\ \A id \in DOMAIN view : SlotOf(id) = s => Live(s) /\ sock[s].id = id

\* A poll has freed what was in close_list before it serves a socket.
ServerInv ==
  /\ Shapes
  /\ \A s \in Slot : Good(s)
  /\ step = "serve" => closing = <<>>

\* A step that changes nothing that the invariant says of slot s.
Same(s) ==
  /\ sock'[s].state = sock[s].state
  /\ sock[s].state # "INVALID" => sock'[s].id = sock[s].id
  /\ sock[s].state = "INVALID" => net'[s] = net[s]
  /\ sock[s].state \in {"INVALID", "ERROR"} =>
       (s \in Range(active') <=> s \in Range(active))
  /\ s \in Range(closing') <=> s \in Range(closing)
  /\ \A id \in Nat : SlotOf(id) = s =>
       /\ id \in DOMAIN view' <=> id \in DOMAIN view
       /\ id \in DOMAIN view => view'[id] = view[id]

\* Then what it says stays so.
LEMMA SameGood ==
  ASSUME Shapes, Shapes', NEW s \in Slot, Good(s), Same(s)
  PROVE  Good(s)'
<1>1. Live(s)' <=> Live(s)
  BY DEF Same, Live
<1>2. \A id \in DOMAIN view' : id \in Nat
  BY DEF Shapes
<1>3. Live(s) => sock[s].state # "INVALID"
  BY DEF Live
<1>4. /\ sock[s].state # "INVALID" => sock'[s].id \in Nat /\ SlotOf(sock'[s].id) = s
      /\ Live(s) => sock'[s].id \in DOMAIN view'
      /\ sock[s].state \in {"CONNECTED", "CONNECTING"} => Live(s)
  BY <1>3 DEF Same, Good, Live
<1>5. /\ sock'[s].state = "CONNECTED" => view'[sock'[s].id] = "open"
      /\ sock'[s].state = "CONNECTING" => view'[sock'[s].id] = "connecting"
  BY <1>4 DEF Same, Good
<1>6. \A id \in DOMAIN view' : SlotOf(id) = s => Live(s) /\ sock'[s].id = id
  BY <1>2, <1>3 DEF Same, Good
<1>7. /\ sock'[s].state = "ERROR" => s \in Range(active')
      /\ sock'[s].state = "INVALID" => s \notin Range(active') /\ net'[s] = NoNet
      /\ s \in Range(closing') => sock'[s].state = "ERROR"
  BY DEF Same, Good
<1>8. QED
  BY <1>1, <1>4, <1>5, <1>6, <1>7 DEF Good, Same, SlotOf

\* A step that moves one slot at most.
LEMMA OneSlot ==
  ASSUME ServerInv, Shapes', NEW t \in Slot, Good(t)',
         \A s \in Slot : s # t => Same(s),
         step' = "serve" => closing' = <<>>
  PROVE  ServerInv'
<1>1. \A s \in Slot : s # t => Good(s)'
  BY SameGood DEF ServerInv
<1>2. \A s \in Slot : Good(s)'
  BY <1>1
<1>3. QED
  BY <1>2 DEF ServerInv, Slot

\* A step that moves no slot.
LEMMA NoSlot ==
  ASSUME ServerInv, Shapes', \A s \in Slot : Same(s),
         step' = "serve" => closing' = <<>>
  PROVE  ServerInv'
<1>1. \A s \in Slot : Good(s)'
  BY SameGood DEF ServerInv
<1>2. QED
  BY <1>1 DEF ServerInv, Slot

\* Every id has a slot.
LEMMA SlotIs ==
  ASSUME NEW id \in Nat
  PROVE  SlotOf(id) \in Slot
<1>1. MaxSocket \in Nat \ {0}
  BY SocketServerAssumption
<1>2. QED
  BY <1>1 DEF SlotOf, Slot

\* A set of ids has a least one.
LEMMA LeastExists ==
  ASSUME NEW S \in SUBSET Nat, S # {}
  PROVE  \E x \in S : \A y \in S : x <= y
<1> DEFINE R == OpToRel(<, Nat)
<1>1. IsWellFoundedOn(R, Nat)
  BY NatLessThanWellFounded
<1>2. \A x, y \in Nat : y < x => <<y, x>> \in R
  BY DEF OpToRel
<1> HIDE DEF R
<1>3. PICK x \in S : \A y \in S : ~ (<<y, x>> \in R)
  BY <1>1, WFMin
<1>4. \A y \in S : ~ (y < x)
  BY <1>2, <1>3
<1>5. \A y \in S : x <= y
  BY <1>4
<1>6. QED
  BY <1>5

\* A new id: its slot is free.
LEMMA NewIdIs ==
  ASSUME Shapes, FreeIds # {}
  PROVE  /\ NewId \in Nat /\ alloc_id <= NewId
         /\ SlotOf(NewId) \in Slot
         /\ sock[SlotOf(NewId)].state = "INVALID"
<1>1. FreeIds \in SUBSET Nat
  <2>1. alloc_id \in Nat /\ MaxSocket \in Nat
    BY SocketServerAssumption DEF Shapes
  <2>2. alloc_id..alloc_id + MaxSocket - 1 \subseteq Nat
    BY <2>1
  <2>3. QED
    BY <2>2 DEF FreeIds
<1>2. \E id \in FreeIds : \A other \in FreeIds : id <= other
  BY <1>1, LeastExists
<1>3. NewId \in FreeIds
  BY <1>2 DEF NewId
<1>4. NewId \in Nat /\ alloc_id <= NewId /\ sock[SlotOf(NewId)].state = "INVALID"
  BY <1>1, <1>3, SocketServerAssumption DEF FreeIds, Shapes
<1>5. QED
  BY <1>4, SlotIs

\* An id that the protocols hold is that of the live socket in its slot.
LEMMA HeldIs ==
  ASSUME Shapes, \A s \in Slot : Good(s), NEW id \in DOMAIN view
  PROVE  id \in Nat /\ SlotOf(id) \in Slot /\ Live(SlotOf(id)) /\ sock[SlotOf(id)].id = id
<1>1. id \in Nat /\ SlotOf(id) \in Slot
  BY SlotIs DEF Shapes
<1>2. QED
  BY <1>1 DEF Good

\* The socket that is served, and what becomes of the active list.
LEMMA HeadIs ==
  ASSUME Shapes, NEW s, Serving(s)
  PROVE  /\ s \in Slot /\ s \in Range(active)
         /\ Rotated \in Seq(Slot) /\ IsInjective(Rotated) /\ Range(Rotated) = Range(active)
         /\ Tail(active) \in Seq(Slot) /\ IsInjective(Tail(active))
         /\ Range(Tail(active)) = Range(active) \ {s}
<1>1. active \in Seq(Slot) /\ IsInjective(active) /\ active # <<>> /\ s = Head(active)
  BY DEF Shapes, Serving
<1>2. s \in Slot
  BY <1>1
<1>3. QED
  BY <1>1, <1>2, TailProperties, RotatedProperties DEF Rotated

\* A read and a write change neither the id nor the state.
LEMMA ServedIs ==
  ASSUME Shapes, NEW s \in Slot
  PROVE  /\ DOMAIN Served(s) = Fields
         /\ Served(s).state = sock[s].state /\ Served(s).id = sock[s].id
BY DEF Shapes, Fields, Served

\* Nor does epoll.
LEMMA WokenIs ==
  ASSUME Shapes, NEW s \in Slot
  PROVE  /\ DOMAIN Woken(s) = Fields
         /\ Woken(s).state = sock[s].state /\ Woken(s).id = sock[s].id
BY DEF Shapes, Fields, Woken

\* A socket that was reset is free.
LEMMA ResetIs == DOMAIN Reset = Fields /\ Reset.state = "INVALID"
BY DEF Reset, Fields

\* One socket replaced by another.
LEMMA SetIs ==
  ASSUME Shapes, NEW t \in Slot, NEW r, DOMAIN r = Fields,
         sock' = [sock EXCEPT ![t] = r]
  PROVE  /\ DOMAIN sock' = Slot /\ \A s \in Slot : DOMAIN sock'[s] = Fields
         /\ sock'[t] = r /\ \A s \in Slot : s # t => sock'[s] = sock[s]
BY DEF Shapes

-----------------------------------------------------------------------------
(* The invariant is inductive, action by action.                           *)

\* jetnet_ss_create.
LEMMA ServerInit == Init => ServerInv
<1> SUFFICES ASSUME Init
             PROVE  ServerInv
  OBVIOUS
<1>1. Range(<<>>) = {} /\ IsInjective(<<>>) /\ <<>> \in Seq(Slot)
  BY DEF Range, IsInjective
<1>2. Shapes
  BY <1>1, ResetIs DEF Init, Shapes
<1>3. \A s \in Slot : Good(s)
  BY <1>1, ResetIs DEF Init, Good, Live
<1>4. QED
  BY <1>2, <1>3 DEF ServerInv, Init

\* The kernel acts on a connection, never on a free slot.
LEMMA KernelStep ==
  ASSUME ServerInv, NEW s \in Slot, NEW n, net[s] # NoNet, Kernel(s, n)
  PROVE  ServerInv'
<1>1. Shapes'
  BY DEF ServerInv, Shapes, Kernel, lists, history, Slot
<1>2. sock[s].state # "INVALID"
  BY DEF ServerInv, Good
<1>3. \A t \in Slot : Same(t)
  BY <1>2 DEF ServerInv, Shapes, Same, Kernel, lists, history
<1>4. QED
  BY <1>1, <1>3, NoSlot DEF ServerInv, Kernel, lists

\* Whatever the kernel and the peers do.
LEMMA WorldStep == ServerInv /\ World => ServerInv'
<1> SUFFICES ASSUME ServerInv, World
             PROVE  ServerInv'
  OBVIOUS
<1>1. PICK s \in Slot : \/ ConnectEnds(s) \/ PeerSends(s) \/ PeerCloses(s)
                        \/ PeerResets(s) \/ PeerAcks(s) \/ Dial(s)
  BY DEF World
<1>2. net[s] # NoNet /\ \E n : Kernel(s, n)
  BY <1>1 DEF NoNet, ConnectEnds, PeerSends, PeerCloses, PeerResets, PeerAcks, Dial,
              Usable
<1>3. QED
  BY <1>2, KernelStep

\* A socket for a new id, in the step that makes it.
LEMMA Begun ==
  ASSUME ServerInv, FreeIds # {}, NEW st, NEW role, NEW canSend, NEW phase,
         \/ st = "LISTENING" /\ phase = "listening"
         \/ st = "CONNECTED" /\ phase = "open"
         \/ st = "CONNECTING" /\ phase = "connecting",
         sock' = [sock EXCEPT ![SlotOf(NewId)] =
                    [Reset EXCEPT !.id = NewId, !.state = st, !.role = role,
                                  !.can_send = canSend]],
         DOMAIN net' = Slot,
         \A s \in Slot : sock[s].state = "INVALID" /\ s # SlotOf(NewId) => net'[s] = net[s],
         Holds(NewId, phase), alloc_id' = NewId + 1, closing' = closing,
         active' \in Seq(Slot), IsInjective(active'),
         \A s \in Slot : sock[s].state \in {"INVALID", "ERROR"} =>
           (s \in Range(active') <=> s \in Range(active)),
         step' = "app"
  PROVE  ServerInv'
<1>0. PICK t \in Slot : t = SlotOf(NewId)
  BY NewIdIs DEF ServerInv
<1> DEFINE r == [Reset EXCEPT !.id = NewId, !.state = st, !.role = role,
                              !.can_send = canSend]
<1>1. /\ NewId \in Nat /\ t \in Slot /\ sock[t].state = "INVALID"
  BY <1>0, NewIdIs DEF ServerInv
<1>2. DOMAIN r = Fields /\ r.id = NewId /\ r.state = st
  BY DEF Reset, Fields
<1> HIDE DEF r
<1>3. /\ DOMAIN sock' = Slot /\ \A s \in Slot : DOMAIN sock'[s] = Fields
      /\ sock'[t] = r /\ \A s \in Slot : s # t => sock'[s] = sock[s]
  BY <1>0, <1>1, <1>2, SetIs DEF ServerInv, r
<1>4. /\ DOMAIN view' = DOMAIN view \cup {NewId}
      /\ view'[NewId] = phase
      /\ \A id \in DOMAIN view : id # NewId => view'[id] = view[id]
      /\ view' = [id \in DOMAIN view' |-> view'[id]]
  BY DEF Holds
<1>5. Shapes'
  BY <1>1, <1>3, <1>4 DEF ServerInv, Shapes, Slot
<1>6. \A s \in Slot : s # t => Same(s)
  BY <1>0, <1>1, <1>3, <1>4 DEF Same
<1>7. Good(t)'
  <2>1. t \notin Range(active) /\ t \notin Range(closing) /\ \A id \in DOMAIN view : SlotOf(id) # t
    BY <1>1 DEF ServerInv, Good, Live
  <2>2. t \notin Range(active') /\ t \notin Range(closing')
    BY <1>1, <2>1
  <2>3. sock'[t].state = st /\ sock'[t].id = NewId
    BY <1>2, <1>3
  <2>4. Live(t)'
    BY <2>2, <2>3 DEF Live
  <2>5. \A id \in DOMAIN view' : SlotOf(id) = t => sock'[t].id = id
    BY <1>4, <2>1, <2>3
  <2>6. NewId \in DOMAIN view' /\ SlotOf(NewId) = t
    BY <1>0, <1>4
  <2>7. /\ sock'[t].state = "CONNECTED" => view'[sock'[t].id] = "open"
        /\ sock'[t].state = "CONNECTING" => view'[sock'[t].id] = "connecting"
    BY <1>4, <2>3
  <2>8. QED
    BY <1>1, <2>2, <2>3, <2>4, <2>5, <2>6, <2>7 DEF Good, SlotOf
<1>8. QED
  BY <1>1, <1>5, <1>6, <1>7, OneSlot

\* An id is given out, or not even that, and no socket made.
LEMMA NotBegun ==
  ASSUME ServerInv, alloc_id' \in Nat,
         \/ UNCHANGED sock
         \/ FreeIds # {} /\ sock' = [sock EXCEPT ![SlotOf(NewId)].id = NewId],
         DOMAIN net' = Slot,
         \A s \in Slot : sock[s].state = "INVALID" => net'[s] = net[s],
         UNCHANGED view, closing' = closing,
         active' \in Seq(Slot), IsInjective(active'),
         \A s \in Slot : sock[s].state \in {"INVALID", "ERROR"} =>
           (s \in Range(active') <=> s \in Range(active)),
         step' = "app"
  PROVE  ServerInv'
<1>1. /\ DOMAIN sock' = Slot /\ \A s \in Slot : DOMAIN sock'[s] = Fields
      /\ \A s \in Slot : sock'[s].state = sock[s].state
      /\ \A s \in Slot : sock[s].state # "INVALID" => sock'[s] = sock[s]
  <2>1. CASE UNCHANGED sock
    BY <2>1 DEF ServerInv, Shapes
  <2>2. CASE FreeIds # {} /\ sock' = [sock EXCEPT ![SlotOf(NewId)].id = NewId]
    <3>1. PICK t \in Slot : t = SlotOf(NewId) /\ sock[t].state = "INVALID"
      BY <2>2, NewIdIs DEF ServerInv
    <3>2. DOMAIN sock[t] = Fields
      BY DEF ServerInv, Shapes
    <3>3. /\ DOMAIN [sock[t] EXCEPT !.id = NewId] = Fields
          /\ [sock[t] EXCEPT !.id = NewId].state = sock[t].state
      BY <3>2 DEF Fields
    <3>4. sock' = [sock EXCEPT ![t] = [sock[t] EXCEPT !.id = NewId]]
      BY <2>2, <3>1
    <3>5. QED
      BY <3>1, <3>3, <3>4 DEF ServerInv, Shapes
  <2>3. QED
    BY <2>1, <2>2
<1>2. Shapes'
  BY <1>1 DEF ServerInv, Shapes, Slot
<1>3. \A s \in Slot : Same(s)
  BY <1>1 DEF Same
<1>4. QED
  BY <1>2, <1>3, NoSlot

\* jetnet_tcp_listen and jetnet_tcp_connect.
LEMMA OpenStep == ServerInv /\ (Listen \/ Connect \/ OpenFull) => ServerInv'
<1> SUFFICES ASSUME ServerInv, Listen \/ Connect \/ OpenFull
             PROVE  ServerInv'
  OBVIOUS
<1>1. /\ DOMAIN net = Slot /\ alloc_id \in Nat /\ MaxSocket \in Nat
      /\ active \in Seq(Slot) /\ IsInjective(active)
  BY SocketServerAssumption DEF ServerInv, Shapes
<1>2. CASE Opening /\ Spent(NewId)
  BY <1>1, <1>2, NotBegun, NewIdIs DEF Opening, Idle, Spent, lists, ServerInv
<1>3. CASE OpenFull
  BY <1>1, <1>3, NotBegun DEF OpenFull, Idle, lists, history
<1>4. ASSUME NEW st, NEW role, NEW canSend, NEW kernel, NEW phase, Opening,
             NewSocket(NewId, st, role, canSend, kernel), Holds(NewId, phase),
             \/ st = "LISTENING" /\ phase = "listening"
             \/ st = "CONNECTED" /\ phase = "open"
             \/ st = "CONNECTING" /\ phase = "connecting"
      PROVE  ServerInv'
  <2>1. /\ FreeIds # {} /\ alloc_id' = NewId + 1 /\ step' = "app"
        /\ UNCHANGED <<active, closing>>
    BY <1>4 DEF Opening, Idle, lists
  <2>2. DOMAIN net' = Slot
        /\ \A s \in Slot : sock[s].state = "INVALID" /\ s # SlotOf(NewId) => net'[s] = net[s]
    BY <1>1, <1>4 DEF NewSocket
  <2>3. sock' = [sock EXCEPT ![SlotOf(NewId)] =
                   [Reset EXCEPT !.id = NewId, !.state = st, !.role = role,
                                 !.can_send = canSend]]
    BY <1>4 DEF NewSocket
  <2>4. QED
    BY <1>1, <1>4, <2>1, <2>2, <2>3, Begun
<1>5. CASE Listen
  BY <1>2, <1>4, <1>5 DEF Listen
<1>6. CASE Connect
  BY <1>2, <1>4, <1>6 DEF Connect
<1>7. QED
  BY <1>3, <1>5, <1>6

\* The sockets that are closed at once, and their ids, which nobody holds then.
LEMMA ForceClosedGood ==
  ASSUME ServerInv, NEW S \in SUBSET Slot, ForceClosed(S),
         UNCHANGED alloc_id,
         view' = Restrict(view, DOMAIN view'), DOMAIN view' \subseteq DOMAIN view,
         \A id \in DOMAIN view : SlotOf(id) \notin S <=> id \in DOMAIN view'
  PROVE  /\ Shapes' /\ \A s \in Slot : Good(s)'
         /\ Range(closing') = Range(closing) \ S
<1>1. /\ active' \in Seq(Slot) /\ IsInjective(active')
      /\ Range(active') = Range(active) \ S
      /\ closing' \in Seq(Slot) /\ IsInjective(closing')
      /\ Range(closing') = Range(closing) \ S
  BY DelistedAllProperties DEF ServerInv, Shapes, ForceClosed
<1>2. /\ DOMAIN sock' = Slot /\ DOMAIN net' = Slot
      /\ \A s \in S : sock'[s] = Reset /\ net'[s] = NoNet
      /\ \A s \in Slot \ S : sock'[s] = sock[s] /\ net'[s] = net[s]
  BY DEF ForceClosed
<1>3. /\ view' = [id \in DOMAIN view' |-> view'[id]]
      /\ \A id \in DOMAIN view' : view'[id] = view[id]
  BY DEF Restrict
<1>4. Shapes'
  BY <1>1, <1>2, <1>3, ResetIs DEF ServerInv, Shapes, Slot
<1>5. \A s \in Slot \ S : Same(s)
  BY <1>1, <1>2, <1>3 DEF Same
<1>6. \A s \in Slot \ S : Good(s)'
  BY <1>4, <1>5, SameGood DEF ServerInv
<1>7. \A s \in S : Good(s)'
  <2> SUFFICES ASSUME NEW s \in S
               PROVE  Good(s)'
    OBVIOUS
  <2>1. /\ sock'[s].state = "INVALID" /\ net'[s] = NoNet
        /\ s \notin Range(active') /\ s \notin Range(closing')
    BY <1>1, <1>2, ResetIs
  <2>2. \A id \in DOMAIN view' : SlotOf(id) # s
    OBVIOUS
  <2>3. QED
    BY <2>1, <2>2 DEF Good, Live, SlotOf
<1>8. QED
  BY <1>1, <1>4, <1>6, <1>7

\* jetnet_close_socket.
LEMMA CloseStep ==
  ASSUME ServerInv, NEW id \in Nat, Close(id)
  PROVE  ServerInv'
<1>1. PICK s \in Slot : s = SlotOf(id)
  BY SlotIs
<1>2. /\ sock[s].state # "INVALID" /\ step' = "app"
      /\ view' = Restrict(view, DOMAIN view \ {id}) /\ UNCHANGED alloc_id
  BY <1>1 DEF Close, Idle
<1>3. sock[s].id = id
  BY <1>1, HeldIs DEF Close, Known, ServerInv
<1>4. /\ DOMAIN view' = DOMAIN view \ {id}
      /\ \A i \in DOMAIN view' : view'[i] = view[i]
      /\ view' = [i \in DOMAIN view' |-> view'[i]]
  BY <1>2 DEF Restrict
<1>5. \A i \in DOMAIN view : SlotOf(i) = s <=> i = id
  BY <1>1, <1>3, HeldIs DEF ServerInv
<1>6. CASE ForceClosed({s})
  <2>1. view' = Restrict(view, DOMAIN view') /\ DOMAIN view' \subseteq DOMAIN view
    BY <1>2, <1>4
  <2>2. \A i \in DOMAIN view : SlotOf(i) \notin {s} <=> i \in DOMAIN view'
    BY <1>4, <1>5
  <2>3. Shapes' /\ \A t \in Slot : Good(t)'
    BY <1>2, <1>6, <2>1, <2>2, ForceClosedGood
  <2>4. QED
    BY <1>2, <2>3 DEF ServerInv, Slot
<1>7. CASE /\ sock[s].state = "CONNECTED"
           /\ sock' = [sock EXCEPT ![s].state = "CLOSING"]
           /\ UNCHANGED <<lists, net>>
  <2> DEFINE r == [sock[s] EXCEPT !.state = "CLOSING"]
  <2>1. DOMAIN r = Fields /\ r.state = "CLOSING" /\ r.id = id
    BY <1>3 DEF ServerInv, Shapes, Fields
  <2> HIDE DEF r
  <2>2. /\ DOMAIN sock' = Slot /\ \A t \in Slot : DOMAIN sock'[t] = Fields
        /\ sock'[s] = r /\ \A t \in Slot : t # s => sock'[t] = sock[t]
    BY <1>7, <2>1, SetIs DEF ServerInv, r
  <2>3. Shapes'
    BY <1>2, <1>4, <1>7, <2>2 DEF ServerInv, Shapes, lists, Slot
  <2>4. \A t \in Slot : t # s => Same(t)
    BY <1>3, <1>4, <1>5, <1>7, <2>2 DEF Same, lists
  <2>5. Good(s)'
    <3>1. sock'[s].state = "CLOSING" /\ sock'[s].id = id /\ s \notin Range(closing')
      BY <1>7, <2>1, <2>2 DEF ServerInv, Good, lists
    <3>2. \A i \in DOMAIN view' : SlotOf(i) # s
      BY <1>4, <1>5
    <3>3. QED
      BY <1>1, <3>1, <3>2 DEF Good, Live, SlotOf
  <2>6. QED
    BY <1>2, <2>3, <2>4, <2>5, OneSlot
<1>8. QED
  BY <1>1, <1>6, <1>7 DEF Close

\* A socket in use that keeps its id, and what its protocol is told of it.
LEMMA Moved ==
  ASSUME ServerInv, NEW s \in Slot, sock[s].state # "INVALID",
         NEW r, DOMAIN r = Fields, r.id = sock[s].id, sock' = [sock EXCEPT ![s] = r],
         \/ r.state = sock[s].state /\ UNCHANGED view
         \/ /\ r.state = "ERROR" /\ sock[s].state # "CLOSING"
            /\ s \in Range(active') /\ UNCHANGED view
         \/ /\ r.state = "ERROR" /\ sock[s].state = "CONNECTING"
            /\ s \in Range(active') /\ Holds(sock[s].id, "failed")
         \/ /\ r.state = "CONNECTED" /\ sock[s].state = "CONNECTING"
            /\ Holds(sock[s].id, "open"),
         DOMAIN net' = Slot, \A t \in Slot : t # s => net'[t] = net[t],
         active' \in Seq(Slot), IsInjective(active'),
         \A t \in Slot : t # s => (t \in Range(active') <=> t \in Range(active)),
         sock[s].state = "ERROR" => s \in Range(active'),
         closing' = closing, alloc_id' = alloc_id, step' # "serve"
  PROVE  ServerInv'
<1>1. /\ DOMAIN sock' = Slot /\ \A t \in Slot : DOMAIN sock'[t] = Fields
      /\ sock'[s] = r /\ \A t \in Slot : t # s => sock'[t] = sock[t]
  BY SetIs DEF ServerInv
<1>2. sock[s].id \in Nat /\ SlotOf(sock[s].id) = s
  BY DEF ServerInv, Good
<1>3. ~(UNCHANGED view) => Live(s) /\ sock[s].id \in DOMAIN view
  BY DEF ServerInv, Good, Live
<1>4. /\ DOMAIN view' = DOMAIN view
      /\ \A id \in DOMAIN view : id # sock[s].id => view'[id] = view[id]
      /\ view' = [id \in DOMAIN view' |-> view'[id]]
  BY <1>3 DEF Holds, ServerInv, Shapes
<1>5. Shapes'
  BY <1>1, <1>4 DEF ServerInv, Shapes, Slot
<1>6. \A t \in Slot : t # s => Same(t)
  BY <1>1, <1>2, <1>4 DEF Same
<1>7. Good(s)'
  <2>0. Good(s)
    BY DEF ServerInv
  <2>1. sock'[s].state = "ERROR" => s \in Range(active')
    BY <1>1, <2>0 DEF Good
  <2>2. sock'[s].state # "INVALID"
    BY <1>1
  <2>3. s \in Range(closing') => sock'[s].state = "ERROR"
    BY <1>1, <2>0 DEF Good
  <2>4. sock'[s].id \in Nat /\ SlotOf(sock'[s].id) = s
    BY <1>1, <1>2
  <2>5. Live(s)' <=> Live(s)
    BY <1>1, <2>0 DEF Live, Good
  <2>6. Live(s)' => sock'[s].id \in DOMAIN view'
    BY <1>1, <1>4, <2>0, <2>5 DEF Good
  <2>7. /\ sock'[s].state = "CONNECTED" => view'[sock'[s].id] = "open"
        /\ sock'[s].state = "CONNECTING" => view'[sock'[s].id] = "connecting"
    BY <1>1, <1>3, <2>0 DEF Good, Holds
  <2>8. \A id \in DOMAIN view' : SlotOf(id) = s => Live(s)' /\ sock'[s].id = id
    BY <1>1, <1>4, <2>0, <2>5 DEF Good
  <2>9. QED
    BY <2>1, <2>2, <2>3, <2>4, <2>6, <2>7, <2>8 DEF Good, SlotOf
<1>8. QED
  BY <1>5, <1>6, <1>7, OneSlot

\* A broken socket whose CLOSE is reported: its protocol forgets it.
LEMMA Doomed ==
  ASSUME ServerInv, NEW s, Serving(s), sock[s].state \notin {"INVALID", "CLOSING"},
         DOMAIN sock' = Slot, \A t \in Slot : t # s => sock'[t] = sock[t],
         DOMAIN sock'[s] = Fields, sock'[s].id = sock[s].id, sock'[s].state = "ERROR",
         DOMAIN net' = Slot, \A t \in Slot : t # s => net'[t] = net[t],
         ReportsClose(s), alloc_id' = alloc_id, step' # "serve"
  PROVE  ServerInv'
<1>0. /\ s \in Slot /\ s \in Range(active) /\ closing \in Seq(Slot) /\ IsInjective(closing)
      /\ active' \in Seq(Slot) /\ IsInjective(active') /\ Range(active') = Range(active)
  BY HeadIs DEF ServerInv, Shapes, ReportsClose
<1>1. \A t \in Slot : DOMAIN sock'[t] = Fields
  BY DEF ServerInv, Shapes
<1>2. sock[s].id \in Nat /\ SlotOf(sock[s].id) = s
  BY <1>0 DEF ServerInv, Good
<1>3. /\ closing' \in Seq(Slot) /\ IsInjective(closing')
      /\ Range(closing') = Range(closing) \cup {s}
  BY <1>0, EnlistedTailProperties DEF ReportsClose
<1>4. /\ DOMAIN view' = DOMAIN view \ {sock[s].id}
      /\ \A id \in DOMAIN view' : view'[id] = view[id]
      /\ view' = [id \in DOMAIN view' |-> view'[id]]
  BY DEF ReportsClose, Restrict
<1>5. Shapes'
  BY <1>0, <1>1, <1>3, <1>4 DEF ServerInv, Shapes, Slot
<1>6. \A t \in Slot : t # s => Same(t)
  BY <1>0, <1>1, <1>2, <1>3, <1>4 DEF Same
<1>7. Good(s)'
  <2>1. \A id \in DOMAIN view' : SlotOf(id) # s
    BY <1>0, <1>4 DEF ServerInv, Good
  <2>2. /\ sock'[s].state = "ERROR" /\ s \in Range(active') /\ s \in Range(closing')
        /\ sock'[s].id \in Nat /\ SlotOf(sock'[s].id) = s
    BY <1>0, <1>1, <1>2, <1>3
  <2>3. QED
    BY <2>1, <2>2 DEF Good, Live, SlotOf
<1>8. QED
  BY <1>0, <1>5, <1>6, <1>7, OneSlot

\* jetnet_tcp_send and jetnet_tcp_sendv.
LEMMA SendStep ==
  ASSUME ServerInv, NEW id \in Nat,
         SendLater(id) \/ SendNow(id) \/ SendError(id) \/ SendKilled(id)
  PROVE  ServerInv'
<1>1. PICK s \in Slot : s = SlotOf(id)
  BY SlotIs
<1>2. CASE SendKilled(id)
  <2>1. UNCHANGED <<sock, active, closing, alloc_id, net, view>> /\ step' = "crashed"
    BY <1>2 DEF SendKilled, lists, history
  <2>2. Shapes' /\ \A t \in Slot : Same(t)
    BY <2>1 DEF ServerInv, Shapes, Same
  <2>3. QED
    BY <2>1, <2>2, NoSlot
<1> SUFFICES ASSUME SendLater(id) \/ SendNow(id) \/ SendError(id)
             PROVE  ServerInv'
  BY <1>2
<1>3. /\ step' = "app" /\ UNCHANGED <<closing, alloc_id, view>>
      /\ sock[s].state \in {"CONNECTED", "CONNECTING"}
  BY <1>1 DEF SendLater, SendNow, SendError, Direct, Sending, Idle, Accepts
<1>4. /\ DOMAIN sock = Slot /\ DOMAIN sock[s] = Fields /\ DOMAIN net = Slot
      /\ active \in Seq(Slot) /\ IsInjective(active)
  BY DEF ServerInv, Shapes
<1>5. CASE SendError(id)
  <2> DEFINE r == [sock[s] EXCEPT !.state = "ERROR"]
  <2>1. DOMAIN r = Fields /\ r.id = sock[s].id /\ r.state = "ERROR"
    BY <1>4 DEF Fields
  <2>2. sock' = [sock EXCEPT ![s] = r]
    BY <1>1, <1>5 DEF SendError
  <2>3. /\ active' \in Seq(Slot) /\ IsInjective(active')
        /\ Range(active') = Range(active) \cup {s} /\ UNCHANGED net
    BY <1>1, <1>4, <1>5, EnlistedTailProperties DEF SendError, Activate
  <2> HIDE DEF r
  <2>4. QED
    BY <1>3, <1>4, <2>1, <2>2, <2>3, Moved
<1>6. CASE SendLater(id)
  <2> DEFINE r == [sock[s] EXCEPT !.wbl = Append(@, Units(sends + 1))]
  <2>1. DOMAIN r = Fields /\ r.id = sock[s].id /\ r.state = sock[s].state
    BY <1>4 DEF Fields
  <2>2. sock' = [sock EXCEPT ![s] = r] /\ UNCHANGED <<net, active>>
    BY <1>1, <1>6 DEF SendLater
  <2> HIDE DEF r
  <2>3. QED
    BY <1>3, <1>4, <2>1, <2>2, Moved
<1>7. CASE SendNow(id)
  <2>1. PICK canSend, wbl : sock' = [sock EXCEPT ![s].can_send = canSend, ![s].wbl = wbl]
    BY <1>1, <1>7 DEF SendNow
  <2> DEFINE r == [sock[s] EXCEPT !.can_send = canSend, !.wbl = wbl]
  <2>2. DOMAIN r = Fields /\ r.id = sock[s].id /\ r.state = sock[s].state
    BY <1>4 DEF Fields
  <2>3. sock' = [sock EXCEPT ![s] = r]
    BY <1>4, <2>1
  <2>4. /\ DOMAIN net' = Slot /\ \A t \in Slot : t # s => net'[t] = net[t]
        /\ UNCHANGED active
    BY <1>1, <1>4, <1>7 DEF SendNow
  <2> HIDE DEF r
  <2>5. QED
    BY <1>3, <1>4, <2>2, <2>3, <2>4, Moved
<1>8. QED
  BY <1>5, <1>6, <1>7

\* The active list after epoll_wait: what was kept, then what wakes.
LEMMA PolledIs ==
  ASSUME Shapes, NEW ready \in SUBSET Slot, NEW q \in Returns(ready), NEW asleep,
         active' = DelistedAll(active, Range(closing))
                     \o DelistedAll(q, Range(DelistedAll(active, Range(closing))) \cup asleep)
  PROVE  /\ active' \in Seq(Slot) /\ IsInjective(active') /\ Range(q) \subseteq ready
         /\ Range(active) \ Range(closing) \subseteq Range(active')
         /\ Range(active') \subseteq (Range(active) \ Range(closing)) \cup Range(q)
         /\ Range(q) \ asleep \subseteq Range(active')
<1> DEFINE kept == DelistedAll(active, Range(closing))
<1>1. /\ kept \in Seq(Slot) /\ IsInjective(kept)
      /\ Range(kept) = Range(active) \ Range(closing)
  BY DelistedAllProperties DEF Shapes
<1>2. q \in Seq(Slot) /\ IsInjective(q) /\ Range(q) \subseteq ready
  <2>1. PICK p \in SetToSeqs(ready) : q = SubSeq(p, 1, Least(MaxEvent, Len(p)))
    BY DEF Returns
  <2>2. Cardinality(ready) \in Nat
    <3>1. IsFiniteSet(Slot)
      BY SocketServerAssumption, FS_Interval DEF Slot
    <3>2. QED
      BY <3>1, FS_Subset, FS_CardinalityType
  <2>3. p \in Seq(ready) /\ IsInjective(p)
    BY <2>1, <2>2 DEF SetToSeqs, IsInjective
  <2>4. Least(MaxEvent, Len(p)) \in 0..Len(p)
    BY <2>3, SocketServerAssumption DEF Least
  <2>5. /\ q \in Seq(ready) /\ DOMAIN q \subseteq DOMAIN p
        /\ \A i \in DOMAIN q : q[i] = p[i]
    BY <2>1, <2>3, <2>4
  <2>6. QED
    BY <2>3, <2>5 DEF IsInjective, Range
<1> DEFINE more == DelistedAll(q, Range(kept) \cup asleep)
<1> HIDE DEF kept
<1>3. /\ more \in Seq(Slot) /\ IsInjective(more)
      /\ Range(more) = Range(q) \ (Range(kept) \cup asleep)
  BY <1>2, DelistedAllProperties
<1> HIDE DEF more
<1>4. /\ kept \o more \in Seq(Slot) /\ IsInjective(kept \o more)
      /\ Range(kept \o more) = Range(kept) \cup Range(more)
  <2>1. Range(kept) \cap Range(more) = {}
    BY <1>3
  <2>2. QED
    BY <1>1, <1>3, <2>1, JoinedProperties
<1>5. active' = kept \o more
  BY DEF kept, more
<1>6. QED
  BY <1>1, <1>2, <1>3, <1>4, <1>5

\* A poll that waited on epoll, and what it returned.
LEMMA WokenStep ==
  ASSUME ServerInv, NEW ready \in SUBSET (Slot \ Range(closing)),
         \A s \in ready : sock[s].state # "INVALID",
         NEW q, Range(q) \subseteq ready,
         \A s \in Slot : \/ s \in Range(closing) /\ sock'[s] = Reset
                         \/ s \in Range(q) \ Range(closing) /\ sock'[s] = Woken(s)
                         \/ s \notin Range(closing) /\ sock'[s] = sock[s],
         DOMAIN sock' = Slot, DOMAIN net' = Slot,
         \A s \in Range(closing) : net'[s] = NoNet,
         \A s \in Slot \ Range(closing) : sock[s].state = "INVALID" => net'[s] = net[s],
         active' \in Seq(Slot), IsInjective(active'),
         Range(active) \ Range(closing) \subseteq Range(active'),
         Range(active') \subseteq (Range(active) \ Range(closing)) \cup Range(q),
         closing' = <<>>, UNCHANGED <<alloc_id, view>>
  PROVE  ServerInv'
<1>1. Range(closing') = {} /\ IsInjective(closing') /\ closing' \in Seq(Slot)
  BY DEF Range, IsInjective
<1>2. /\ \A s \in Range(closing) : sock'[s].state = "INVALID" /\ DOMAIN sock'[s] = Fields
      /\ \A s \in Slot \ Range(closing) :
           /\ DOMAIN sock'[s] = Fields
           /\ sock'[s].state = sock[s].state /\ sock'[s].id = sock[s].id
  <2>1. Range(closing) \subseteq Slot
    BY DEF ServerInv, Shapes, Range
  <2>2. \A s \in Range(closing) : sock'[s] = Reset
    BY <2>1
  <2>3. \A s \in Slot : DOMAIN sock[s] = Fields
    BY DEF ServerInv, Shapes
  <2>4. QED
    BY <2>2, <2>3, ResetIs, WokenIs DEF ServerInv
<1>3. Shapes'
  BY <1>1, <1>2 DEF ServerInv, Shapes, Slot
<1>4. ASSUME NEW s \in Slot, s \notin Range(closing)
      PROVE  Good(s)'
  <2>1. sock[s].state \in {"INVALID", "ERROR"} =>
          (s \in Range(active') <=> s \in Range(active))
    BY <1>4 DEF ServerInv, Good
  <2>2. QED
    BY <1>1, <1>2, <1>3, <1>4, <2>1, SameGood DEF Same, ServerInv
<1>5. ASSUME NEW s \in Range(closing)
       PROVE  Good(s)'
  <2>1. s \in Slot
    BY DEF ServerInv, Shapes, Range
  <2>2. /\ sock'[s].state = "INVALID" /\ net'[s] = NoNet /\ s \notin Range(closing')
        /\ s \notin Range(active')
    BY <1>1, <1>2
  <2>3. \A id \in DOMAIN view' : SlotOf(id) # s
    BY <2>1 DEF ServerInv, Good, Live
  <2>4. QED
    BY <2>2, <2>3 DEF Good, Live, SlotOf
<1>6. QED
  BY <1>3, <1>4, <1>5 DEF ServerInv, Slot
\* A list without members.
LEMMA EmptyIs ==
  ASSUME NEW T, NEW q \in Seq(T), Range(q) = {}
  PROVE  q = <<>>
<1>1. DOMAIN q = 1..Len(q) /\ Len(q) \in Nat
  BY LenProperties
<1>2. Len(q) # 0 => q[1] \in Range(q)
  BY <1>1 DEF Range
<1>3. Len(q) = 0
  BY <1>2
<1>4. QED
  BY <1>3, EmptySeq

\* A poll frees what is in close_list, then may wait on epoll.
LEMMA PollStep == ServerInv /\ PollEnter => ServerInv'
<1> SUFFICES ASSUME ServerInv, PollEnter
             PROVE  ServerInv'
  OBVIOUS
<1> DEFINE ready == {s \in Slot \ Range(closing) : net[s].edge /\ (In(s) \/ Out(s))}
           kept == DelistedAll(active, Range(closing))
<1>1. Range(closing) \subseteq Slot /\ DOMAIN view \subseteq Nat
      /\ view = [id \in DOMAIN view |-> view[id]]
  BY DEF ServerInv, Shapes, Range
<1>2. CASE ~RoundOver(kept)
  <2>1. ForceClosed(Range(closing)) /\ UNCHANGED <<alloc_id, view>>
    BY <1>2 DEF PollEnter
  <2>2. view' = Restrict(view, DOMAIN view')
    BY <1>1, <2>1 DEF Restrict
  <2>3. \A id \in DOMAIN view : SlotOf(id) \notin Range(closing)
    BY HeldIs DEF ServerInv, Live
  <2>4. /\ Shapes' /\ \A s \in Slot : Good(s)'
        /\ Range(closing') = {}
    BY <1>1, <2>1, <2>2, <2>3, ForceClosedGood
  <2>5. closing' = <<>>
    BY <2>4, EmptyIs DEF Shapes
  <2>6. QED
    BY <2>4, <2>5 DEF ServerInv, Slot
<1>3. CASE RoundOver(kept)
  <2>1. PICK q \in Returns(ready) :
          /\ sock' = [s \in Slot |-> IF s \in Range(closing) THEN Reset
                                     ELSE IF s \in Range(q) THEN Woken(s) ELSE sock[s]]
          /\ net' = [s \in Slot |-> IF s \in Range(closing) THEN NoNet
                       ELSE [net[s] EXCEPT !.edge = s \in ready /\ s \notin Range(q)]]
          /\ active' = kept \o DelistedAll(q,
                         Range(kept) \cup {s \in Slot : ~Wakes(sock'[s])})
          /\ closing' = <<>> /\ UNCHANGED <<alloc_id, view>>
    BY <1>3 DEF PollEnter
  <2>2. \A s \in ready : sock[s].state # "INVALID"
    BY DEF ServerInv, Good, NoNet
  <2>3. \A s \in Slot \ Range(closing) : sock[s].state = "INVALID" => net'[s] = net[s]
    <3> SUFFICES ASSUME NEW s \in Slot \ Range(closing), sock[s].state = "INVALID"
                 PROVE  net'[s] = net[s]
      OBVIOUS
    <3>1. net[s] = NoNet /\ s \notin ready
      BY <2>2 DEF ServerInv, Good
    <3>2. net'[s] = [NoNet EXCEPT !.edge = FALSE]
      BY <2>1, <3>1
    <3>3. QED
      BY <3>1, <3>2 DEF NoNet
  <2>4. /\ DOMAIN sock' = Slot /\ DOMAIN net' = Slot
        /\ \A s \in Slot : \/ s \in Range(closing) /\ sock'[s] = Reset
                           \/ s \in Range(q) \ Range(closing) /\ sock'[s] = Woken(s)
                           \/ s \notin Range(closing) /\ sock'[s] = sock[s]
        /\ \A s \in Range(closing) : net'[s] = NoNet
    BY <1>1, <2>1
  <2>5. ready \in SUBSET Slot /\ ready \in SUBSET (Slot \ Range(closing))
    OBVIOUS
  <2> HIDE DEF ready
  <2>6. /\ active' \in Seq(Slot) /\ IsInjective(active') /\ Range(q) \subseteq ready
        /\ Range(active) \ Range(closing) \subseteq Range(active')
        /\ Range(active') \subseteq (Range(active) \ Range(closing)) \cup Range(q)
    BY <2>1, <2>5, PolledIs DEF ServerInv
  <2>7. QED
    BY <2>1, <2>2, <2>3, <2>4, <2>5, <2>6, WokenStep
<1>4. QED
  BY <1>2, <1>3

\* The active list once the socket just served stays or leaves.
LEMMA StaysIfIs ==
  ASSUME Shapes, NEW s, Serving(s), NEW stays, StaysIf(stays, s)
  PROVE  /\ active' \in Seq(Slot) /\ IsInjective(active')
         /\ \A t \in Slot : t # s => (t \in Range(active') <=> t \in Range(active))
         /\ stays => s \in Range(active')
         /\ closing' = closing
BY HeadIs DEF StaysIf, Stays, Leaves

\* A listener served, whatever accept answers.
LEMMA ListenerStep ==
  ASSUME ServerInv, NEW s \in Slot,
         \/ AcceptRefused(s) \/ AcceptNone(s) \/ AcceptFails(s)
         \/ AcceptDrops(s) \/ Accept(s)
  PROVE  ServerInv'
<1>1. /\ Serving(s) /\ sock[s].state = "LISTENING" /\ step' # "serve"
      /\ DOMAIN sock = Slot /\ DOMAIN sock[s] = Fields /\ DOMAIN net = Slot
      /\ alloc_id \in Nat /\ MaxSocket \in Nat
  BY SocketServerAssumption
     DEF AcceptRefused, AcceptNone, AcceptFails, AcceptDrops, Accept, Accepting,
         Returned, ServerInv, Shapes
<1>2. /\ active' \in Seq(Slot) /\ IsInjective(active') /\ closing' = closing
      /\ \A t \in Slot : t # s => (t \in Range(active') <=> t \in Range(active))
  <2>1. \E stays \in BOOLEAN : StaysIf(stays, s)
    BY DEF AcceptRefused, AcceptNone, AcceptFails, AcceptDrops, Accept, Accepting, StaysIf
  <2>2. QED
    BY <1>1, <2>1, StaysIfIs DEF ServerInv
<1>3. CASE AcceptRefused(s)
  <2>1. UNCHANGED <<sock, net, alloc_id, view>>
    BY <1>3 DEF AcceptRefused, NoEvent
  <2>2. Shapes' /\ \A t \in Slot : Same(t)
    BY <1>1, <1>2, <2>1 DEF ServerInv, Shapes, Same, Slot
  <2>3. QED
    BY <1>1, <2>2, NoSlot
<1>4. CASE AcceptNone(s)
  <2> DEFINE r == [sock[s] EXCEPT !.can_recv = FALSE]
  <2>1. DOMAIN r = Fields /\ r.id = sock[s].id /\ r.state = sock[s].state
    BY <1>1 DEF Fields
  <2>2. sock' = [sock EXCEPT ![s] = r] /\ UNCHANGED <<net, alloc_id, view>>
    BY <1>4 DEF AcceptNone, NoEvent
  <2> HIDE DEF r
  <2>3. QED
    BY <1>1, <1>2, <2>1, <2>2, Moved
<1>5. CASE AcceptFails(s)
  <2> DEFINE r == [sock[s] EXCEPT !.state = "ERROR"]
  <2>1. DOMAIN r = Fields /\ r.id = sock[s].id /\ r.state = "ERROR"
    BY <1>1 DEF Fields
  <2>2. sock' = [sock EXCEPT ![s] = r] /\ UNCHANGED <<net, alloc_id, view>>
    BY <1>5 DEF AcceptFails, NoEvent
  <2>3. s \in Range(active')
    BY <1>1, <1>5, HeadIs DEF AcceptFails, Stays, ServerInv
  <2> HIDE DEF r
  <2>4. QED
    BY <1>1, <1>2, <2>1, <2>2, <2>3, Moved
<1>6. \A t \in Slot : sock[t].state \in {"INVALID", "ERROR"} =>
        (t \in Range(active') <=> t \in Range(active))
  BY <1>1, <1>2
<1>7. CASE AcceptDrops(s)
  <2>1. step' = "app" /\ UNCHANGED view /\ DOMAIN net' = Slot
        /\ \A t \in Slot : sock[t].state = "INVALID" => net'[t] = net[t]
    BY <1>1, <1>7 DEF AcceptDrops, Accepting, Returned, NoEvent
  <2>2. /\ alloc_id' \in Nat
        /\ \/ UNCHANGED sock
           \/ FreeIds # {} /\ sock' = [sock EXCEPT ![SlotOf(NewId)].id = NewId]
    BY <1>1, <1>7, NewIdIs DEF AcceptDrops, ServerInv
  <2>3. QED
    BY <1>2, <1>6, <2>1, <2>2, NotBegun
<1>8. CASE Accept(s)
  <2>1. PICK t \in Slot : t = SlotOf(NewId)
    BY <1>8, NewIdIs DEF Accept, ServerInv
  <2>2. step' = "app" /\ DOMAIN net' = Slot
        /\ \A u \in Slot : sock[u].state = "INVALID" /\ u # SlotOf(NewId) => net'[u] = net[u]
    BY <1>1, <1>8, <2>1 DEF Accept, Accepting, Returned
  <2>3. /\ FreeIds # {} /\ alloc_id' = NewId + 1 /\ Holds(NewId, "open")
        /\ sock' = [sock EXCEPT ![SlotOf(NewId)] =
                     [Reset EXCEPT !.id = NewId, !.state = "CONNECTED",
                                   !.role = "SERVER", !.can_send = TRUE]]
    BY <1>8 DEF Accept
  <2>4. QED
    BY <1>2, <1>6, <2>2, <2>3, Begun
<1>9. QED
  BY <1>3, <1>4, <1>5, <1>7, <1>8
\* A socket whose connect ends.
LEMMA ConnectorStep ==
  ASSUME ServerInv, NEW s \in Slot, ServeConnector(s)
  PROVE  ServerInv'
<1>1. /\ Serving(s) /\ sock[s].state = "CONNECTING" /\ step' # "serve"
      /\ DOMAIN sock = Slot /\ DOMAIN sock[s] = Fields /\ DOMAIN net = Slot
      /\ UNCHANGED <<alloc_id, net>>
  BY DEF ServeConnector, Returned, ServerInv, Shapes
<1>2. CASE Leaves(s) /\ NoEvent /\ UNCHANGED sock
  <2>1. StaysIf(FALSE, s) /\ UNCHANGED view
    BY <1>2 DEF StaysIf, NoEvent
  <2>2. /\ active' \in Seq(Slot) /\ IsInjective(active') /\ closing' = closing
        /\ \A t \in Slot : t # s => (t \in Range(active') <=> t \in Range(active))
    BY <1>1, <2>1, StaysIfIs DEF ServerInv
  <2>3. Shapes' /\ \A t \in Slot : Same(t)
    BY <1>1, <1>2, <2>1, <2>2 DEF ServerInv, Shapes, Same, Slot
  <2>4. QED
    BY <1>1, <2>3, NoSlot
<1>3. CASE /\ sock' = [sock EXCEPT ![s].state = "ERROR"]
           /\ Stays(s) /\ Holds(sock[s].id, "failed")
  <2> DEFINE r == [sock[s] EXCEPT !.state = "ERROR"]
  <2>1. DOMAIN r = Fields /\ r.id = sock[s].id /\ r.state = "ERROR"
    BY <1>1 DEF Fields
  <2>2. sock' = [sock EXCEPT ![s] = r]
    BY <1>3
  <2>3. StaysIf(TRUE, s)
    BY <1>3 DEF StaysIf
  <2>4. /\ active' \in Seq(Slot) /\ IsInjective(active') /\ closing' = closing
        /\ \A t \in Slot : t # s => (t \in Range(active') <=> t \in Range(active))
        /\ s \in Range(active')
    BY <1>1, <2>3, StaysIfIs DEF ServerInv
  <2> HIDE DEF r
  <2>5. QED
    BY <1>1, <1>3, <2>1, <2>2, <2>4, Moved
<1>4. CASE /\ sock' = [sock EXCEPT ![s].state = "CONNECTED"]
           /\ \E stays \in BOOLEAN : StaysIf(stays, s)
           /\ Holds(sock[s].id, "open")
  <2> DEFINE r == [sock[s] EXCEPT !.state = "CONNECTED"]
  <2>1. DOMAIN r = Fields /\ r.id = sock[s].id /\ r.state = "CONNECTED"
    BY <1>1 DEF Fields
  <2>2. sock' = [sock EXCEPT ![s] = r]
    BY <1>4
  <2>3. /\ active' \in Seq(Slot) /\ IsInjective(active') /\ closing' = closing
        /\ \A t \in Slot : t # s => (t \in Range(active') <=> t \in Range(active))
    BY <1>1, <1>4, StaysIfIs DEF ServerInv
  <2> HIDE DEF r
  <2>4. QED
    BY <1>1, <1>4, <2>1, <2>2, <2>3, Moved, ZenonT(30)
<1>5. QED
  BY <1>1, <1>2, <1>3, <1>4 DEF ServeConnector, StaysIf

\* A socket that reads and writes, and stays active or not.
LEMMA TransferStep ==
  ASSUME ServerInv, NEW s \in Slot, Serving(s),
         sock[s].state \in {"CONNECTED", "CLOSING"},
         Transfers(s), NEW stays, StaysIf(stays, s),
         UNCHANGED <<alloc_id, view>>, step' # "serve"
  PROVE  ServerInv'
<1>1. /\ DOMAIN Served(s) = Fields /\ Served(s).id = sock[s].id
      /\ Served(s).state = sock[s].state
  BY ServedIs DEF ServerInv
<1>2. /\ sock' = [sock EXCEPT ![s] = Served(s)]
      /\ DOMAIN net' = Slot /\ \A t \in Slot : t # s => net'[t] = net[t]
  BY DEF Transfers, ServerInv, Shapes
<1>3. /\ active' \in Seq(Slot) /\ IsInjective(active') /\ closing' = closing
      /\ \A t \in Slot : t # s => (t \in Range(active') <=> t \in Range(active))
  BY StaysIfIs DEF ServerInv
<1>4. QED
  BY <1>1, <1>2, <1>3, Moved

\* A socket that sends what is left, then goes.
LEMMA ClosingStep ==
  ASSUME ServerInv, NEW s \in Slot, ServeClosing(s)
  PROVE  ServerInv'
<1>1. Serving(s) /\ sock[s].state = "CLOSING" /\ step' = "app" /\ UNCHANGED <<alloc_id, view>>
  BY DEF ServeClosing, Returned, NoEvent
<1>2. CASE ForceClosed({s})
  <2>1. view' = Restrict(view, DOMAIN view')
    BY <1>1 DEF Restrict, ServerInv, Shapes
  <2>2. \A id \in DOMAIN view : SlotOf(id) # s
    BY <1>1, HeldIs DEF ServerInv, Live
  <2>3. Shapes' /\ \A t \in Slot : Good(t)'
    BY <1>1, <1>2, <2>1, <2>2, ForceClosedGood
  <2>4. QED
    BY <1>1, <2>3 DEF ServerInv, Slot
<1>3. CASE Transfers(s) /\ StaysIf(~Finished(Served(s)), s)
  BY <1>1, <1>3, TransferStep
<1>4. QED
  BY <1>2, <1>3 DEF ServeClosing

\* A connection served, or a broken one.
LEMMA StreamStep ==
  ASSUME ServerInv, NEW s \in Slot,
         ServeError(s) \/ StreamEnds(s) \/ StreamBreaks(s) \/ Stream(s)
  PROVE  ServerInv'
<1>1. /\ Serving(s) /\ step' # "serve" /\ UNCHANGED alloc_id
      /\ DOMAIN sock = Slot /\ DOMAIN sock[s] = Fields /\ DOMAIN net = Slot
  BY DEF ServeError, StreamEnds, StreamBreaks, Stream, Returned, ServerInv, Shapes
<1>2. CASE StreamEnds(s)
  <2> DEFINE r == [sock[s] EXCEPT !.state = "ERROR"]
  <2>1. DOMAIN r = Fields /\ r.id = sock[s].id /\ r.state = "ERROR"
    BY <1>1 DEF Fields
  <2>2. /\ sock' = [sock EXCEPT ![s] = r] /\ UNCHANGED net /\ ReportsClose(s)
        /\ sock[s].state = "CONNECTED"
    BY <1>2 DEF StreamEnds
  <2> HIDE DEF r
  <2>3. QED
    BY <1>1, <2>1, <2>2, Doomed
<1>3. CASE StreamBreaks(s)
  <2> DEFINE r == [Served(s) EXCEPT !.state = "ERROR", !.can_send = TRUE, !.wbl = sock[s].wbl]
  <2>1. DOMAIN r = Fields /\ r.id = sock[s].id /\ r.state = "ERROR"
    BY ServedIs DEF Fields, ServerInv
  <2>2. /\ sock' = [sock EXCEPT ![s] = r] /\ sock[s].state = "CONNECTED"
        /\ DOMAIN net' = Slot /\ \A t \in Slot : t # s => net'[t] = net[t]
    BY <1>1, <1>3 DEF StreamBreaks
  <2> HIDE DEF r
  <2>3. CASE ReportsClose(s)
    BY <1>1, <2>1, <2>2, <2>3, Doomed
  <2>4. CASE Stays(s) /\ UNCHANGED view
    <3>1. StaysIf(TRUE, s)
      BY <2>4 DEF StaysIf
    <3>2. /\ active' \in Seq(Slot) /\ IsInjective(active') /\ closing' = closing
          /\ \A t \in Slot : t # s => (t \in Range(active') <=> t \in Range(active))
          /\ s \in Range(active')
      BY <1>1, <3>1, StaysIfIs DEF ServerInv
    <3>3. QED
      BY <1>1, <2>1, <2>2, <2>4, <3>2, Moved
  <2>5. QED
    BY <1>3, <2>3, <2>4 DEF StreamBreaks
<1>4. CASE Stream(s)
  BY <1>1, <1>4, TransferStep DEF Stream, NoEvent
<1>5. CASE ServeError(s)
  <2>1. /\ UNCHANGED <<sock, net>> /\ sock[s].state = "ERROR" /\ ReportsClose(s)
    BY <1>5 DEF ServeError
  <2>2. QED
    BY <1>1, <2>1, Doomed
<1>6. QED
  BY <1>2, <1>3, <1>4, <1>5
\* What jetnet_handle_socket_poll_event does of the head of the list.
LEMMA ServeStep == ServerInv /\ Serve => ServerInv'
<1> SUFFICES ASSUME ServerInv, Serve
             PROVE  ServerInv'
  OBVIOUS
<1>1. ASSUME UNCHANGED <<sock, lists, alloc_id, net, view>>, step' # "serve"
      PROVE  ServerInv'
  <2>1. Shapes' /\ \A s \in Slot : Same(s)
    BY <1>1 DEF ServerInv, Shapes, Same, lists
  <2>2. QED
    BY <1>1, <2>1, NoSlot
<1>2. CASE ServeNothing
  BY <1>1, <1>2 DEF ServeNothing, Returned, NoEvent
<1>3. ASSUME NEW s \in Slot, ServeKilled(s)
      PROVE  ServerInv'
  BY <1>1, <1>3 DEF ServeKilled, history
<1>4. QED
  BY <1>2, <1>3, ListenerStep, ConnectorStep, ClosingStep, StreamStep DEF Serve

\* Every step keeps the invariant.
LEMMA ServerNext == ServerInv /\ [Next]_vars => ServerInv'
<1>1. ServerInv /\ App => ServerInv'
  <2> SUFFICES ASSUME ServerInv, App
               PROVE  ServerInv'
    OBVIOUS
  <2>1. 0..alloc_id - 1 \subseteq Nat
    BY DEF ServerInv, Shapes
  <2>2. QED
    BY <2>1, OpenStep, CloseStep, SendStep DEF App
<1>2. ServerInv /\ UNCHANGED vars => ServerInv'
  <2> SUFFICES ASSUME ServerInv, UNCHANGED vars
               PROVE  ServerInv'
    OBVIOUS
  <2>1. UNCHANGED <<sock, active, closing, alloc_id, net, view, step>>
    BY DEF vars, lists, history
  <2>2. Shapes' /\ \A s \in Slot : Same(s)
    BY <2>1 DEF ServerInv, Shapes, Same
  <2>3. QED
    BY <2>1, <2>2, NoSlot DEF ServerInv
<1>3. QED
  BY <1>1, <1>2, WorldStep, PollStep, ServeStep DEF Next

\* The invariant holds in every state.
LEMMA ServerInvariant == Spec => []ServerInv
BY ServerInit, ServerNext, PTL DEF Spec

-----------------------------------------------------------------------------

\* A broken socket stays in the active list until its CLOSE is reported and
\* the next poll frees it; no list links a free slot, and close_list links
\* broken sockets only (jetnet_active, jetnet_force_close, jetnet_ss_poll).
THEOREM ListsStaySound == Spec => []ListsSound
<1>1. ServerInv => ListsSound
  BY DEF ServerInv, Shapes, Good, ListsSound, ErrorStaysActive, Unlinked, Listed, Range
<1>2. QED
  BY <1>1, ServerInvariant, PTL

\* An id that a protocol holds finds the socket it was given for, and every
\* socket that is not closed is held by its id: jetnet_alloc_socket gives no
\* slot away while somebody knows its id.
THEOREM IdsStayLive == Spec => []LiveIds
<1>1. ServerInv => LiveIds
  <2> SUFFICES ASSUME ServerInv
               PROVE  LiveIds
    OBVIOUS
  <2>1. \A id \in DOMAIN view : SlotOf(id) \in Slot /\ Live(SlotOf(id)) /\ sock[SlotOf(id)].id = id
    BY HeldIs DEF ServerInv
  <2>2. \A s \in Slot : Live(s) => sock[s].id \in DOMAIN view
    BY DEF ServerInv, Good
  <2>3. QED
    BY <2>1, <2>2 DEF LiveIds, Live
<1>2. QED
  BY <1>1, ServerInvariant, PTL

-----------------------------------------------------------------------------
(* Every step is one of module Sockets, or none.                           *)

\* What the protocols do, as steps of Sockets.
LEMMA EventsApp ==
  ASSUME ServerInv, App
  PROVE  Abstract!SNext \/ UNCHANGED <<view, alloc_id, ev>>
<1>0. alloc_id \in Nat /\ MaxSocket \in Nat \ {0}
      /\ view = [id \in DOMAIN view |-> view[id]]
  BY SocketServerAssumption DEF ServerInv, Shapes
<1>1. CASE OpenFull
  BY <1>0, <1>1 DEF OpenFull, history, Abstract!SNext, Abstract!Open
<1>2. CASE Listen \/ Connect
  <2>1. /\ alloc_id' = NewId + 1 /\ UNCHANGED ev /\ NewId \in Nat /\ alloc_id <= NewId
        /\ \/ Holds(NewId, "listening") \/ Holds(NewId, "open")
           \/ Holds(NewId, "connecting") \/ UNCHANGED view
    BY <1>2, NewIdIs DEF Listen, Connect, Opening, Spent, ServerInv
  <2>2. alloc_id' >= alloc_id /\ alloc_id' > alloc_id /\ alloc_id' - 1 = NewId
    BY <1>0, <2>1
  <2>3. QED
    BY <2>1, <2>2 DEF Holds, Abstract!SNext, Abstract!Open, Abstract!Begins
<1>3. ASSUME NEW id \in Nat, Close(id)
      PROVE  Abstract!SNext \/ UNCHANGED <<view, alloc_id, ev>>
  <2>1. view' = Restrict(view, DOMAIN view \ {id}) /\ UNCHANGED <<alloc_id, ev>>
    BY <1>3 DEF Close
  <2>2. CASE id \in DOMAIN view
    BY <2>1, <2>2 DEF Restrict, Abstract!SNext, Abstract!Close, Abstract!Ends,
                      Abstract!Restrict
  <2>3. CASE id \notin DOMAIN view
    BY <1>0, <2>1, <2>3 DEF Restrict
  <2>4. QED
    BY <2>2, <2>3
<1>4. ASSUME NEW id, SendLater(id) \/ SendNow(id) \/ SendError(id) \/ SendKilled(id)
      PROVE  UNCHANGED <<view, alloc_id, ev>>
  BY <1>4 DEF SendLater, SendNow, SendError, SendKilled, Direct, Sending, history
<1>5. QED
  BY <1>0, <1>1, <1>2, <1>3, <1>4 DEF App

\* What serving a socket reports, as a step of Sockets.
LEMMA EventsServe ==
  ASSUME ServerInv, NEW s \in Slot, Serve, Serving(s)
  PROVE  Abstract!SNext \/ UNCHANGED <<view, alloc_id, ev>>
<1>0. alloc_id \in Nat /\ MaxSocket \in Nat \ {0}
      /\ view = [id \in DOMAIN view |-> view[id]]
  BY SocketServerAssumption DEF ServerInv, Shapes
<1> DEFINE id == sock[s].id
<1>1. /\ sock[s].state \notin {"INVALID", "CLOSING"} => id \in DOMAIN view
      /\ sock[s].state = "CONNECTED" => view[id] = "open"
      /\ sock[s].state = "CONNECTING" => view[id] = "connecting"
  BY DEF Serving, ServerInv, Good, Live, Range
<1> HIDE DEF id
<1>2. ASSUME ReportsClose(s), sock[s].state \in {"ERROR", "CONNECTED"}, UNCHANGED alloc_id
      PROVE  Abstract!SNext
  <2>1. id \in DOMAIN view /\ Abstract!Closed(id)
    BY <1>1, <1>2 DEF id, ReportsClose, Reports, Restrict, Abstract!Closed, Abstract!Ends,
                      Abstract!Reports, Abstract!Restrict
  <2>2. QED
    BY <2>1 DEF Abstract!SNext
<1>3. ASSUME Reports("RECV", s), sock[s].state = "CONNECTED", UNCHANGED <<alloc_id, view>>
      PROVE  Abstract!SNext
  <2>1. id \in DOMAIN view /\ Abstract!Received(id)
    BY <1>1, <1>3 DEF id, Reports, Abstract!Received, Abstract!Reports
  <2>2. QED
    BY <2>1 DEF Abstract!SNext
<1>4. CASE ServeError(s)
  BY <1>2, <1>4 DEF ServeError
<1>5. CASE AcceptRefused(s) \/ AcceptNone(s) \/ AcceptFails(s)
  BY <1>5 DEF AcceptRefused, AcceptNone, AcceptFails, NoEvent
<1>6. CASE AcceptDrops(s)
  <2>1. UNCHANGED <<ev, view>>
    BY <1>6 DEF AcceptDrops, NoEvent
  <2>2. alloc_id' = alloc_id \/ alloc_id' > alloc_id
    BY <1>0, <1>6, NewIdIs DEF AcceptDrops, ServerInv
  <2>3. QED
    BY <2>1, <2>2 DEF Abstract!SNext, Abstract!Missed
<1>7. CASE Accept(s)
  <2>1. /\ NewId \in Nat /\ alloc_id <= NewId /\ alloc_id' = NewId + 1
        /\ Holds(NewId, "open") /\ ev' = [type |-> "ACCEPT", id |-> NewId]
    BY <1>7, NewIdIs DEF Accept, ServerInv
  <2>2. alloc_id' > alloc_id /\ alloc_id' - 1 = NewId
    BY <1>0, <2>1
  <2>3. QED
    BY <2>1, <2>2 DEF Holds, Abstract!SNext, Abstract!Accepted, Abstract!Begins, Abstract!Reports
<1>8. CASE ServeConnector(s)
  <2>1. CASE NoEvent
    BY <1>8, <2>1 DEF ServeConnector, NoEvent
  <2>2. CASE \/ Reports("REFUSED", s) /\ Holds(id, "failed")
             \/ Reports("CONNECTED", s) /\ Holds(id, "open")
    <3>1. id \in DOMAIN view /\ view[id] = "connecting" /\ UNCHANGED alloc_id
      BY <1>1, <1>8 DEF ServeConnector
    <3>2. \A phase : Holds(id, phase) => Abstract!Becomes(id, phase)
      BY <1>0, <3>1 DEF Holds, Abstract!Becomes
    <3>3. Abstract!Connected(id)
      BY <2>2, <3>1, <3>2 DEF id, Reports, Abstract!Connected, Abstract!Reports
    <3>4. QED
      BY <3>1, <3>3 DEF Abstract!SNext
  <2>3. QED
    BY <1>8, <2>1, <2>2 DEF ServeConnector, id
<1>9. CASE ServeClosing(s) \/ ServeKilled(s)
  BY <1>9 DEF ServeClosing, ServeKilled, NoEvent, history
<1>10. CASE StreamEnds(s)
  BY <1>2, <1>10 DEF StreamEnds
<1>11. CASE StreamBreaks(s)
  BY <1>2, <1>3, <1>11 DEF StreamBreaks
<1>12. CASE Stream(s)
  BY <1>3, <1>12 DEF Stream, NoEvent
<1>13. CASE ServeNothing
  BY <1>13 DEF ServeNothing, NoEvent
<1>14. PICK t \in Slot : \/ ServeNothing \/ ServeError(t)
                         \/ AcceptRefused(t) \/ AcceptNone(t) \/ AcceptFails(t)
                         \/ AcceptDrops(t) \/ Accept(t) \/ ServeConnector(t)
                         \/ ServeClosing(t) \/ StreamEnds(t) \/ StreamBreaks(t)
                         \/ Stream(t) \/ ServeKilled(t)
  BY DEF Serve
<1>15. ServeNothing \/ t = s
  BY <1>14 DEF Serving, ServeError, AcceptRefused, AcceptNone, AcceptFails, Accepting,
               AcceptDrops, Accept, ServeConnector, ServeClosing, StreamEnds,
               StreamBreaks, Stream, ServeKilled
<1>16. QED
  BY <1>4, <1>5, <1>6, <1>7, <1>8, <1>9, <1>10, <1>11, <1>12, <1>13, <1>14, <1>15

\* Whatever the kernel and the peers do, the ids and the events that the
\* protocols see are those of module Sockets: no id is used twice, data come
\* on an open connection only, and a CLOSE is the last event of its id.
THEOREM EventsImplemented == Spec => EventsSpec
<1>1. Init => Abstract!SInit
  BY DEF Init, Abstract!SInit, Abstract!Quiet
<1>2. ServerInv /\ [Next]_vars => [Abstract!SNext]_(Abstract!svars)
  <2> SUFFICES ASSUME ServerInv, [Next]_vars
               PROVE  Abstract!SNext \/ UNCHANGED <<view, alloc_id, ev>>
    BY DEF Abstract!svars
  <2>1. CASE App
    BY <2>1, EventsApp
  <2>2. CASE World
    BY <2>2 DEF World, ConnectEnds, PeerSends, PeerCloses, PeerResets, PeerAcks, Dial,
                Kernel, history
  <2>3. CASE PollEnter
    BY <2>3 DEF PollEnter, Abstract!SNext, Abstract!Poll, Abstract!Quiet
  <2>4. CASE Serve
    <3>1. CASE ServeNothing
      BY <3>1 DEF ServeNothing, NoEvent
    <3>2. CASE \E s \in Slot : Serving(s)
      BY <2>4, <3>2, EventsServe
    <3>3. QED
      BY <2>4, <3>1, <3>2
         DEF Serve, ServeError, AcceptRefused, AcceptNone, AcceptFails, Accepting,
             AcceptDrops, Accept, ServeConnector, ServeClosing, StreamEnds, StreamBreaks,
             Stream, ServeKilled
  <2>5. CASE UNCHANGED vars
    BY <2>5 DEF vars, history
  <2>6. QED
    BY <2>1, <2>2, <2>3, <2>4, <2>5 DEF Next
<1>3. QED
  BY <1>1, <1>2, ServerInvariant, PTL DEF Spec, EventsSpec, Abstract!SafeSpec
-----------------------------------------------------------------------------
(* No connection is forgotten.                                             *)

NetFields == {"conn", "rx", "fin", "reset", "room", "nospace", "edge"}

\* What is owed to slot s: a connection that can send what waits is listed, one
\* that cannot is owed an edge, and data wait to be read by a socket that is
\* listed or is owed an edge.  A socket that still connects is not listed
\* before epoll says that it is connected.
Edges(s) ==
  /\ DOMAIN net[s] = NetFields /\ net[s].rx \in Nat /\ sock[s].recv_size \in Nat
  /\ Connection(s) /\ Writing(s) => Listed(s)
  /\ Connection(s) /\ ~sock[s].can_send =>
       net[s].nospace \/ (net[s].edge /\ Out(s))
  /\ Connection(s) /\ net[s].rx > 0 =>
       (sock[s].can_recv /\ Listed(s)) \/ net[s].edge
  /\ sock[s].state = "CONNECTING" /\ net[s].rx > 0 => sock[s].can_recv \/ net[s].edge

EdgesInv == \A s \in Slot : Edges(s)

\* Nothing is owed to a socket that is none of these.
LEMMA NoEdges ==
  ASSUME NEW s \in Slot, DOMAIN net'[s] = NetFields, net'[s].rx \in Nat,
         sock'[s].recv_size \in Nat,
         sock'[s].state \notin {"CONNECTED", "CLOSING", "CONNECTING"}
  PROVE  Edges(s)'
BY DEF Edges, Connection

\* A socket that stays as it is, and listed if it was.
LEMMA KeptEdges ==
  ASSUME NEW s \in Slot, Edges(s), sock'[s] = sock[s], net'[s] = net[s],
         Listed(s) => Listed(s)'
  PROVE  Edges(s)'
BY DEF Edges, Connection, Writing, Out

LEMMA ResetNoEdges ==
  /\ Reset.recv_size \in Nat /\ DOMAIN NoNet = NetFields /\ NoNet.rx \in Nat
  /\ Reset.state \notin {"CONNECTED", "CLOSING", "CONNECTING"}
BY SocketServerAssumption DEF Reset, NoNet, NetFields

\* A step of one socket.
LEMMA OneEdges ==
  ASSUME EdgesInv, NEW t \in Slot, Edges(t)',
         \A s \in Slot : s # t =>
           sock'[s] = sock[s] /\ net'[s] = net[s] /\ (Listed(s) => Listed(s)')
  PROVE  EdgesInv'
<1>1. \A s \in Slot : s # t => Edges(s)'
  BY KeptEdges DEF EdgesInv
<1>2. QED
  BY <1>1 DEF EdgesInv, Slot

\* A step of no socket.
LEMMA AllKept ==
  ASSUME EdgesInv,
         \A s \in Slot : sock'[s] = sock[s] /\ net'[s] = net[s] /\ (Listed(s) => Listed(s)')
  PROVE  EdgesInv'
<1>1. \A s \in Slot : Edges(s)'
  BY KeptEdges DEF EdgesInv
<1>2. QED
  BY <1>1 DEF EdgesInv, Slot

\* jetnet_ss_create.
LEMMA EdgesInit == Init => EdgesInv
<1> SUFFICES ASSUME Init
             PROVE  EdgesInv
  OBVIOUS
<1>1. \A s \in Slot : sock[s] = Reset /\ net[s] = NoNet
  BY DEF Init
<1>2. QED
  BY <1>1, ResetNoEdges DEF EdgesInv, Edges, Connection

\* Whatever the kernel and the peers do: an edge comes with it, except for an
\* acknowledgement that no send waits for.
LEMMA EdgesWorld == ServerInv /\ EdgesInv /\ World => EdgesInv'
<1> SUFFICES ASSUME ServerInv, EdgesInv, World
             PROVE  EdgesInv'
  OBVIOUS
<1>1. PICK s \in Slot : \/ ConnectEnds(s) \/ PeerSends(s) \/ PeerCloses(s)
                        \/ PeerResets(s) \/ PeerAcks(s) \/ Dial(s)
  BY DEF World
<1>2. /\ DOMAIN net = Slot /\ DOMAIN net[s] = NetFields /\ net[s].rx \in Nat
      /\ SndBuf > 0 /\ Edges(s)
  BY SocketServerAssumption DEF ServerInv, Shapes, EdgesInv, Edges
<1>3. ASSUME NEW n, Kernel(s, n)
      PROVE  /\ net'[s] = n /\ sock'[s] = sock[s] /\ (Listed(s)' <=> Listed(s))
             /\ Edges(s)' => EdgesInv'
  <2>1. UNCHANGED <<sock, active>> /\ net' = [net EXCEPT ![s] = n]
    BY <1>3 DEF Kernel, lists
  <2>2. QED
    BY <1>2, <2>1, OneEdges DEF Listed
<1>4. ASSUME NEW n, Kernel(s, n), DOMAIN n = NetFields, n.rx = net[s].rx, n.edge,
             n.conn = "failed" \/ (n.conn = "up" /\ n.room = SndBuf)
      PROVE  EdgesInv'
  <2>1. Edges(s)'
    BY <1>2, <1>3, <1>4 DEF Edges, Connection, Writing, Out
  <2>2. QED
    BY <1>3, <1>4, <2>1
<1>5. ASSUME NEW n, Kernel(s, n), DOMAIN n = NetFields, n.rx \in Nat, n.edge,
             n.nospace = net[s].nospace, n.conn = net[s].conn, n.room = net[s].room,
             net[s].reset => n.reset
      PROVE  EdgesInv'
  <2>1. Edges(s)'
    BY <1>2, <1>3, <1>5 DEF Edges, Connection, Writing, Out
  <2>2. QED
    BY <1>3, <1>5, <2>1
<1>6. CASE ConnectEnds(s)
  <2> DEFINE up == [net[s] EXCEPT !.conn = "up", !.room = SndBuf, !.edge = TRUE]
             failed == [net[s] EXCEPT !.conn = "failed", !.edge = TRUE]
  <2>1. /\ DOMAIN up = NetFields /\ up.rx = net[s].rx /\ up.edge
        /\ up.conn = "up" /\ up.room = SndBuf
    BY <1>2 DEF NetFields
  <2>2. /\ DOMAIN failed = NetFields /\ failed.rx = net[s].rx /\ failed.edge
        /\ failed.conn = "failed"
    BY <1>2 DEF NetFields
  <2>3. Kernel(s, up) \/ Kernel(s, failed)
    BY <1>6 DEF ConnectEnds
  <2> HIDE DEF up, failed
  <2>4. QED
    BY <1>4, <2>1, <2>2, <2>3
<1>7. CASE PeerSends(s) \/ Dial(s)
  <2> DEFINE n == [net[s] EXCEPT !.rx = @ + 1, !.edge = TRUE]
  <2>1. /\ DOMAIN n = NetFields /\ n.rx \in Nat /\ n.edge
        /\ n.nospace = net[s].nospace /\ n.conn = net[s].conn
        /\ n.room = net[s].room /\ n.reset = net[s].reset
    BY <1>2 DEF NetFields
  <2>2. Kernel(s, n)
    BY <1>7 DEF PeerSends, Dial
  <2> HIDE DEF n
  <2>3. QED
    BY <1>5, <2>1, <2>2
<1>8. CASE PeerCloses(s)
  <2> DEFINE n == [net[s] EXCEPT !.fin = TRUE, !.edge = TRUE]
  <2>1. /\ DOMAIN n = NetFields /\ n.rx = net[s].rx /\ n.edge
        /\ n.nospace = net[s].nospace /\ n.conn = net[s].conn
        /\ n.room = net[s].room /\ n.reset = net[s].reset
    BY <1>2 DEF NetFields
  <2>2. Kernel(s, n)
    BY <1>8 DEF PeerCloses
  <2> HIDE DEF n
  <2>3. QED
    BY <1>2, <1>5, <2>1, <2>2
<1>9. CASE PeerResets(s)
  <2> DEFINE n == [net[s] EXCEPT !.reset = TRUE, !.edge = TRUE]
  <2>1. /\ DOMAIN n = NetFields /\ n.rx = net[s].rx /\ n.edge
        /\ n.nospace = net[s].nospace /\ n.conn = net[s].conn
        /\ n.room = net[s].room /\ n.reset
    BY <1>2 DEF NetFields
  <2>2. Kernel(s, n)
    BY <1>9 DEF PeerResets
  <2> HIDE DEF n
  <2>3. QED
    BY <1>2, <1>5, <2>1, <2>2
<1>10. CASE PeerAcks(s)
  <2> DEFINE edge == net[s].edge \/ net[s].nospace
             n == [net[s] EXCEPT !.room = SndBuf, !.nospace = FALSE, !.edge = edge]
  <2>1. /\ DOMAIN n = NetFields /\ n.rx = net[s].rx /\ n.edge = edge
        /\ n.conn = net[s].conn /\ n.room = SndBuf
    <3> HIDE DEF edge
    <3>1. QED
      BY <1>2 DEF NetFields
  <2>2. Kernel(s, n) /\ net[s].conn = "up"
    BY <1>10 DEF PeerAcks, Usable
  <2> HIDE DEF n
  <2>3. Edges(s)'
    <3>1. net[s].edge \/ net[s].nospace => n.edge
      BY <2>1
    <3>2. QED
      BY <1>2, <1>3, <2>1, <2>2, <3>1 DEF Edges, Connection, Writing, Out
  <2>4. QED
    BY <1>3, <2>2, <2>3
<1>11. QED
  BY <1>1, <1>6, <1>7, <1>8, <1>9, <1>10

\* The sockets that are closed at once.
LEMMA ForceClosedEdges ==
  ASSUME ServerInv, EdgesInv, NEW S \in SUBSET Slot, ForceClosed(S)
  PROVE  EdgesInv'
<1>1. Range(active') = Range(active) \ S
  BY DelistedAllProperties DEF ServerInv, Shapes, ForceClosed
<1>2. /\ \A s \in S : sock'[s] = Reset /\ net'[s] = NoNet
      /\ \A s \in Slot \ S : sock'[s] = sock[s] /\ net'[s] = net[s]
  BY DEF ForceClosed
<1>3. \A s \in S : Edges(s)'
  BY <1>2, NoEdges, ResetNoEdges
<1>4. \A s \in Slot \ S : Edges(s)'
  BY <1>1, <1>2, KeptEdges DEF Listed, EdgesInv
<1>5. QED
  BY <1>3, <1>4 DEF EdgesInv, Slot

\* A socket of a new id: connected, with nothing to read or to send, or not yet.
LEMMA BegunEdges ==
  ASSUME ServerInv, EdgesInv, FreeIds # {}, NEW st, NEW role, NEW canSend, NEW kernel,
         st \in {"CONNECTED", "CLOSING"} => canSend,
         DOMAIN kernel = NetFields, kernel.rx = 0,
         sock' = [sock EXCEPT ![SlotOf(NewId)] =
                    [Reset EXCEPT !.id = NewId, !.state = st, !.role = role,
                                  !.can_send = canSend]],
         net'[SlotOf(NewId)] = kernel,
         \A s \in Slot : s # SlotOf(NewId) =>
           \/ net'[s] = net[s] /\ (Listed(s) => Listed(s)')
           \/ /\ sock[s].state = "LISTENING"
              /\ DOMAIN net'[s] = NetFields /\ net'[s].rx \in Nat
  PROVE  EdgesInv'
<1>1. PICK t \in Slot : t = SlotOf(NewId)
  BY NewIdIs DEF ServerInv
<1> DEFINE r == [Reset EXCEPT !.id = NewId, !.state = st, !.role = role,
                              !.can_send = canSend]
<1>2. /\ DOMAIN r = Fields /\ r.state = st /\ r.can_send = canSend /\ r.wbl = <<>>
      /\ r.recv_size \in Nat
  BY SocketServerAssumption DEF Reset, Fields
<1> HIDE DEF r
<1>3. sock'[t] = r /\ \A s \in Slot : s # t => sock'[s] = sock[s]
  BY <1>1, <1>2, SetIs DEF ServerInv, r
<1>4. Edges(t)'
  <2>1. /\ sock'[t].state \in {"CONNECTED", "CLOSING"} => sock'[t].can_send
        /\ sock'[t].wbl = <<>> /\ sock'[t].recv_size \in Nat
    BY <1>2, <1>3
  <2>2. DOMAIN net'[t] = NetFields /\ net'[t].rx = 0
    BY <1>1
  <2>3. QED
    BY <2>1, <2>2 DEF Edges, Connection, Writing
<1>5. \A s \in Slot : s # t => Edges(s)'
  BY <1>1, <1>3, KeptEdges, NoEdges DEF EdgesInv, Edges
<1>6. QED
  BY <1>4, <1>5 DEF EdgesInv, Slot

\* An id is given out, or not even that, and no socket made.
LEMMA NotBegunEdges ==
  ASSUME ServerInv, EdgesInv,
         \/ UNCHANGED sock
         \/ FreeIds # {} /\ sock' = [sock EXCEPT ![SlotOf(NewId)].id = NewId],
         \A s \in Slot :
           \/ net'[s] = net[s] /\ (Listed(s) => Listed(s)')
           \/ /\ sock[s].state = "LISTENING"
              /\ DOMAIN net'[s] = NetFields /\ net'[s].rx \in Nat
  PROVE  EdgesInv'
<1>1. ASSUME \A s \in Slot : \/ sock'[s] = sock[s]
                            \/ /\ sock[s].state = "INVALID" /\ sock'[s].state = "INVALID"
                               /\ sock'[s].recv_size = sock[s].recv_size
      PROVE  EdgesInv'
  <2>1. \A s \in Slot : Edges(s)'
    BY <1>1, KeptEdges, NoEdges DEF EdgesInv, Edges
  <2>2. QED
    BY <2>1 DEF EdgesInv, Slot
<1>2. CASE FreeIds # {} /\ sock' = [sock EXCEPT ![SlotOf(NewId)].id = NewId]
  <2>1. PICK t \in Slot : t = SlotOf(NewId) /\ sock[t].state = "INVALID"
    BY <1>2, NewIdIs DEF ServerInv
  <2>2. DOMAIN sock = Slot /\ DOMAIN sock[t] = Fields
    BY DEF ServerInv, Shapes
  <2>3. /\ \A s \in Slot : s # t => sock'[s] = sock[s]
        /\ sock'[t] = [sock[t] EXCEPT !.id = NewId]
    BY <1>2, <2>1, <2>2
  <2>4. sock'[t].state = "INVALID" /\ sock'[t].recv_size = sock[t].recv_size
    BY <2>1, <2>2, <2>3 DEF Fields
  <2>5. QED
    BY <1>1, <2>1, <2>3, <2>4
<1>3. QED
  BY <1>1, <1>2

\* jetnet_tcp_listen and jetnet_tcp_connect.
LEMMA OpenEdges == ServerInv /\ EdgesInv /\ (Listen \/ Connect \/ OpenFull) => EdgesInv'
<1> SUFFICES ASSUME ServerInv, EdgesInv, Listen \/ Connect \/ OpenFull
             PROVE  EdgesInv'
  OBVIOUS
<1>1. (\A s \in Slot : Listed(s)' <=> Listed(s)) /\ DOMAIN net = Slot
  BY DEF Listen, Connect, OpenFull, Opening, lists, Listed, ServerInv, Shapes
<1>2. CASE OpenFull
  BY <1>1, <1>2, NotBegunEdges DEF OpenFull
<1>3. CASE Opening /\ Spent(NewId)
  BY <1>1, <1>3, NotBegunEdges DEF Opening, Spent
<1>4. ASSUME NEW st, NEW role, NEW canSend, NEW kernel, Opening,
             NewSocket(NewId, st, role, canSend, kernel),
             st \in {"CONNECTED", "CLOSING"} => canSend,
             DOMAIN kernel = NetFields, kernel.rx = 0
      PROVE  EdgesInv'
  <2>1. PICK t \in Slot : t = SlotOf(NewId) /\ FreeIds # {}
    BY <1>4, NewIdIs DEF ServerInv, Opening
  <2>2. net'[SlotOf(NewId)] = kernel /\ \A s \in Slot : s # t => net'[s] = net[s]
    BY <1>1, <1>4, <2>1 DEF NewSocket
  <2>3. sock' = [sock EXCEPT ![SlotOf(NewId)] =
                   [Reset EXCEPT !.id = NewId, !.state = st, !.role = role,
                                 !.can_send = canSend]]
    BY <1>4 DEF NewSocket
  <2>4. QED
    BY <1>1, <1>4, <2>1, <2>2, <2>3, BegunEdges
<1> DEFINE listen == [NoNet EXCEPT !.conn = "listen"]
           pending == [NoNet EXCEPT !.conn = "pending"]
<1>5. /\ DOMAIN Up = NetFields /\ Up.rx = 0
      /\ DOMAIN listen = NetFields /\ listen.rx = 0
      /\ DOMAIN pending = NetFields /\ pending.rx = 0
  BY DEF Up, NoNet, NetFields
<1>6. Listen \/ Connect =>
        /\ Opening
        /\ \/ NewSocket(NewId, "LISTENING", "LISTENER", FALSE, listen)
           \/ NewSocket(NewId, "CONNECTED", "CLIENT", TRUE, Up)
           \/ NewSocket(NewId, "CONNECTING", "CLIENT", FALSE, pending)
           \/ Spent(NewId)
  BY DEF Listen, Connect
<1> HIDE DEF listen, pending
<1>7. Opening /\ NewSocket(NewId, "LISTENING", "LISTENER", FALSE, listen) => EdgesInv'
  BY <1>4, <1>5
<1>8. Opening /\ NewSocket(NewId, "CONNECTED", "CLIENT", TRUE, Up) => EdgesInv'
  BY <1>4, <1>5
<1>9. Opening /\ NewSocket(NewId, "CONNECTING", "CLIENT", FALSE, pending) => EdgesInv'
  BY <1>4, <1>5
<1>10. QED
  BY <1>2, <1>3, <1>6, <1>7, <1>8, <1>9

\* jetnet_close_socket.
LEMMA CloseEdges ==
  ASSUME ServerInv, EdgesInv, NEW id \in Nat, Close(id)
  PROVE  EdgesInv'
<1>1. PICK s \in Slot : s = SlotOf(id)
  BY SlotIs
<1>2. CASE ForceClosed({s})
  BY <1>2, ForceClosedEdges
<1>3. CASE /\ sock[s].state = "CONNECTED"
           /\ sock' = [sock EXCEPT ![s].state = "CLOSING"]
           /\ UNCHANGED <<lists, net>>
  <2>1. DOMAIN sock = Slot /\ DOMAIN sock[s] = Fields /\ Edges(s)
    BY DEF ServerInv, Shapes, EdgesInv
  <2>2. \A t \in Slot : net'[t] = net[t] /\ (Listed(t)' <=> Listed(t))
                        /\ (t # s => sock'[t] = sock[t])
    BY <1>3, <2>1 DEF lists, Listed
  <2>3. sock'[s] = [sock[s] EXCEPT !.state = "CLOSING"]
    BY <1>3, <2>1
  <2>4. /\ sock'[s].state = "CLOSING" /\ sock'[s].recv_size = sock[s].recv_size
        /\ sock'[s].can_send = sock[s].can_send /\ sock'[s].can_recv = sock[s].can_recv
        /\ sock'[s].wbl = sock[s].wbl
    BY <2>1, <2>3 DEF Fields
  <2>5. Edges(s)'
    BY <1>3, <2>1, <2>2, <2>4 DEF Edges, Connection, Writing, Out
  <2>6. QED
    BY <2>2, <2>5, OneEdges
<1>4. QED
  BY <1>1, <1>2, <1>3 DEF Close
\* A send of which the kernel does not take everything waits for an edge.
LEMMA AfterSentIs ==
  ASSUME NEW s \in Slot, DOMAIN net[s] = NetFields, NEW units
  PROVE  LET n == AfterSent(s, units)
         IN  /\ DOMAIN n = NetFields /\ n.rx = net[s].rx /\ n.edge = net[s].edge
             /\ net[s].nospace \/ Sent(s, units) # Len(units) => n.nospace
BY DEF AfterSent, NetFields

\* jetnet_tcp_send and jetnet_tcp_sendv.
LEMMA SendEdges ==
  ASSUME ServerInv, EdgesInv, NEW id \in Nat,
         SendLater(id) \/ SendNow(id) \/ SendError(id) \/ SendKilled(id)
  PROVE  EdgesInv'
<1>1. PICK s \in Slot : s = SlotOf(id)
  BY SlotIs
<1>2. /\ DOMAIN sock = Slot /\ DOMAIN sock[s] = Fields /\ DOMAIN net = Slot /\ Edges(s)
      /\ active \in Seq(Slot) /\ IsInjective(active)
  BY DEF ServerInv, Shapes, EdgesInv
<1>3. CASE SendKilled(id)
  BY <1>3, AllKept DEF SendKilled, lists, Listed
<1>4. CASE SendError(id)
  <2>1. Range(active') = Range(active) \cup {s} /\ UNCHANGED net
    BY <1>1, <1>2, <1>4, EnlistedTailProperties DEF SendError, Activate
  <2>2. /\ sock' = [sock EXCEPT ![s].state = "ERROR"]
        /\ sock'[s] = [sock[s] EXCEPT !.state = "ERROR"]
    BY <1>1, <1>2, <1>4 DEF SendError
  <2>3. sock'[s].state = "ERROR" /\ sock'[s].recv_size = sock[s].recv_size
    BY <1>2, <2>2 DEF Fields
  <2>4. Edges(s)'
    BY <1>2, <2>1, <2>3, NoEdges DEF Edges
  <2>5. QED
    BY <1>2, <2>1, <2>2, <2>4, OneEdges DEF Listed
<1>5. CASE SendLater(id)
  <2>1. UNCHANGED <<net, active>> /\ (sock[s].can_send => sock[s].wbl # <<>>)
    BY <1>1, <1>5 DEF SendLater
  <2>2. PICK wbl : sock' = [sock EXCEPT ![s].wbl = wbl]
    BY <1>1, <1>5 DEF SendLater
  <2>3. sock'[s] = [sock[s] EXCEPT !.wbl = wbl] /\ \A t \in Slot : t # s => sock'[t] = sock[t]
    BY <1>2, <2>2
  <2>4. /\ sock'[s].state = sock[s].state /\ sock'[s].recv_size = sock[s].recv_size
        /\ sock'[s].can_send = sock[s].can_send /\ sock'[s].can_recv = sock[s].can_recv
    BY <1>2, <2>3 DEF Fields
  <2>5. Edges(s)'
    BY <1>2, <2>1, <2>4 DEF Edges, Connection, Writing, Out, Listed
  <2>6. QED
    BY <2>1, <2>3, <2>5, OneEdges DEF Listed
<1>6. CASE SendNow(id)
  <2>1. PICK units, full :
          /\ full => Sent(s, units) # Len(units)
          /\ sock' = [sock EXCEPT ![s].can_send = ~full,
                                  ![s].wbl = IF full THEN <<Unsent(s, sends + 1)>> ELSE <<>>]
          /\ net' = [net EXCEPT ![s] = AfterSent(s, units)] /\ UNCHANGED active
    <3> DEFINE units == Units(sends + 1)
               full == Sent(s, units) < MsgLen
    <3>1. Len(units) = MsgLen /\ MsgLen \in Nat
      BY SocketServerAssumption DEF Units
    <3>2. full => Sent(s, units) # Len(units)
      BY <3>1
    <3>3. /\ sock' = [sock EXCEPT ![s].can_send = ~full,
                                  ![s].wbl = IF full THEN <<Unsent(s, sends + 1)>> ELSE <<>>]
          /\ net' = [net EXCEPT ![s] = AfterSent(s, units)] /\ UNCHANGED active
      BY <1>1, <1>6 DEF SendNow
    <3> HIDE DEF units, full
    <3>4. QED
      BY <3>2, <3>3
  <2>2. /\ sock'[s] = [sock[s] EXCEPT !.can_send = ~full,
                                  !.wbl = IF full THEN <<Unsent(s, sends + 1)>> ELSE <<>>]
        /\ \A t \in Slot : t # s => sock'[t] = sock[t] /\ net'[t] = net[t]
        /\ net'[s] = AfterSent(s, units)
    BY <1>2, <2>1
  <2>3. /\ sock'[s].state = sock[s].state /\ sock'[s].recv_size = sock[s].recv_size
        /\ sock'[s].can_send = ~full /\ sock'[s].can_recv = sock[s].can_recv
        /\ ~full => sock'[s].wbl = <<>>
    BY <1>2, <2>2 DEF Fields
  <2>4. /\ DOMAIN net'[s] = NetFields /\ net'[s].rx = net[s].rx
        /\ net'[s].edge = net[s].edge /\ (full => net'[s].nospace)
    BY <1>2, <2>1, <2>2, AfterSentIs DEF Edges
  <2>5. Edges(s)'
    BY <1>2, <2>1, <2>3, <2>4 DEF Edges, Connection, Writing, Listed
  <2>6. QED
    BY <2>1, <2>2, <2>5, OneEdges DEF Listed
<1>7. QED
  BY <1>3, <1>4, <1>5, <1>6

\* A poll waits on epoll: an edge that it takes is noted in the socket, which
\* is then served.
LEMMA PollEdges == ServerInv /\ EdgesInv /\ PollEnter => EdgesInv'
<1> SUFFICES ASSUME ServerInv, EdgesInv, PollEnter
             PROVE  EdgesInv'
  OBVIOUS
<1> DEFINE ready == {s \in Slot \ Range(closing) : net[s].edge /\ (In(s) \/ Out(s))}
           kept == DelistedAll(active, Range(closing))
<1>1. Range(closing) \in SUBSET Slot
  BY DEF ServerInv, Shapes, Range
<1>2. CASE ~RoundOver(kept)
  BY <1>1, <1>2, ForceClosedEdges DEF PollEnter
<1>3. CASE RoundOver(kept)
  <2>1. PICK q \in Returns(ready) :
          /\ sock' = [s \in Slot |-> IF s \in Range(closing) THEN Reset
                                     ELSE IF s \in Range(q) THEN Woken(s) ELSE sock[s]]
          /\ net' = [s \in Slot |-> IF s \in Range(closing) THEN NoNet
                       ELSE [net[s] EXCEPT !.edge = s \in ready /\ s \notin Range(q)]]
          /\ active' = kept \o DelistedAll(q,
                         Range(kept) \cup {s \in Slot : ~Wakes(sock'[s])})
    BY <1>3 DEF PollEnter
  <2>2. ready \in SUBSET Slot /\ \A s \in ready : net[s].edge
    OBVIOUS
  <2>3. \A s \in Slot \ Range(closing) : net[s].edge /\ (In(s) \/ Out(s)) => s \in ready
    OBVIOUS
  <2> HIDE DEF ready
  <2>4. /\ Range(q) \subseteq ready /\ Range(active) \ Range(closing) \subseteq Range(active')
        /\ Range(q) \ {s \in Slot : ~Wakes(sock'[s])} \subseteq Range(active')
    BY <2>1, <2>2, PolledIs, ZenonT(30) DEF ServerInv
  <2>5. ASSUME NEW s \in Range(closing)
        PROVE  Edges(s)'
    BY <1>1, <2>1, <2>5, NoEdges, ResetNoEdges
  <2>6. ASSUME NEW s \in Slot \ Range(closing)
        PROVE  Edges(s)'
    <3>1. Edges(s) /\ DOMAIN sock[s] = Fields
      BY DEF EdgesInv, ServerInv, Shapes
    <3>2. /\ DOMAIN net'[s] = NetFields /\ net'[s].rx = net[s].rx
          /\ net'[s].nospace = net[s].nospace /\ net'[s].room = net[s].room
          /\ net'[s].conn = net[s].conn /\ net'[s].reset = net[s].reset
          /\ net'[s].edge = (s \in ready /\ s \notin Range(q))
      BY <2>1, <3>1 DEF NetFields, Edges
    <3>3. Listed(s) => Listed(s)'
      BY <2>4 DEF Listed
    <3>4. CASE s \notin Range(q)
      <4>1. sock'[s] = sock[s]
        BY <2>1, <3>4
      <4>2. Out(s)' <=> Out(s)
        BY <3>2 DEF Out
      <4>3. net[s].rx > 0 => In(s)
        BY DEF In
      <4>4. QED
        BY <2>3, <3>1, <3>2, <3>3, <3>4, <4>1, <4>2, <4>3 DEF Edges, Connection, Writing
    <3>5. CASE s \in Range(q)
      <4>1. sock'[s] = Woken(s)
        BY <2>1, <3>5
      <4>2. /\ sock'[s].state = sock[s].state /\ sock'[s].recv_size = sock[s].recv_size
            /\ sock'[s].wbl = sock[s].wbl
            /\ sock[s].can_send \/ Out(s) => sock'[s].can_send
            /\ In(s) => sock'[s].can_recv
        BY <3>1, <4>1 DEF Woken, Fields
      <4>3. Wakes(sock'[s]) => Listed(s)'
        BY <2>4, <3>5 DEF Listed
      <4>4. net[s].rx > 0 => In(s)
        BY DEF In
      <4>5. QED
        BY <3>1, <3>2, <4>2, <4>3, <4>4 DEF Edges, Connection, Writing, Wakes
    <3>6. QED
      BY <3>4, <3>5
  <2>7. QED
    BY <2>5, <2>6 DEF EdgesInv, Slot
<1>4. QED
  BY <1>2, <1>3
\* What a read leaves, and the size of the next one.
LEMMA ReadIs ==
  ASSUME NEW s \in Slot, net[s].rx \in Nat, sock[s].recv_size \in Nat
  PROVE  /\ ReadCount(s) \in Nat /\ net[s].rx - ReadCount(s) \in Nat
         /\ ReadCount(s) # sock[s].recv_size => net[s].rx - ReadCount(s) = 0
         /\ NextRecvSize(sock[s].recv_size, ReadCount(s)) \in Nat
<1>1. /\ ReadCount(s) \in Nat /\ net[s].rx - ReadCount(s) \in Nat
      /\ ReadCount(s) # sock[s].recv_size => net[s].rx - ReadCount(s) = 0
  BY DEF ReadCount, Least
<1>2. \A a, b \in Nat : Max({a, b}) \in Nat
  <2> SUFFICES ASSUME NEW a \in Nat, NEW b \in Nat
               PROVE  Max({a, b}) \in Nat
    OBVIOUS
  <2>1. \E x \in {a, b} : \A y \in {a, b} : x >= y
    OBVIOUS
  <2>2. Max({a, b}) \in {a, b}
    BY <2>1 DEF Max
  <2>3. QED
    BY <2>2
<1>3. \A size \in Nat : size \div 2 \in Nat
  OBVIOUS
<1>4. MinRecv \in Nat /\ MaxRecv \in Nat
  BY SocketServerAssumption
<1>5. \A size \in Nat : Least(2 * size, MaxRecv) \in Nat
  BY <1>4 DEF Least
<1>6. \A size, got \in Nat : NextRecvSize(size, got) \in Nat
  BY <1>2, <1>3, <1>4, <1>5 DEF NextRecvSize
<1>7. QED
  BY <1>1, <1>6

\* A connection that read and wrote stays listed unless nothing is owed to it,
\* or epoll owes it an edge.
LEMMA ServedEdges ==
  ASSUME ServerInv, EdgesInv, NEW s \in Slot,
         sock'[s] = Served(s), net'[s] = KernelServed(s),
         ~Finished(Served(s)) => Listed(s)', Connection(s)
  PROVE  Edges(s)'
<1>1. DOMAIN sock[s] = Fields /\ Edges(s)
  BY DEF ServerInv, Shapes, EdgesInv
<1>2. /\ sock'[s].state = sock[s].state
      /\ sock'[s].can_recv = MoreToRead(s)
      /\ sock'[s].can_send = StillWritable(s)
      /\ sock'[s].recv_size = IF Reading(s)
                              THEN NextRecvSize(sock[s].recv_size, ReadCount(s))
                              ELSE sock[s].recv_size
  BY <1>1 DEF Served, Fields
<1> DEFINE n == IF Writing(s) THEN AfterSent(s, Batch(s)) ELSE net[s]
<1>3. /\ DOMAIN n = NetFields /\ n.rx = net[s].rx /\ n.edge = net[s].edge
      /\ net[s].nospace => n.nospace
      /\ Writing(s) /\ Sent(s, Batch(s)) # Len(Batch(s)) => n.nospace
      /\ ~Writing(s) => n = net[s]
  <2>1. CASE Writing(s)
    BY <1>1, <2>1, AfterSentIs DEF Edges
  <2>2. CASE ~Writing(s)
    BY <1>1, <2>2 DEF Edges
  <2>3. QED
    BY <2>1, <2>2
<1>4. net'[s] = [n EXCEPT !.rx = IF Reading(s) THEN @ - ReadCount(s) ELSE @]
  BY DEF KernelServed
<1> HIDE DEF n
<1>5. /\ DOMAIN net'[s] = NetFields
      /\ net'[s].rx = IF Reading(s) THEN net[s].rx - ReadCount(s) ELSE net[s].rx
      /\ net'[s].edge = net[s].edge /\ net'[s].nospace = n.nospace
      /\ net'[s].conn = n.conn /\ net'[s].room = n.room /\ net'[s].reset = n.reset
  BY <1>3, <1>4 DEF NetFields
<1>6. net'[s].rx \in Nat /\ sock'[s].recv_size \in Nat
  BY <1>1, <1>2, <1>5, ReadIs DEF Edges
<1>7. Writing(s)' => Listed(s)'
  BY DEF Writing, Finished
<1>8. ~sock'[s].can_send => net'[s].nospace \/ (net'[s].edge /\ Out(s)')
  <2>1. CASE Writing(s)
    BY <1>2, <1>3, <1>5, <2>1 DEF StillWritable, Took, Writing
  <2>2. CASE ~Writing(s)
    <3>1. Out(s)' <=> Out(s)
      BY <1>3, <1>5, <2>2 DEF Out
    <3>2. ~sock'[s].can_send => ~sock[s].can_send
      BY <1>2, <2>2 DEF StillWritable
    <3>3. QED
      BY <1>1, <1>3, <1>5, <3>1, <3>2 DEF Edges
  <2>3. QED
    BY <2>1, <2>2
<1>9. net'[s].rx > 0 => (sock'[s].can_recv /\ Listed(s)') \/ net'[s].edge
  <2>1. CASE MoreToRead(s)
    BY <1>2, <2>1 DEF Finished
  <2>2. CASE Reading(s) /\ ~MoreToRead(s)
    BY <1>1, <1>5, <2>2, ReadIs DEF MoreToRead, Edges
  <2>3. CASE ~Reading(s)
    BY <1>1, <1>5, <2>3 DEF Reading, Edges
  <2>4. QED
    BY <2>1, <2>2, <2>3
<1>10. QED
  BY <1>2, <1>5, <1>6, <1>7, <1>8, <1>9 DEF Edges, Connection
\* A socket served that is no connection then.
LEMMA QuietEdges ==
  ASSUME ServerInv, EdgesInv, NEW s \in Slot,
         sock'[s].state \notin {"CONNECTED", "CLOSING", "CONNECTING"},
         sock'[s].recv_size \in Nat, DOMAIN net'[s] = NetFields, net'[s].rx \in Nat,
         \A t \in Slot : t # s =>
           sock'[t] = sock[t] /\ net'[t] = net[t] /\ (Listed(t) => Listed(t)')
  PROVE  EdgesInv'
BY NoEdges, OneEdges

\* A listener served, whatever accept answers.
LEMMA ListenerEdges ==
  ASSUME ServerInv, EdgesInv, NEW s \in Slot,
         \/ AcceptRefused(s) \/ AcceptNone(s) \/ AcceptFails(s)
         \/ AcceptDrops(s) \/ Accept(s)
  PROVE  EdgesInv'
<1>1. /\ Serving(s) /\ sock[s].state = "LISTENING"
      /\ DOMAIN sock = Slot /\ DOMAIN sock[s] = Fields /\ DOMAIN net = Slot /\ Edges(s)
      /\ DOMAIN net[s] = NetFields /\ net[s].rx \in Nat /\ sock[s].recv_size \in Nat
  BY DEF AcceptRefused, AcceptNone, AcceptFails, AcceptDrops, Accept, Accepting,
         ServerInv, Shapes, EdgesInv, Edges
<1>2. \A t \in Slot : t # s => (Listed(t) => Listed(t)')
  <2>1. \E stays \in BOOLEAN : StaysIf(stays, s)
    BY DEF AcceptRefused, AcceptNone, AcceptFails, AcceptDrops, Accept, Accepting, StaysIf
  <2>2. QED
    BY <1>1, <2>1, StaysIfIs DEF ServerInv, Listed
<1>3. CASE AcceptRefused(s)
  BY <1>1, <1>2, <1>3, QuietEdges DEF AcceptRefused
<1>4. CASE AcceptNone(s) \/ AcceptFails(s)
  <2>1. UNCHANGED net /\ \A t \in Slot : t # s => sock'[t] = sock[t]
    BY <1>1, <1>4 DEF AcceptNone, AcceptFails
  <2>2. \/ sock'[s] = [sock[s] EXCEPT !.can_recv = FALSE]
        \/ sock'[s] = [sock[s] EXCEPT !.state = "ERROR"]
    BY <1>1, <1>4 DEF AcceptNone, AcceptFails
  <2>3. /\ sock'[s].state \in {"LISTENING", "ERROR"}
        /\ sock'[s].recv_size = sock[s].recv_size
    BY <1>1, <2>2 DEF Fields
  <2>4. QED
    BY <1>1, <1>2, <2>1, <2>3, QuietEdges
<1>5. CASE AcceptDrops(s)
  <2>1. net' = [net EXCEPT ![s].rx = @ - 1] /\ net[s].rx > 0
    BY <1>5 DEF AcceptDrops, Accepting
  <2>2. /\ net'[s] = [net[s] EXCEPT !.rx = @ - 1]
        /\ \A t \in Slot : t # s => net'[t] = net[t]
    BY <1>1, <2>1
  <2>3. DOMAIN net'[s] = NetFields /\ net'[s].rx \in Nat
    BY <1>1, <2>1, <2>2 DEF NetFields
  <2>4. \/ UNCHANGED sock
        \/ FreeIds # {} /\ sock' = [sock EXCEPT ![SlotOf(NewId)].id = NewId]
    BY <1>5 DEF AcceptDrops
  <2>5. QED
    BY <1>1, <1>2, <2>2, <2>3, <2>4, NotBegunEdges
<1>6. CASE Accept(s)
  <2>1. PICK t \in Slot : t = SlotOf(NewId) /\ sock[t].state = "INVALID" /\ FreeIds # {}
    BY <1>6, NewIdIs DEF Accept, ServerInv
  <2>2. net' = [net EXCEPT ![s].rx = @ - 1, ![t] = Up] /\ net[s].rx > 0
    BY <1>6, <2>1 DEF Accept, Accepting
  <2>3. /\ net'[s] = [net[s] EXCEPT !.rx = @ - 1] /\ net'[t] = Up /\ s # t
        /\ \A u \in Slot : u # s /\ u # t => net'[u] = net[u]
    BY <1>1, <2>1, <2>2
  <2>4. DOMAIN net'[s] = NetFields /\ net'[s].rx \in Nat
    BY <1>1, <2>2, <2>3 DEF NetFields
  <2>5. DOMAIN Up = NetFields /\ Up.rx = 0
    BY DEF Up, NoNet, NetFields
  <2>6. sock' = [sock EXCEPT ![SlotOf(NewId)] =
                   [Reset EXCEPT !.id = NewId, !.state = "CONNECTED",
                                 !.role = "SERVER", !.can_send = TRUE]]
    BY <1>6 DEF Accept
  <2>7. QED
    BY <1>1, <1>2, <2>1, <2>3, <2>4, <2>5, <2>6, BegunEdges
<1>7. QED
  BY <1>3, <1>4, <1>5, <1>6

\* A socket whose connect ends.
LEMMA ConnectorEdges ==
  ASSUME ServerInv, EdgesInv, NEW s \in Slot, ServeConnector(s)
  PROVE  EdgesInv'
<1>1. /\ Serving(s) /\ sock[s].state = "CONNECTING" /\ UNCHANGED net
      /\ DOMAIN sock = Slot /\ DOMAIN sock[s] = Fields /\ Edges(s)
  BY DEF ServeConnector, ServerInv, Shapes, EdgesInv
<1>2. ASSUME NEW stays, StaysIf(stays, s)
      PROVE  /\ \A t \in Slot : t # s => (Listed(t) => Listed(t)')
             /\ stays => Listed(s)'
  BY <1>1, <1>2, StaysIfIs DEF ServerInv, Listed
<1>3. CASE sock' = [sock EXCEPT ![s].state = "ERROR"] /\ Stays(s)
  <2>1. StaysIf(TRUE, s)
    BY <1>3 DEF StaysIf
  <2>2. /\ sock'[s] = [sock[s] EXCEPT !.state = "ERROR"]
        /\ \A t \in Slot : t # s => sock'[t] = sock[t]
    BY <1>1, <1>3
  <2>3. sock'[s].state = "ERROR" /\ sock'[s].recv_size = sock[s].recv_size
    BY <1>1, <2>2 DEF Fields
  <2>4. QED
    BY <1>1, <1>2, <2>1, <2>2, <2>3, QuietEdges, ZenonT(30) DEF Edges
<1>4. CASE Leaves(s) /\ UNCHANGED sock
  <2>1. StaysIf(FALSE, s)
    BY <1>4 DEF StaysIf
  <2>2. Edges(s)'
    BY <1>1, <1>4 DEF Edges, Connection
  <2>3. QED
    BY <1>1, <1>2, <1>4, <2>1, <2>2, OneEdges
<1>5. CASE /\ sock[s].can_send /\ sock' = [sock EXCEPT ![s].state = "CONNECTED"]
           /\ StaysIf(sock[s].can_recv \/ sock[s].wbl # <<>>, s)
  <2>1. /\ sock'[s] = [sock[s] EXCEPT !.state = "CONNECTED"]
        /\ \A t \in Slot : t # s => sock'[t] = sock[t]
    BY <1>1, <1>5
  <2>2. /\ sock'[s].state = "CONNECTED" /\ sock'[s].recv_size = sock[s].recv_size
        /\ sock'[s].can_send = sock[s].can_send /\ sock'[s].can_recv = sock[s].can_recv
        /\ sock'[s].wbl = sock[s].wbl
    BY <1>1, <2>1 DEF Fields
  <2>3. sock[s].can_recv \/ sock[s].wbl # <<>> => Listed(s)'
    BY <1>2, <1>5
  <2>4. Edges(s)'
    BY <1>1, <1>5, <2>2, <2>3 DEF Edges, Connection, Writing
  <2>5. QED
    BY <1>1, <1>2, <1>5, <2>1, <2>4, OneEdges
<1>6. QED
  BY <1>1, <1>3, <1>4, <1>5 DEF ServeConnector

\* A connection served, one that closes, or a broken one.
LEMMA StreamEdges ==
  ASSUME ServerInv, EdgesInv, NEW s \in Slot,
         ServeError(s) \/ ServeClosing(s) \/ StreamEnds(s) \/ StreamBreaks(s) \/ Stream(s)
  PROVE  EdgesInv'
<1>1. /\ Serving(s) /\ DOMAIN sock = Slot /\ DOMAIN sock[s] = Fields /\ DOMAIN net = Slot
      /\ Edges(s) /\ DOMAIN net[s] = NetFields /\ net[s].rx \in Nat
      /\ sock[s].recv_size \in Nat
  BY DEF ServeError, ServeClosing, StreamEnds, StreamBreaks, Stream, ServerInv, Shapes,
         EdgesInv, Edges
<1>2. ASSUME ReportsClose(s) \/ Stays(s)
      PROVE  \A t \in Slot : Listed(t) => Listed(t)'
  BY <1>1, <1>2, HeadIs DEF ServerInv, Listed, ReportsClose, Stays
<1>3. ASSUME Transfers(s), StaysIf(~Finished(Served(s)), s), Connection(s)
      PROVE  EdgesInv'
  <2>1. /\ sock'[s] = Served(s) /\ net'[s] = KernelServed(s)
        /\ \A t \in Slot : t # s => sock'[t] = sock[t] /\ net'[t] = net[t]
    BY <1>1, <1>3 DEF Transfers
  <2>2. /\ \A t \in Slot : t # s => (Listed(t) => Listed(t)')
        /\ ~Finished(Served(s)) => Listed(s)'
    BY <1>1, <1>3, StaysIfIs DEF ServerInv, Listed
  <2>3. Edges(s)'
    BY <1>3, <2>1, <2>2, ServedEdges
  <2>4. QED
    BY <2>1, <2>2, <2>3, OneEdges
<1>4. CASE ServeError(s)
  BY <1>2, <1>4, AllKept DEF ServeError
<1>5. CASE ServeClosing(s)
  <2>1. CASE ForceClosed({s})
    BY <2>1, ForceClosedEdges
  <2>2. CASE Transfers(s) /\ StaysIf(~Finished(Served(s)), s)
    BY <1>3, <1>5, <2>2 DEF ServeClosing, Connection
  <2>3. QED
    BY <1>5, <2>1, <2>2 DEF ServeClosing
<1>6. CASE StreamEnds(s)
  <2>1. /\ UNCHANGED net /\ ReportsClose(s)
        /\ sock'[s] = [sock[s] EXCEPT !.state = "ERROR"]
        /\ \A t \in Slot : t # s => sock'[t] = sock[t]
    BY <1>1, <1>6 DEF StreamEnds
  <2>2. sock'[s].state = "ERROR" /\ sock'[s].recv_size = sock[s].recv_size
    BY <1>1, <2>1 DEF Fields
  <2>3. QED
    BY <1>1, <1>2, <2>1, <2>2, QuietEdges
<1>7. CASE StreamBreaks(s)
  <2> DEFINE got == IF Reading(s) THEN ReadCount(s) ELSE 0
  <2>1. /\ sock'[s] = [Served(s) EXCEPT !.state = "ERROR", !.can_send = TRUE,
                                        !.wbl = sock[s].wbl]
        /\ net'[s] = [net[s] EXCEPT !.rx = @ - got]
        /\ \A t \in Slot : t # s => sock'[t] = sock[t] /\ net'[t] = net[t]
    BY <1>1, <1>7 DEF StreamBreaks
  <2>2. net[s].rx - got \in Nat
    BY <1>1, ReadIs
  <2> HIDE DEF got
  <2>3. DOMAIN net'[s] = NetFields /\ net'[s].rx \in Nat
    BY <1>1, <2>1, <2>2 DEF NetFields
  <2>4. DOMAIN Served(s) = Fields /\ Served(s).recv_size \in Nat
    BY <1>1, ReadIs DEF Served, Fields
  <2>5. sock'[s].state = "ERROR" /\ sock'[s].recv_size \in Nat
    BY <2>1, <2>4 DEF Fields
  <2>6. ReportsClose(s) \/ Stays(s)
    BY <1>7 DEF StreamBreaks
  <2>7. QED
    BY <1>2, <2>1, <2>3, <2>5, <2>6, QuietEdges
<1>8. CASE Stream(s)
  BY <1>3, <1>8 DEF Stream, Connection
<1>9. QED
  BY <1>4, <1>5, <1>6, <1>7, <1>8

\* Every step keeps what is owed.
LEMMA EdgesNext == ServerInv /\ EdgesInv /\ [Next]_vars => EdgesInv'
<1> SUFFICES ASSUME ServerInv, EdgesInv, [Next]_vars
             PROVE  EdgesInv'
  OBVIOUS
<1>1. CASE App
  <2>1. 0..alloc_id - 1 \subseteq Nat
    BY DEF ServerInv, Shapes
  <2>2. QED
    BY <1>1, <2>1, OpenEdges, CloseEdges, SendEdges DEF App
<1>2. ASSUME UNCHANGED <<sock, lists, net>>
      PROVE  EdgesInv'
  BY <1>2, AllKept DEF lists, Listed
<1>3. CASE Serve
  <2>1. CASE ServeNothing
    BY <1>2, <2>1 DEF ServeNothing
  <2>2. ASSUME NEW s \in Slot, ServeKilled(s)
        PROVE  EdgesInv'
    BY <1>2, <2>2 DEF ServeKilled
  <2>3. QED
    BY <1>3, <2>1, <2>2, ListenerEdges, ConnectorEdges, StreamEdges DEF Serve
<1>4. CASE UNCHANGED vars
  BY <1>2, <1>4 DEF vars
<1>5. QED
  BY <1>1, <1>3, <1>4, EdgesWorld, PollEdges DEF Next

\* What is owed holds in every state.
LEMMA EdgesInvariant == Spec => []EdgesInv
BY ServerInvariant, EdgesInit, EdgesNext, PTL DEF Spec

\* A connection with something to send that can send it is in the active list,
\* as jetnet_tcp_send relies on.
THEOREM ReadyIsListed == Spec => []WriteReady
<1>1. EdgesInv => WriteReady
  BY DEF EdgesInv, Edges, WriteReady
<1>2. QED
  BY <1>1, EdgesInvariant, PTL

\* A connection that waits to send will be woken: the kernel found too little
\* room and owes an edge, or has one that epoll reports (edge-triggered epoll
\* says it once, and jetnet_send_buffer_list clears can_send).
THEOREM WritesNotForgotten == Spec => []NoLostWriteEdge
<1>1. EdgesInv => NoLostWriteEdge
  BY DEF EdgesInv, Edges, NoLostWriteEdge
<1>2. QED
  BY <1>1, EdgesInvariant, PTL

\* Data that came are not forgotten: the connection is listed to read them, or
\* epoll owes it an edge, however short the reads and whatever order the
\* kernel and the polls act in.
THEOREM ReadsNotForgotten == Spec => []NoLostReadEdge
<1>1. EdgesInv => NoLostReadEdge
  BY DEF EdgesInv, Edges, NoLostReadEdge
<1>2. QED
  BY <1>1, EdgesInvariant, PTL

-----------------------------------------------------------------------------
(* Sequences of sequences, and what FlattenSeq makes of them.              *)

\* Induction, for the numbers of a set.
LEMMA Ascends ==
  ASSUME NEW n \in Nat, NEW T, 0 \in T, \A i \in 0 .. n - 1 : i \in T => i + 1 \in T
  PROVE  \A i \in 0 .. n : i \in T
<1> DEFINE Bad == {i \in 0 .. n : i \notin T}
           R == OpToRel(<, Nat)
<1>1. ASSUME Bad # {}
      PROVE  FALSE
  <2>1. IsWellFoundedOn(R, Nat)
    BY NatLessThanWellFounded
  <2>2. \A x, y \in Nat : y < x => <<y, x>> \in R
    BY DEF OpToRel
  <2>3. Bad \in SUBSET Nat
    OBVIOUS
  <2> HIDE DEF R, Bad
  <2>4. PICK m \in Bad : \A i \in Bad : ~ (<<i, m>> \in R)
    BY <1>1, <2>1, <2>3, WFMin
  <2>5. m \in 0 .. n /\ m # 0
    BY <2>4 DEF Bad
  <2>6. m - 1 \in 0 .. n - 1 /\ m - 1 \in Nat /\ m \in Nat /\ m - 1 < m
    BY <2>5
  <2>7. m - 1 \notin Bad
    BY <2>2, <2>4, <2>6
  <2>8. m - 1 \in T
    BY <2>6, <2>7 DEF Bad
  <2>9. m \in T
    BY <2>5, <2>6, <2>8
  <2>10. QED
    BY <2>4, <2>9 DEF Bad
<1>2. QED
  BY <1>1

\* f[i] is the first i sequences of q, one after the other.
Joined(f, q, m) ==
  f = [i \in 1 .. m |-> IF i = 1 THEN q[i] ELSE f[i - 1] \o q[i]]

\* There is such a function.
LEMMA JoinedExists ==
  ASSUME NEW q, NEW n \in Nat
  PROVE  \E f : Joined(f, q, n)
<1> DEFINE T == {m \in 0 .. n : \E f : Joined(f, q, m)}
<1>1. 0 \in T
  <2> DEFINE f == [i \in 1 .. 0 |-> q[i]]
  <2>1. f = [i \in 1 .. 0 |-> IF i = 1 THEN q[i] ELSE f[i - 1] \o q[i]]
    OBVIOUS
  <2> HIDE DEF f
  <2>2. Joined(f, q, 0)
    BY <2>1 DEF Joined
  <2>3. QED
    BY <2>2
<1>2. ASSUME NEW m \in 0 .. n - 1, m \in T
      PROVE  m + 1 \in T
  <2>1. PICK f : Joined(f, q, m)
    BY <1>2
  <2>2. \A i \in 1 .. m : f[i] = IF i = 1 THEN q[i] ELSE f[i - 1] \o q[i]
    BY <2>1 DEF Joined
  <2> DEFINE last == IF m + 1 = 1 THEN q[m + 1] ELSE f[m] \o q[m + 1]
             g == [i \in 1 .. m + 1 |-> IF i = m + 1 THEN last ELSE f[i]]
  <2>3. \A i \in 1 .. m + 1 : g[i] = IF i = 1 THEN q[i] ELSE g[i - 1] \o q[i]
    <3> SUFFICES ASSUME NEW i \in 1 .. m + 1
                 PROVE  g[i] = IF i = 1 THEN q[i] ELSE g[i - 1] \o q[i]
      OBVIOUS
    <3>1. CASE i = m + 1
      <4>1. g[i] = last
        BY <3>1
      <4>2. i # 1 => g[i - 1] = f[m]
        BY <3>1
      <4>3. QED
        BY <3>1, <4>1, <4>2
    <3>2. CASE i # m + 1
      <4>1. i \in 1 .. m /\ g[i] = f[i]
        BY <3>2
      <4>2. i # 1 => g[i - 1] = f[i - 1]
        BY <3>2
      <4>3. QED
        BY <2>2, <4>1, <4>2
    <3>3. QED
      BY <3>1, <3>2
  <2>4. g = [i \in 1 .. m + 1 |-> g[i]]
    OBVIOUS
  <2> HIDE DEF g
  <2>5. Joined(g, q, m + 1)
    BY <2>3, <2>4 DEF Joined
  <2>6. QED
    BY <2>5
<1>3. \A m \in 0 .. n : m \in T
  <2> HIDE DEF T
  <2>1. QED
    BY <1>1, <1>2, Ascends
<1>4. QED
  BY <1>3

\* FlattenSeq is the last value of that function.
LEMMA FlattenIs ==
  ASSUME NEW X, NEW q \in Seq(Seq(X)), Len(q) # 0
  PROVE  \E f : Joined(f, q, Len(q)) /\ FlattenSeq(q) = f[Len(q)]
<1> DEFINE Body(f) == [i \in 1 .. Len(q) |-> IF i = 1 THEN q[i] ELSE f[i - 1] \o q[i]]
           f == CHOOSE f : f = Body(f)
<1>1. FlattenSeq(q) = f[Len(q)]
  BY DEF FlattenSeq
<1>2. Len(q) \in Nat
  OBVIOUS
<1>3. PICK g : g = Body(g)
  BY <1>2, JoinedExists DEF Joined
<1>4. f = Body(f)
  <2> HIDE DEF Body
  <2>1. QED
    BY <1>3
<1> HIDE DEF f
<1>5. Joined(f, q, Len(q))
  BY <1>4 DEF Joined
<1>6. QED
  BY <1>1, <1>5

LEMMA FlattenEmpty == FlattenSeq(<<>>) = <<>>
BY DEF FlattenSeq

\* One sequence more.
LEMMA FlattenAppend ==
  ASSUME NEW X, NEW q \in Seq(Seq(X)), NEW u \in Seq(X)
  PROVE  FlattenSeq(Append(q, u)) = FlattenSeq(q) \o u
<1> DEFINE n == Len(q)
           r == Append(q, u)
<1>1. n \in Nat /\ r \in Seq(Seq(X)) /\ Len(r) = n + 1 /\ r[n + 1] = u
      /\ \A i \in 1 .. n : r[i] = q[i]
  BY AppendProperties
<1> HIDE DEF n, r
<1>2. PICK g : Joined(g, r, n + 1) /\ FlattenSeq(r) = g[n + 1]
  <2>1. Len(r) # 0
    BY <1>1
  <2>2. PICK g : Joined(g, r, Len(r)) /\ FlattenSeq(r) = g[Len(r)]
    BY <1>1, <2>1, FlattenIs
  <2>3. QED
    BY <1>1, <2>2
<1>3. \A i \in 1 .. n + 1 : g[i] = IF i = 1 THEN r[i] ELSE g[i - 1] \o r[i]
  BY <1>2 DEF Joined
<1>4. CASE n = 0
  <2>1. g[1] = u
    BY <1>1, <1>3, <1>4
  <2>2. q = <<>>
    BY <1>4 DEF n
  <2>3. FlattenSeq(q) \o u = u
    BY <2>2, FlattenEmpty, ConcatEmptySeq
  <2>4. QED
    BY <1>2, <1>4, <2>1, <2>3 DEF r
<1>5. CASE n # 0
  <2>1. PICK f : Joined(f, q, n) /\ FlattenSeq(q) = f[n]
    BY <1>5, FlattenIs DEF n
  <2>2. \A i \in 1 .. n : f[i] = IF i = 1 THEN q[i] ELSE f[i - 1] \o q[i]
    BY <2>1 DEF Joined
  <2> DEFINE T == {i \in 0 .. n : i # 0 => g[i] = f[i]}
  <2>3. 0 \in T
    BY <1>1
  <2>4. ASSUME NEW i \in 0 .. n - 1, i \in T
        PROVE  i + 1 \in T
    <3>1. i + 1 \in 1 .. n /\ i + 1 \in 1 .. n + 1 /\ (i + 1) - 1 = i /\ (i + 1 = 1 <=> i = 0)
      BY <1>1
    <3>2. i # 0 => g[i] = f[i]
      BY <2>4
    <3>3. r[i + 1] = q[i + 1]
      BY <1>1, <3>1
    <3>4. g[i + 1] = f[i + 1]
      BY <1>3, <2>2, <3>1, <3>2, <3>3
    <3>5. QED
      BY <3>1, <3>4
  <2>5. \A i \in 0 .. n : i \in T
    <3> HIDE DEF T
    <3>1. QED
      BY <1>1, <2>3, <2>4, Ascends
  <2>6. g[n] = f[n]
    BY <1>1, <1>5, <2>5
  <2>7. g[n + 1] = g[n] \o u
    <3>1. n + 1 \in 1 .. n + 1 /\ n + 1 # 1 /\ (n + 1) - 1 = n
      BY <1>1, <1>5
    <3>2. g[n + 1] = g[(n + 1) - 1] \o r[n + 1]
      BY <1>3, <3>1, Zenon
    <3>3. QED
      BY <1>1, <3>1, <3>2
  <2>8. QED
    BY <1>2, <2>1, <2>6, <2>7 DEF r
<1>6. QED
  BY <1>4, <1>5

\* The first m sequences of q.
First(q, m) == SubSeq(q, 1, m)

LEMMA FirstIs ==
  ASSUME NEW S, NEW q \in Seq(S)
  PROVE  /\ First(q, 0) = <<>> /\ First(q, Len(q)) = q
         /\ \A m \in 0 .. Len(q) : First(q, m) \in Seq(S) /\ Len(First(q, m)) = m
         /\ \A m \in 0 .. Len(q) - 1 : First(q, m + 1) = Append(First(q, m), q[m + 1])
<1>1. \A m \in 0 .. Len(q) : First(q, m) \in Seq(S) /\ Len(First(q, m)) = m
  BY SubSeqProperties DEF First
<1>2. ASSUME NEW m \in 0 .. Len(q) - 1
      PROVE  First(q, m + 1) = Append(First(q, m), q[m + 1])
  <2>1. Len(q) \in Nat /\ m \in Int /\ m + 1 \in Int
    OBVIOUS
  <2>2. m + 1 \in 1 .. Len(q) /\ m \in 0 .. Len(q) /\ m + 1 \in 0 .. Len(q)
    BY <2>1
  <2>3. /\ First(q, m) \in Seq(S) /\ First(q, m + 1) \in Seq(S)
        /\ Len(First(q, m)) = m /\ Len(First(q, m + 1)) = m + 1 /\ q[m + 1] \in S
    BY <1>1, <2>2
  <2>4. \A i \in 1 .. m : First(q, m)[i] = q[i]
    BY <2>2, SubSeqProperties DEF First
  <2>5. \A i \in 1 .. m + 1 : First(q, m + 1)[i] = q[i]
    BY <2>2, SubSeqProperties DEF First
  <2>6. /\ Append(First(q, m), q[m + 1]) \in Seq(S)
        /\ Len(Append(First(q, m), q[m + 1])) = m + 1
        /\ \A i \in 1 .. m : Append(First(q, m), q[m + 1])[i] = First(q, m)[i]
        /\ Append(First(q, m), q[m + 1])[m + 1] = q[m + 1]
    BY <2>3, AppendProperties
  <2>7. \A i \in 1 .. m + 1 : First(q, m + 1)[i] = Append(First(q, m), q[m + 1])[i]
    <3>1. \A i \in 1 .. m + 1 : i = m + 1 \/ i \in 1 .. m
      BY <2>1
    <3>2. QED
      BY <2>4, <2>5, <2>6, <3>1
  <2>8. QED
    BY <2>3, <2>6, <2>7, SeqEqual
<1>3. First(q, 0) = <<>> /\ First(q, Len(q)) = q
  BY SubSeqEmpty, SubSeqFull DEF First
<1>4. QED
  BY <1>1, <1>2, <1>3

\* A sequence with one element more, after another.
LEMMA ConcatAppend ==
  ASSUME NEW S, NEW s \in Seq(S), NEW t \in Seq(S), NEW e \in S
  PROVE  s \o Append(t, e) = Append(s \o t, e)
<1> DEFINE l == s \o Append(t, e)
           r == Append(s \o t, e)
<1>1. /\ l \in Seq(S) /\ Len(l) = Len(s) + Len(t) + 1
      /\ \A i \in 1 .. Len(s) + Len(t) + 1 :
           l[i] = IF i <= Len(s) THEN s[i] ELSE Append(t, e)[i - Len(s)]
  BY AppendProperties, ConcatProperties
<1>2. s \o t \in Seq(S) /\ Len(s \o t) = Len(s) + Len(t)
      /\ \A i \in 1 .. Len(s) + Len(t) :
           (s \o t)[i] = IF i <= Len(s) THEN s[i] ELSE t[i - Len(s)]
  BY ConcatProperties
<1>3. /\ r \in Seq(S) /\ Len(r) = Len(s) + Len(t) + 1
      /\ \A i \in 1 .. Len(s) + Len(t) : r[i] = (s \o t)[i]
      /\ r[Len(s) + Len(t) + 1] = e
  BY <1>2, AppendProperties
<1>4. Len(s) \in Nat /\ Len(t) \in Nat
  OBVIOUS
<1>5. /\ \A i \in 1 .. Len(t) : Append(t, e)[i] = t[i]
      /\ Append(t, e)[Len(t) + 1] = e
  BY AppendProperties
<1> HIDE DEF l, r
<1>6. ASSUME NEW i \in 1 .. Len(s) + Len(t) + 1
      PROVE  l[i] = r[i]
  <2>1. CASE i <= Len(s)
    <3>1. i \in 1 .. Len(s) + Len(t)
      BY <1>4, <2>1
    <3>2. l[i] = s[i] /\ (s \o t)[i] = s[i] /\ r[i] = (s \o t)[i]
      BY <1>1, <1>2, <1>3, <2>1, <3>1, Zenon
    <3>3. QED
      BY <3>2
  <2>2. CASE i > Len(s) /\ i # Len(s) + Len(t) + 1
    <3>1. i - Len(s) \in 1 .. Len(t) /\ i \in 1 .. Len(s) + Len(t) /\ ~ (i <= Len(s))
      BY <1>4, <2>2
    <3>2. l[i] = Append(t, e)[i - Len(s)] /\ r[i] = t[i - Len(s)]
      BY <1>1, <1>2, <1>3, <3>1
    <3>3. QED
      BY <1>5, <3>1, <3>2
  <2>3. CASE i = Len(s) + Len(t) + 1
    <3>1. i - Len(s) = Len(t) + 1 /\ ~ (i <= Len(s))
      BY <1>4, <2>3
    <3>2. l[i] = Append(t, e)[Len(t) + 1] /\ r[i] = e
      BY <1>1, <1>3, <2>3, <3>1
    <3>3. QED
      BY <1>5, <3>2
  <2>4. QED
    BY <1>4, <2>1, <2>2, <2>3
<1>7. l = r
  BY <1>1, <1>3, <1>6, SeqEqual
<1>8. QED
  BY <1>7 DEF l, r

\* Concatenation, as a name that stands for itself in a proof.
Cat(s, t) == s \o t

LEMMA CatAssociative ==
  ASSUME NEW S, NEW s \in Seq(S), NEW t \in Seq(S), NEW u \in Seq(S)
  PROVE  Cat(Cat(s, t), u) = Cat(s, Cat(t, u))
BY ConcatAssociative DEF Cat

\* Sequences of sequences of X make a sequence of X.
LEMMA FlattenType ==
  ASSUME NEW X, NEW q \in Seq(Seq(X))
  PROVE  FlattenSeq(q) \in Seq(X)
<1> DEFINE T == {m \in 0 .. Len(q) : FlattenSeq(First(q, m)) \in Seq(X)}
<1>1. Len(q) \in Nat
  OBVIOUS
<1>2. 0 \in T
  BY <1>1, FirstIs, FlattenEmpty
<1>3. ASSUME NEW m \in 0 .. Len(q) - 1, m \in T
      PROVE  m + 1 \in T
  <2>1. m \in 0 .. Len(q) /\ m + 1 \in 0 .. Len(q) /\ q[m + 1] \in Seq(X)
    BY <1>1
  <2>2. First(q, m) \in Seq(Seq(X)) /\ First(q, m + 1) = Append(First(q, m), q[m + 1])
    BY <1>3, <2>1, FirstIs
  <2>3. FlattenSeq(First(q, m + 1)) = FlattenSeq(First(q, m)) \o q[m + 1]
    BY <2>1, <2>2, FlattenAppend
  <2>4. FlattenSeq(First(q, m)) \in Seq(X)
    BY <1>3
  <2>5. QED
    BY <2>1, <2>3, <2>4, ConcatProperties, ZenonT(30)
<1>4. Len(q) \in T
  <2> HIDE DEF T
  <2>1. \A m \in 0 .. Len(q) : m \in T
    BY <1>1, <1>2, <1>3, Ascends
  <2>2. QED
    BY <1>1, <2>1
<1>5. QED
  BY <1>4, FirstIs

\* Two lists of sequences, one after the other.
LEMMA FlattenConcat ==
  ASSUME NEW X, NEW a \in Seq(Seq(X)), NEW b \in Seq(Seq(X))
  PROVE  FlattenSeq(a \o b) = FlattenSeq(a) \o FlattenSeq(b)
<1> DEFINE T == {m \in 0 .. Len(b) :
                   FlattenSeq(a \o First(b, m)) = FlattenSeq(a) \o FlattenSeq(First(b, m))}
<1>1. Len(b) \in Nat /\ FlattenSeq(a) \in Seq(X)
  BY FlattenType
<1>2. 0 \in T
  <2>1. a \o <<>> = a /\ FlattenSeq(a) \o <<>> = FlattenSeq(a)
    BY <1>1, ConcatEmptySeq
  <2>2. First(b, 0) = <<>> /\ FlattenSeq(First(b, 0)) = <<>>
    BY FirstIs, FlattenEmpty
  <2>3. FlattenSeq(a \o First(b, 0)) = FlattenSeq(a) \o FlattenSeq(First(b, 0))
    BY <2>1, <2>2, Zenon
  <2>4. QED
    BY <1>1, <2>3
<1>3. ASSUME NEW m \in 0 .. Len(b) - 1, m \in T
      PROVE  m + 1 \in T
  <2>1. m \in 0 .. Len(b) /\ m + 1 \in 0 .. Len(b) /\ b[m + 1] \in Seq(X)
    BY <1>1
  <2>2. First(b, m) \in Seq(Seq(X)) /\ First(b, m + 1) = Append(First(b, m), b[m + 1])
    BY <1>3, <2>1, FirstIs
  <2>3. a \o First(b, m + 1) = Append(a \o First(b, m), b[m + 1])
    <3>1. a \o Append(First(b, m), b[m + 1]) = Append(a \o First(b, m), b[m + 1])
      <4>1. PICK c, u : c = First(b, m) /\ u = b[m + 1]
        OBVIOUS
      <4>2. a \in Seq(Seq(X)) /\ c \in Seq(Seq(X)) /\ u \in Seq(X)
        BY <2>1, <2>2, <4>1
      <4>3. a \o Append(c, u) = Append(a \o c, u)
        BY <4>2, ConcatAppend
      <4>4. QED
        BY <4>1, <4>3, Zenon
    <3>2. QED
      BY <2>2, <3>1, Zenon
  <2>4. a \o First(b, m) \in Seq(Seq(X))
    BY <2>2, ConcatProperties
  <2>5. /\ FlattenSeq(a \o First(b, m + 1)) = FlattenSeq(a \o First(b, m)) \o b[m + 1]
        /\ FlattenSeq(First(b, m + 1)) = FlattenSeq(First(b, m)) \o b[m + 1]
    BY <2>1, <2>2, <2>3, <2>4, FlattenAppend
  <2>6. FlattenSeq(a \o First(b, m)) = FlattenSeq(a) \o FlattenSeq(First(b, m))
    BY <1>3
  <2>7. FlattenSeq(First(b, m)) \in Seq(X)
    BY <2>2, FlattenType
  <2>8. (FlattenSeq(a) \o FlattenSeq(First(b, m))) \o b[m + 1]
          = FlattenSeq(a) \o (FlattenSeq(First(b, m)) \o b[m + 1])
    <3>1. PICK c, d, u : c = FlattenSeq(a) /\ d = FlattenSeq(First(b, m)) /\ u = b[m + 1]
      OBVIOUS
    <3>2. c \in Seq(X) /\ d \in Seq(X) /\ u \in Seq(X)
      BY <1>1, <2>1, <2>7, <3>1
    <3>3. Cat(Cat(c, d), u) = Cat(c, Cat(d, u))
      BY <3>2, CatAssociative
    <3>4. QED
      BY <3>1, <3>3, Zenon DEF Cat
  <2>9. FlattenSeq(a \o First(b, m + 1)) = FlattenSeq(a) \o FlattenSeq(First(b, m + 1))
    BY <2>5, <2>6, <2>8, Zenon
  <2>10. QED
    BY <2>1, <2>9
<1>4. Len(b) \in T
  <2> HIDE DEF T
  <2>1. \A m \in 0 .. Len(b) : m \in T
    BY <1>1, <1>2, <1>3, Ascends
  <2>2. QED
    BY <1>1, <2>1
<1>5. QED
  BY <1>4, FirstIs

LEMMA FlattenOne ==
  ASSUME NEW X, NEW u \in Seq(X)
  PROVE  FlattenSeq(<<u>>) = u
<1>1. <<>> \in Seq(Seq(X)) /\ Append(<<>>, u) = <<u>>
  OBVIOUS
<1>2. FlattenSeq(Append(<<>>, u)) = FlattenSeq(<<>>) \o u
  BY <1>1, FlattenAppend
<1>3. FlattenSeq(<<>>) \o u = u
  BY FlattenEmpty, ConcatEmptySeq
<1>4. QED
  BY <1>1, <1>2, <1>3

-----------------------------------------------------------------------------
(* What a write buffer list and a send leave of it.                        *)

\* The largest of some numbers up to n.
LEMMA LargestIs ==
  ASSUME NEW n \in Nat, NEW S \in SUBSET (0 .. n), S # {}
  PROVE  Max(S) \in S /\ \A y \in S : Max(S) >= y
<1> DEFINE G == {n - x : x \in S}
           R == OpToRel(<, Nat)
<1>1. IsWellFoundedOn(R, Nat)
  BY NatLessThanWellFounded
<1>2. \A x, y \in Nat : y < x => <<y, x>> \in R
  BY DEF OpToRel
<1>3. G \in SUBSET Nat /\ G # {}
  <2>1. \A y \in S : n - y \in Nat
    OBVIOUS
  <2>2. PICK y \in S : TRUE
    OBVIOUS
  <2>3. n - y \in G
    BY <2>2
  <2>4. G \in SUBSET Nat
    BY <2>1
  <2>5. QED
    BY <2>3, <2>4
<1>4. ASSUME NEW x \in G
      PROVE  n - x \in S /\ x \in Nat
  <2>1. PICK y \in S : x = n - y
    OBVIOUS
  <2>2. y \in 0 .. n
    OBVIOUS
  <2>3. n - x = y /\ x \in Nat
    BY <2>1, <2>2
  <2>4. QED
    BY <2>3
<1>5. \A y \in S : n - y \in G /\ y \in Nat
  OBVIOUS
<1> HIDE DEF R, G
<1>6. PICK x \in G : \A y \in G : ~ (<<y, x>> \in R)
  BY <1>1, <1>3, WFMin
<1>7. \A y \in S : n - x >= y
  <2> SUFFICES ASSUME NEW y \in S
               PROVE  n - x >= y
    OBVIOUS
  <2>1. n - y \in G /\ n - y \in Nat /\ x \in Nat /\ y \in Nat
    BY <1>3, <1>4, <1>5
  <2>2. ~ (n - y < x)
    BY <1>2, <1>6, <2>1
  <2>3. QED
    BY <2>1, <2>2
<1>8. \E x1 \in S : \A y \in S : x1 >= y
  BY <1>4, <1>7
<1>9. QED
  BY <1>8 DEF Max

\* The first units of two sequences are those of the first one.
LEMMA PrefixIs ==
  ASSUME NEW X, NEW a \in Seq(X), NEW b \in Seq(X), NEW k \in 0 .. Len(a)
  PROVE  SubSeq(Cat(a, b), 1, k) = SubSeq(a, 1, k)
<1>1. Len(a) \in Nat /\ Len(b) \in Nat /\ k \in Int
  OBVIOUS
<1>2. /\ Cat(a, b) \in Seq(X) /\ Len(Cat(a, b)) = Len(a) + Len(b)
      /\ \A i \in 1 .. Len(a) : Cat(a, b)[i] = a[i]
  <2>1. /\ Cat(a, b) \in Seq(X) /\ Len(Cat(a, b)) = Len(a) + Len(b)
        /\ \A i \in 1 .. Len(a) + Len(b) :
             Cat(a, b)[i] = IF i <= Len(a) THEN a[i] ELSE b[i - Len(a)]
    BY ConcatProperties DEF Cat
  <2>2. QED
    BY <1>1, <2>1
<1>3. \A i \in 1 .. k : Cat(a, b)[i] = a[i] /\ a[i] \in X
  BY <1>1, <1>2, ElementOfSeq
<1>4. /\ SubSeq(a, 1, k) \in Seq(X) /\ Len(SubSeq(a, 1, k)) = k
      /\ \A i \in 1 .. k : SubSeq(a, 1, k)[i] = a[i]
  BY <1>1, <1>3, SubSeqProperties
<1>5. PICK c : c = Cat(a, b)
  OBVIOUS
<1>6. /\ SubSeq(c, 1, k) \in Seq(X) /\ Len(SubSeq(c, 1, k)) = k
      /\ \A i \in 1 .. k : SubSeq(c, 1, k)[i] = c[i]
  BY <1>1, <1>3, <1>5, SubSeqProperties
<1>7. SubSeq(c, 1, k) = SubSeq(a, 1, k)
  BY <1>3, <1>4, <1>5, <1>6, SeqEqual
<1>8. QED
  BY <1>5, <1>7

LEMMA CatIs ==
  ASSUME NEW X, NEW a \in Seq(X), NEW b \in Seq(X)
  PROVE  /\ Cat(a, b) \in Seq(X) /\ Len(Cat(a, b)) = Len(a) + Len(b)
         /\ Len(a) \in Nat /\ Len(b) \in Nat
BY ConcatProperties DEF Cat

LEMMA CatEmpty ==
  ASSUME NEW X, NEW a \in Seq(X)
  PROVE  Cat(a, <<>>) = a /\ Cat(<<>>, a) = a
BY ConcatEmptySeq DEF Cat

\* A sequence is cut in two.
LEMMA CutIs ==
  ASSUME NEW X, NEW a \in Seq(X), NEW k \in 0 .. Len(a)
  PROVE  /\ SubSeq(a, 1, k) \in Seq(X) /\ Len(SubSeq(a, 1, k)) = k
         /\ SubSeq(a, k + 1, Len(a)) \in Seq(X)
         /\ Len(SubSeq(a, k + 1, Len(a))) = Len(a) - k
         /\ a = Cat(SubSeq(a, 1, k), SubSeq(a, k + 1, Len(a)))
<1>1. Len(a) \in Nat /\ k \in Int /\ 1 \in 1 .. Len(a) + 1 /\ k \in 1 - 1 .. Len(a)
      /\ Len(a) \in k .. Len(a)
  OBVIOUS
<1>2. SubSeq(a, 1, k) \o SubSeq(a, k + 1, Len(a)) = SubSeq(a, 1, Len(a))
  BY <1>1, ConcatAdjacentSubSeq
<1>3. SubSeq(a, 1, Len(a)) = a
  BY SubSeqFull
<1>4. \A i \in 1 .. Len(a) : a[i] \in X
  BY ElementOfSeq
<1>5. /\ SubSeq(a, 1, k) \in Seq(X) /\ Len(SubSeq(a, 1, k)) = k
  BY <1>1, <1>4, SubSeqProperties
<1>6. /\ SubSeq(a, k + 1, Len(a)) \in Seq(X)
      /\ Len(SubSeq(a, k + 1, Len(a))) = Len(a) - k
  BY <1>1, <1>4, SubSeqProperties
<1>7. QED
  BY <1>2, <1>3, <1>5, <1>6 DEF Cat

\* No buffer of the list is empty.
Full(wbl) == \A i \in DOMAIN wbl : wbl[i] # <<>>

\* The buffers of a list from the nth on.
From(wbl, n) == SubSeq(wbl, n, Len(wbl))

\* What jetnet_wbl_drop leaves of a list is the list's units without those
\* that were sent, and no buffer is left empty.
LEMMA DroppedIs ==
  ASSUME NEW X, NEW wbl \in Seq(Seq(X)), NEW k \in 0 .. Len(FlattenSeq(wbl))
  PROVE  /\ Dropped(wbl, k) \in Seq(Seq(X))
         /\ FlattenSeq(wbl) = Cat(SubSeq(FlattenSeq(wbl), 1, k), FlattenSeq(Dropped(wbl, k)))
         /\ Full(wbl) => Full(Dropped(wbl, k))
<1> DEFINE S == {i \in 0 .. Len(wbl) : Len(FlattenSeq(First(wbl, i))) <= k}
           n == Max(S)
           A == FlattenSeq(First(wbl, n))
           B == wbl[n + 1]
           C == FlattenSeq(From(wbl, n + 2))
           j == k - Len(A)
           D == SubSeq(B, j + 1, Len(B))
<1>1. Len(wbl) \in Nat /\ FlattenSeq(wbl) \in Seq(X) /\ Len(FlattenSeq(wbl)) \in Nat /\ k \in Nat
  BY FlattenType
<1>2. Dropped(wbl, k) = IF n = Len(wbl) THEN <<>>
                        ELSE <<SubSeq(wbl[n + 1], k - Len(FlattenSeq(First(wbl, n))) + 1,
                                      Len(wbl[n + 1]))>> \o From(wbl, n + 2)
  BY DEF Dropped, First, From
<1>3. n \in S /\ \A y \in S : n >= y
  <2>1. 0 \in S
    <3>1. First(wbl, 0) = <<>> /\ FlattenSeq(<<>>) = <<>> /\ Len(<<>>) = 0
      BY FirstIs, FlattenEmpty
    <3>2. QED
      BY <1>1, <3>1
  <2>2. S \in SUBSET (0 .. Len(wbl)) /\ S # {}
    BY <2>1
  <2> HIDE DEF S
  <2>3. QED
    BY <1>1, <2>2, LargestIs
<1>4. n \in 0 .. Len(wbl) /\ Len(A) <= k
  BY <1>3
<1>5. n # Len(wbl) => n + 1 \in 1 .. Len(wbl) /\ n \in 0 .. Len(wbl) - 1
                      /\ ~ (Len(FlattenSeq(First(wbl, n + 1))) <= k)
  <2>1. n # Len(wbl) => n + 1 \in 0 .. Len(wbl) /\ n + 1 \in 1 .. Len(wbl)
                        /\ ~ (n >= n + 1) /\ n \in 0 .. Len(wbl) - 1
    BY <1>1, <1>4
  <2>2. QED
    BY <1>3, <2>1
<1> HIDE DEF n
<1>6. CASE n = Len(wbl)
  <2>1. Dropped(wbl, k) = <<>> /\ A = FlattenSeq(wbl)
    BY <1>2, <1>6, FirstIs
  <2>2. k = Len(FlattenSeq(wbl))
    BY <1>1, <1>4, <2>1
  <2>3. SubSeq(FlattenSeq(wbl), 1, k) = FlattenSeq(wbl)
    BY <1>1, <2>2, SubSeqFull
  <2>4. Cat(FlattenSeq(wbl), <<>>) = FlattenSeq(wbl)
    BY <1>1, CatEmpty
  <2>5. <<>> \in Seq(Seq(X)) /\ Full(<<>>)
    BY DEF Full
  <2>6. QED
    BY <2>1, <2>3, <2>4, <2>5, FlattenEmpty
<1>7. CASE n # Len(wbl)
  <2>1. /\ First(wbl, n) \in Seq(Seq(X)) /\ First(wbl, n + 1) \in Seq(Seq(X))
        /\ First(wbl, n + 1) = Append(First(wbl, n), B)
        /\ B \in Seq(X)
    <3>1. n \in 0 .. Len(wbl) /\ n + 1 \in 0 .. Len(wbl) /\ n \in 0 .. Len(wbl) - 1
      BY <1>1, <1>4, <1>5, <1>7
    <3>2. QED
      BY <1>5, <1>7, <3>1, FirstIs, ElementOfSeq
  <2>2. /\ From(wbl, n + 2) \in Seq(Seq(X))
        /\ wbl = Cat(First(wbl, n + 1), From(wbl, n + 2))
    <3>1. n + 1 \in 0 .. Len(wbl) /\ (n + 1) + 1 = n + 2
      BY <1>1, <1>5, <1>7
    <3>2. PICK p : p = n + 1
      OBVIOUS
    <3>3. SubSeq(wbl, p + 1, Len(wbl)) \in Seq(Seq(X))
          /\ wbl = Cat(SubSeq(wbl, 1, p), SubSeq(wbl, p + 1, Len(wbl)))
      BY <3>1, <3>2, CutIs
    <3>4. QED
      BY <3>1, <3>2, <3>3 DEF First, From
  <2>3. A \in Seq(X) /\ C \in Seq(X)
    BY <2>1, <2>2, FlattenType
  <2>4. FlattenSeq(First(wbl, n + 1)) = Cat(A, B)
    BY <2>1, FlattenAppend DEF Cat
  <2>5. FlattenSeq(wbl) = Cat(Cat(A, B), C)
    <3>1. PICK a, c : a = First(wbl, n + 1) /\ c = From(wbl, n + 2)
      OBVIOUS
    <3>2. FlattenSeq(Cat(a, c)) = Cat(FlattenSeq(a), FlattenSeq(c))
      BY <2>1, <2>2, <3>1, FlattenConcat DEF Cat
    <3>3. QED
      BY <2>2, <2>4, <3>1, <3>2
  <2>6. /\ Len(A) \in Nat /\ Len(B) \in Nat /\ j \in 0 .. Len(B) /\ j < Len(B)
    <3>1. Len(Cat(A, B)) = Len(A) + Len(B) /\ Len(A) \in Nat /\ Len(B) \in Nat
      BY <2>1, <2>3, CatIs
    <3>2. QED
      BY <1>1, <1>4, <1>5, <1>7, <2>4, <3>1
  <2> DEFINE E == SubSeq(B, 1, j)
  <2>7. /\ E \in Seq(X) /\ Len(E) = j
        /\ D \in Seq(X) /\ Len(D) = Len(B) - j /\ B = Cat(E, D)
    <3> HIDE DEF B, j
    <3>1. QED
      BY <2>1, <2>6, CutIs
  <2>8. Dropped(wbl, k) = <<D>> \o From(wbl, n + 2)
    BY <1>2, <1>7
  <2> HIDE DEF A, B, C, D, E
  <2>9. <<D>> \in Seq(Seq(X)) /\ FlattenSeq(<<D>>) = D
    BY <2>7, FlattenOne
  <2>10. Dropped(wbl, k) \in Seq(Seq(X)) /\ FlattenSeq(Dropped(wbl, k)) = Cat(D, C)
    <3>1. PICK a, c : a = <<D>> /\ c = From(wbl, n + 2)
      OBVIOUS
    <3>2. Cat(a, c) \in Seq(Seq(X)) /\ FlattenSeq(Cat(a, c)) = Cat(FlattenSeq(a), FlattenSeq(c))
      BY <2>2, <2>9, <3>1, FlattenConcat, CatIs DEF Cat
    <3>3. QED
      BY <2>8, <2>9, <3>1, <3>2 DEF Cat, C
  <2>11. FlattenSeq(wbl) = Cat(Cat(A, E), Cat(D, C))
    <3>1. Cat(A, E) \in Seq(X)
      BY <2>3, <2>7, CatIs
    <3>2. Cat(A, Cat(E, D)) = Cat(Cat(A, E), D)
      BY <2>3, <2>7, CatAssociative
    <3>3. Cat(Cat(Cat(A, E), D), C) = Cat(Cat(A, E), Cat(D, C))
      BY <2>3, <2>7, <3>1, CatAssociative
    <3>4. QED
      BY <2>5, <2>7, <3>2, <3>3
  <2>12. SubSeq(FlattenSeq(wbl), 1, k) = Cat(A, E)
    <3>1. /\ Cat(A, E) \in Seq(X) /\ Len(Cat(A, E)) = Len(A) + Len(E)
          /\ Cat(D, C) \in Seq(X)
      BY <2>3, <2>7, CatIs
    <3>2. Len(Cat(A, E)) = k
      BY <1>1, <2>6, <2>7, <3>1
    <3>3. PICK a, c : a = Cat(A, E) /\ c = Cat(D, C)
      OBVIOUS
    <3>4. k \in 0 .. Len(a) /\ a \in Seq(X) /\ c \in Seq(X) /\ k = Len(a)
      BY <1>1, <3>1, <3>2, <3>3
    <3>5. SubSeq(Cat(a, c), 1, k) = SubSeq(a, 1, k) /\ SubSeq(a, 1, Len(a)) = a
      BY <3>4, PrefixIs, SubSeqFull
    <3>6. QED
      BY <2>11, <3>3, <3>4, <3>5
  <2>13. Full(wbl) => Full(Dropped(wbl, k))
    <3>1. D # <<>>
      BY <2>6, <2>7
    <3>2. PICK d, c : d = Dropped(wbl, k) /\ c = From(wbl, n + 2)
      OBVIOUS
    <3>3. /\ d \in Seq(Seq(X)) /\ c \in Seq(Seq(X)) /\ Len(d) = 1 + Len(c)
          /\ \A i \in 1 .. 1 + Len(c) : d[i] = IF i <= 1 THEN D ELSE c[i - 1]
      <4>1. Len(<<D>>) = 1 /\ <<D>>[1] = D
        OBVIOUS
      <4>2. PICK q : q = <<D>>
        OBVIOUS
      <4>3. /\ Len(q \o c) = Len(q) + Len(c)
            /\ \A i \in 1 .. Len(q) + Len(c) :
                 (q \o c)[i] = IF i <= Len(q) THEN q[i] ELSE c[i - Len(q)]
        BY <2>2, <2>9, <3>2, <4>2, ConcatProperties
      <4>4. d = q \o c /\ Len(q) = 1 /\ q[1] = D
        BY <2>8, <3>2, <4>2
      <4>5. Len(c) \in Nat /\ c \in Seq(Seq(X))
        BY <2>2, <3>2
      <4>6. \A i \in 1 .. 1 + Len(c) : (i <= 1) <=> (i = 1)
        BY <4>5
      <4>7. QED
        BY <2>10, <3>2, <4>3, <4>4, <4>5, <4>6
    <3>4. Full(wbl) => Full(c)
      <4>1. /\ \A i \in 1 .. Len(wbl) - (n + 2) + 1 : c[i] = wbl[n + 2 + i - 1]
            /\ Len(c) = IF n + 2 <= Len(wbl) THEN Len(wbl) - (n + 2) + 1 ELSE 0
        <5>1. PICK p : p = n + 2
          OBVIOUS
        <5>2. p \in Int /\ Len(wbl) \in Int /\ \A i \in p .. Len(wbl) : wbl[i] \in Seq(X)
          <6>1. p \in Int /\ Len(wbl) \in Int /\ \A i \in p .. Len(wbl) : i \in 1 .. Len(wbl)
            BY <1>1, <1>4, <5>1
          <6>2. QED
            BY <6>1, ElementOfSeq
        <5>3. /\ \A i \in 1 .. Len(wbl) - p + 1 : SubSeq(wbl, p, Len(wbl))[i] = wbl[p + i - 1]
              /\ Len(SubSeq(wbl, p, Len(wbl))) = IF p <= Len(wbl) THEN Len(wbl) - p + 1 ELSE 0
          BY <5>2, SubSeqProperties
        <5>4. QED
          BY <3>2, <5>1, <5>3 DEF From
      <4>2. DOMAIN c = 1 .. Len(c) /\ DOMAIN wbl = 1 .. Len(wbl)
        BY <3>3
      <4>3. \A i \in 1 .. Len(c) : /\ i \in 1 .. Len(wbl) - (n + 2) + 1
                                   /\ n + 2 + i - 1 \in 1 .. Len(wbl)
        BY <1>1, <1>4, <4>1
      <4>4. QED
        BY <4>1, <4>2, <4>3 DEF Full
    <3>5. DOMAIN d = 1 .. 1 + Len(c) /\ DOMAIN c = 1 .. Len(c) /\ Len(c) \in Nat
      BY <3>3
    <3>6. Full(wbl) => \A i \in 1 .. 1 + Len(c) : d[i] # <<>>
      <4>1. \A i \in 1 .. 1 + Len(c) : i <= 1 \/ i - 1 \in 1 .. Len(c)
        BY <3>5
      <4>2. QED
        BY <3>1, <3>3, <3>4, <3>5, <4>1 DEF Full
    <3>7. QED
      BY <3>2, <3>5, <3>6 DEF Full
  <2>14. QED
    BY <2>10, <2>11, <2>12, <2>13
<1>8. QED
  BY <1>6, <1>7

-----------------------------------------------------------------------------
(* The units of a connection.                                              *)

Unit == Nat \X Nat

\* A write buffer list: no buffer of it is empty.
Lists == {wbl \in Seq(Seq(Unit)) : Full(wbl)}

Sock == [state : State, role : {"UNKNOW", "LISTENER", "CLIENT", "SERVER"}, id : Int,
         can_send : BOOLEAN, can_recv : BOOLEAN, recv_size : MinRecv..MaxRecv,
         wbl : Lists]

Net == [conn : {"none", "pending", "up", "failed", "listen"}, rx : Nat,
        fin : BOOLEAN, reset : BOOLEAN, room : 0..SndBuf, nospace : BOOLEAN,
        edge : BOOLEAN]

\* The units of the messages q, in order.
AllOf(q) == FlattenSeq([i \in DOMAIN q |-> Units(q[i])])

\* What a connection took and holds is what was sent on it.
Exact(s) ==
  /\ sock[s].state = "INVALID" => taken[s] = <<>> /\ queued[s] = <<>>
  /\ sock[s].state \notin {"INVALID", "ERROR"} /\ ~Vectored =>
       Cat(taken[s], FlattenSeq(sock[s].wbl)) = AllOf(queued[s])

DataTypes ==
  /\ sock \in [Slot -> Sock] /\ net \in [Slot -> Net]
  /\ taken \in [Slot -> Seq(Unit)] /\ queued \in [Slot -> Seq(Nat)]
  /\ sends \in Nat /\ step \in {"app", "serve", "crashed"}

DataInv == DataTypes /\ \A s \in Slot : Exact(s)

LEMMA UnitsIs ==
  ASSUME NEW m \in Nat
  PROVE  Units(m) \in Seq(Unit) /\ Len(Units(m)) = MsgLen /\ MsgLen \in Nat \ {0}
<1>1. MsgLen \in Nat \ {0}
  BY SocketServerAssumption
<1>2. \A i \in 1 .. MsgLen : <<m, i>> \in Unit
  BY <1>1 DEF Unit
<1>3. QED
  BY <1>1, <1>2 DEF Units

LEMMA EmptyListIs == <<>> \in Lists /\ FlattenSeq(<<>>) = <<>> /\ AllOf(<<>>) = <<>>
<1>1. <<>> \in Lists
  BY DEF Lists, Full
<1>2. [i \in DOMAIN <<>> |-> Units(<<>>[i])] = <<>>
  OBVIOUS
<1>3. QED
  BY <1>1, <1>2, FlattenEmpty DEF AllOf

\* A message more.
LEMMA AllOfMore ==
  ASSUME NEW q \in Seq(Nat), NEW m \in Nat
  PROVE  AllOf(q) \in Seq(Unit) /\ AllOf(Append(q, m)) = Cat(AllOf(q), Units(m))
<1> DEFINE us == [i \in DOMAIN q |-> Units(q[i])]
           more == [i \in DOMAIN Append(q, m) |-> Units(Append(q, m)[i])]
<1>1. /\ Len(q) \in Nat /\ DOMAIN q = 1 .. Len(q)
      /\ DOMAIN Append(q, m) = 1 .. Len(q) + 1
      /\ \A i \in 1 .. Len(q) : Append(q, m)[i] = q[i] /\ q[i] \in Nat
      /\ Append(q, m)[Len(q) + 1] = m
  BY AppendProperties, ElementOfSeq
<1>2. us \in Seq(Seq(Unit)) /\ Len(us) = Len(q)
  <2>1. us \in [1 .. Len(q) -> Seq(Unit)]
    BY <1>1, UnitsIs
  <2>2. QED
    BY <1>1, <2>1
<1>3. more = Append(us, Units(m))
  <2>1. more \in [1 .. Len(q) + 1 -> Seq(Unit)]
    <3>1. \A i \in 1 .. Len(q) + 1 : Append(q, m)[i] \in Nat
      BY <1>1
    <3>2. QED
      BY <1>1, <3>1, UnitsIs
  <2>2. more \in Seq(Seq(Unit)) /\ Len(more) = Len(q) + 1
    BY <1>1, <2>1
  <2>3. /\ Append(us, Units(m)) \in Seq(Seq(Unit))
        /\ Len(Append(us, Units(m))) = Len(q) + 1
        /\ \A i \in 1 .. Len(q) : Append(us, Units(m))[i] = us[i]
        /\ Append(us, Units(m))[Len(q) + 1] = Units(m)
    BY <1>2, UnitsIs, AppendProperties
  <2>4. \A i \in 1 .. Len(q) + 1 : more[i] = Append(us, Units(m))[i]
    <3>1. \A i \in 1 .. Len(q) + 1 : i = Len(q) + 1 \/ i \in 1 .. Len(q)
      BY <1>1
    <3>2. \A i \in 1 .. Len(q) : more[i] = Units(q[i]) /\ us[i] = Units(q[i])
      BY <1>1
    <3>3. more[Len(q) + 1] = Units(m)
      BY <1>1
    <3>4. QED
      BY <2>3, <3>1, <3>2, <3>3
  <2> HIDE DEF more, us
  <2>5. QED
    BY <2>2, <2>3, <2>4, SeqEqual
<1> HIDE DEF us, more
<1>4. FlattenSeq(Append(us, Units(m))) = Cat(FlattenSeq(us), Units(m))
  BY <1>2, UnitsIs, FlattenAppend DEF Cat
<1>5. FlattenSeq(us) \in Seq(Unit)
  BY <1>2, FlattenType
<1>6. QED
  BY <1>3, <1>4, <1>5 DEF AllOf, us, more

LEMMA ResetData ==
  /\ Reset \in Sock /\ Reset.state = "INVALID" /\ Reset.wbl = <<>>
  /\ NoNet \in Net /\ SndBuf \in 0 .. SndBuf
  /\ Up \in Net
<1>1. MinRecv \in MinRecv .. MaxRecv /\ 0 \in 0 .. SndBuf /\ SndBuf \in 0 .. SndBuf
  BY SocketServerAssumption
<1>2. "INVALID" \in State /\ -1 \in Int
  BY DEF State
<1>3. Reset \in Sock
  BY <1>1, <1>2, EmptyListIs DEF Reset, Sock
<1>4. NoNet \in Net
  BY <1>1 DEF NoNet, Net
<1>5. Up \in Net
  BY <1>1, <1>4 DEF Up, NoNet, Net
<1>6. QED
  BY <1>1, <1>3, <1>4, <1>5 DEF Reset

\* jetnet_ss_create.
LEMMA DataInit == Init => DataInv
<1> SUFFICES ASSUME Init
             PROVE  DataInv
  OBVIOUS
<1>1. DataTypes
  BY ResetData DEF Init, DataTypes
<1>2. \A s \in Slot : Exact(s)
  BY ResetData DEF Init, Exact
<1>3. QED
  BY <1>1, <1>2 DEF DataInv

\* Whatever the kernel and the peers do.
LEMMA DataWorld == DataInv /\ World => DataInv'
<1> SUFFICES ASSUME DataInv, World
             PROVE  DataInv'
  OBVIOUS
<1>1. PICK s \in Slot : \/ ConnectEnds(s) \/ PeerSends(s) \/ PeerCloses(s)
                        \/ PeerResets(s) \/ PeerAcks(s) \/ Dial(s)
  BY DEF World
<1>2. net[s] \in Net
  BY DEF DataInv, DataTypes
<1>3. SndBuf \in 0 .. SndBuf /\ net[s].rx + 1 \in Nat /\ net[s].edge \in BOOLEAN
      /\ net[s].nospace \in BOOLEAN
  BY <1>2, ResetData DEF Net
<1>4. \E n \in Net : net' = [net EXCEPT ![s] = n] /\ UNCHANGED <<sock, step, history, sends>>
  <2>1. CASE ConnectEnds(s)
    <3>1. /\ [net[s] EXCEPT !.conn = "up", !.room = SndBuf, !.edge = TRUE] \in Net
          /\ [net[s] EXCEPT !.conn = "failed", !.edge = TRUE] \in Net
      BY <1>2, <1>3 DEF Net
    <3>2. QED
      BY <2>1, <3>1 DEF ConnectEnds, Kernel, bounds
  <2>2. CASE PeerSends(s) \/ Dial(s)
    <3>1. [net[s] EXCEPT !.rx = net[s].rx + 1, !.edge = TRUE] \in Net
      BY <1>2, <1>3 DEF Net
    <3>2. QED
      BY <2>2, <3>1 DEF PeerSends, Dial, Kernel
  <2>3. CASE PeerCloses(s)
    <3>1. [net[s] EXCEPT !.fin = TRUE, !.edge = TRUE] \in Net
      BY <1>2 DEF Net
    <3>2. QED
      BY <2>3, <3>1 DEF PeerCloses, Kernel, bounds
  <2>4. CASE PeerResets(s)
    <3>1. [net[s] EXCEPT !.reset = TRUE, !.edge = TRUE] \in Net
      BY <1>2 DEF Net
    <3>2. QED
      BY <2>4, <3>1 DEF PeerResets, Kernel, bounds
  <2>5. CASE PeerAcks(s)
    <3>1. (net[s].edge \/ net[s].nospace) \in BOOLEAN
      BY <1>3
    <3>2. [net[s] EXCEPT !.room = SndBuf, !.nospace = FALSE,
                         !.edge = net[s].edge \/ net[s].nospace] \in Net
      BY <1>2, <1>3, <3>1 DEF Net
    <3>3. QED
      BY <2>5, <3>2 DEF PeerAcks, Kernel, bounds
  <2>6. QED
    BY <1>1, <2>1, <2>2, <2>3, <2>4, <2>5
<1>5. DataTypes'
  BY <1>4 DEF DataInv, DataTypes, history
<1>6. \A r \in Slot : Exact(r)'
  BY <1>4 DEF DataInv, Exact, history
<1>7. QED
  BY <1>5, <1>6 DEF DataInv, Slot

\* Slots that are closed by force.
LEMMA ForceClosedData ==
  ASSUME DataInv, NEW S \in SUBSET Slot, ForceClosed(S),
         sends' \in Nat, step' \in {"app", "serve", "crashed"}
  PROVE  DataInv'
<1>1. DataTypes'
  BY ResetData DEF DataInv, DataTypes, ForceClosed
<1>2. \A s \in S : Exact(s)'
  BY ResetData DEF Exact, ForceClosed
<1>3. \A s \in Slot \ S : Exact(s)'
  BY DEF DataInv, Exact, ForceClosed
<1>4. QED
  BY <1>1, <1>2, <1>3 DEF DataInv, Slot

\* A step that leaves the units of every connection alone.
LEMMA SameData ==
  ASSUME DataInv, UNCHANGED <<sock, taken, queued>>, net' \in [Slot -> Net],
         sends' \in Nat, step' \in {"app", "serve", "crashed"}
  PROVE  DataInv'
<1>1. DataTypes'
  BY DEF DataInv, DataTypes
<1>2. \A s \in Slot : Exact(s)'
  BY DEF DataInv, Exact
<1>3. QED
  BY <1>1, <1>2 DEF DataInv, Slot

\* A socket that keeps its units, or breaks.
LEMMA MovedData ==
  ASSUME DataInv, NEW t \in Slot, NEW r \in Sock, sock' = [sock EXCEPT ![t] = r],
         r.state = "INVALID" => sock[t].state = "INVALID",
         r.state \notin {"INVALID", "ERROR"} =>
           sock[t].state \notin {"INVALID", "ERROR"} /\ r.wbl = sock[t].wbl,
         net' \in [Slot -> Net], UNCHANGED <<taken, queued>>,
         sends' \in Nat, step' \in {"app", "serve", "crashed"}
  PROVE  DataInv'
<1>1. sock'[t] = r /\ \A s \in Slot : s # t => sock'[s] = sock[s]
  BY DEF DataInv, DataTypes
<1>2. DataTypes'
  BY DEF DataInv, DataTypes
<1>3. Exact(t)'
  BY <1>1 DEF DataInv, Exact
<1>4. \A s \in Slot : s # t => Exact(s)'
  BY <1>1 DEF DataInv, Exact
<1>5. QED
  BY <1>2, <1>3, <1>4 DEF DataInv, Slot

\* A socket of a new id: nothing was sent on it.
LEMMA BegunData ==
  ASSUME ServerInv, DataInv, FreeIds # {},
         NEW st \in State, st # "INVALID", NEW role \in {"LISTENER", "CLIENT", "SERVER"},
         NEW canSend \in BOOLEAN,
         sock' = [sock EXCEPT ![SlotOf(NewId)] =
                    [Reset EXCEPT !.id = NewId, !.state = st, !.role = role,
                                  !.can_send = canSend]],
         net' \in [Slot -> Net], UNCHANGED <<taken, queued>>,
         sends' \in Nat, step' \in {"app", "serve", "crashed"}
  PROVE  DataInv'
<1>1. PICK t \in Slot : t = SlotOf(NewId) /\ sock[t].state = "INVALID"
  BY NewIdIs DEF ServerInv
<1>2. NewId \in Int
  BY NewIdIs DEF ServerInv
<1> DEFINE r == [Reset EXCEPT !.id = NewId, !.state = st, !.role = role,
                              !.can_send = canSend]
<1>3. r \in Sock /\ r.wbl = <<>> /\ r.state = st
  BY <1>2, ResetData DEF Sock
<1> HIDE DEF r
<1>4. sock' = [sock EXCEPT ![t] = r]
  BY <1>1 DEF r
<1>5. sock'[t] = r /\ \A s \in Slot : s # t => sock'[s] = sock[s]
  BY <1>4 DEF DataInv, DataTypes
<1>6. DataTypes'
  BY <1>3, <1>4 DEF DataInv, DataTypes
<1>7. Exact(t)'
  <2>1. taken'[t] = <<>> /\ queued'[t] = <<>>
    BY <1>1 DEF DataInv, Exact
  <2>2. Cat(<<>>, <<>>) = <<>>
    BY EmptySeq, CatEmpty
  <2>3. QED
    BY <1>3, <1>5, <2>1, <2>2, EmptyListIs DEF Exact
<1>8. \A s \in Slot : s # t => Exact(s)'
  BY <1>5 DEF DataInv, Exact
<1>9. QED
  BY <1>6, <1>7, <1>8 DEF DataInv, Slot

\* An id is given out, and no socket made.
LEMMA NotBegunData ==
  ASSUME ServerInv, DataInv, FreeIds # {},
         sock' = [sock EXCEPT ![SlotOf(NewId)].id = NewId],
         net' \in [Slot -> Net], UNCHANGED <<taken, queued>>,
         sends' \in Nat, step' \in {"app", "serve", "crashed"}
  PROVE  DataInv'
<1>1. PICK t \in Slot : t = SlotOf(NewId) /\ sock[t].state = "INVALID"
  BY NewIdIs DEF ServerInv
<1>2. NewId \in Int
  BY NewIdIs DEF ServerInv
<1> DEFINE r == [sock[t] EXCEPT !.id = NewId]
<1>3. r \in Sock /\ r.state = "INVALID"
  BY <1>1, <1>2 DEF Sock, DataInv, DataTypes
<1>4. sock' = [sock EXCEPT ![t] = r]
  BY <1>1
<1> HIDE DEF r
<1>5. QED
  BY <1>1, <1>3, <1>4, MovedData

\* jetnet_tcp_listen and jetnet_tcp_connect.
LEMMA OpenData == ServerInv /\ DataInv /\ (Listen \/ Connect \/ OpenFull) => DataInv'
<1> SUFFICES ASSUME ServerInv, DataInv, Listen \/ Connect \/ OpenFull
             PROVE  DataInv'
  OBVIOUS
<1>1. /\ UNCHANGED <<taken, queued>> /\ sends' \in Nat
      /\ step' \in {"app", "serve", "crashed"} /\ net \in [Slot -> Net]
  BY DEF Listen, Connect, OpenFull, Opening, Idle, bounds, history, DataInv, DataTypes
<1>2. CASE OpenFull
  <2>1. UNCHANGED <<sock, net>>
    BY <1>2 DEF OpenFull
  <2>2. QED
    BY <1>1, <2>1, SameData
<1>3. CASE FreeIds # {} /\ Spent(NewId)
  <2>1. sock' = [sock EXCEPT ![SlotOf(NewId)].id = NewId] /\ UNCHANGED net
    BY <1>3 DEF Spent
  <2>2. QED
    BY <1>1, <1>3, <2>1, NotBegunData
<1>4. ASSUME NEW st \in State, st # "INVALID", NEW role \in {"LISTENER", "CLIENT"},
             NEW canSend \in BOOLEAN, NEW kernel \in Net, FreeIds # {},
             NewSocket(NewId, st, role, canSend, kernel)
      PROVE  DataInv'
  <2>1. SlotOf(NewId) \in Slot
    BY <1>4, NewIdIs DEF ServerInv
  <2>2. net' \in [Slot -> Net]
    BY <1>1, <1>4, <2>1 DEF NewSocket
  <2>3. sock' = [sock EXCEPT ![SlotOf(NewId)] =
                   [Reset EXCEPT !.id = NewId, !.state = st, !.role = role,
                                 !.can_send = canSend]]
    BY <1>4 DEF NewSocket
  <2>4. QED
    BY <1>1, <1>4, <2>2, <2>3, BegunData
<1> DEFINE listen == [NoNet EXCEPT !.conn = "listen"]
           pending == [NoNet EXCEPT !.conn = "pending"]
<1>5. listen \in Net /\ pending \in Net /\ Up \in Net
  BY ResetData DEF Net
<1>6. {"LISTENING", "CONNECTED", "CONNECTING"} \subseteq State \ {"INVALID"}
  BY DEF State
<1>7. CASE Listen \/ Connect
  <2>1. /\ FreeIds # {}
        /\ \/ NewSocket(NewId, "LISTENING", "LISTENER", FALSE, listen)
           \/ NewSocket(NewId, "CONNECTED", "CLIENT", TRUE, Up)
           \/ NewSocket(NewId, "CONNECTING", "CLIENT", FALSE, pending)
           \/ Spent(NewId)
    BY <1>7 DEF Listen, Connect, Opening
  <2> HIDE DEF listen, pending
  <2>2. NewSocket(NewId, "LISTENING", "LISTENER", FALSE, listen) => DataInv'
    BY <1>4, <1>5, <1>6, <2>1
  <2>3. NewSocket(NewId, "CONNECTED", "CLIENT", TRUE, Up) => DataInv'
    BY <1>4, <1>5, <1>6, <2>1
  <2>4. NewSocket(NewId, "CONNECTING", "CLIENT", FALSE, pending) => DataInv'
    BY <1>4, <1>5, <1>6, <2>1
  <2>5. QED
    BY <1>3, <2>1, <2>2, <2>3, <2>4
<1>8. QED
  BY <1>2, <1>7

\* jetnet_close_socket.
LEMMA CloseData ==
  ASSUME DataInv, NEW id \in Nat, Close(id)
  PROVE  DataInv'
<1>1. PICK s \in Slot : s = SlotOf(id)
  BY SlotIs
<1>2. sends' \in Nat /\ step' \in {"app", "serve", "crashed"}
  BY DEF Close, Idle, bounds, DataInv, DataTypes
<1>3. CASE ForceClosed({s})
  BY <1>2, <1>3, ForceClosedData
<1>4. CASE /\ sock[s].state = "CONNECTED"
           /\ sock' = [sock EXCEPT ![s].state = "CLOSING"]
           /\ UNCHANGED <<net, taken, queued>>
  <2> DEFINE r == [sock[s] EXCEPT !.state = "CLOSING"]
  <2>1. r \in Sock /\ r.state = "CLOSING" /\ r.wbl = sock[s].wbl
    BY DEF DataInv, DataTypes, Sock, State
  <2>2. sock' = [sock EXCEPT ![s] = r]
    BY <1>4
  <2>3. net' \in [Slot -> Net]
    BY <1>4 DEF DataInv, DataTypes
  <2> HIDE DEF r
  <2>4. QED
    BY <1>2, <1>4, <2>1, <2>2, <2>3, MovedData
<1>5. QED
  BY <1>1, <1>3, <1>4 DEF Close

\* What the kernel takes of some units, and the connection after it.
LEMMA SentIs ==
  ASSUME DataInv, NEW s \in Slot, NEW units \in Seq(Unit)
  PROVE  Sent(s, units) \in 0 .. Len(units) /\ AfterSent(s, units) \in Net
<1>1. net[s] \in Net /\ Len(units) \in Nat /\ SndBuf \in Nat
  BY SocketServerAssumption DEF DataInv, DataTypes
<1>2. net[s].room \in 0 .. SndBuf /\ net[s].nospace \in BOOLEAN
  BY <1>1 DEF Net
<1>3. /\ Sent(s, units) \in 0 .. Len(units)
      /\ net[s].room - Sent(s, units) \in 0 .. SndBuf
  BY <1>1, <1>2 DEF Sent, Least
<1>4. PICK room \in 0 .. SndBuf, b \in BOOLEAN :
        /\ room = net[s].room - Sent(s, units)
        /\ b = (net[s].nospace \/ Sent(s, units) # Len(units))
  BY <1>2, <1>3
<1>5. [net[s] EXCEPT !.room = room, !.nospace = b] \in Net
  BY <1>1 DEF Net
<1>6. QED
  BY <1>3, <1>4, <1>5 DEF AfterSent

\* jetnet_tcp_send and jetnet_tcp_sendv.
LEMMA SendData ==
  ASSUME DataInv, NEW id \in Nat,
         SendLater(id) \/ SendNow(id) \/ SendError(id) \/ SendKilled(id)
  PROVE  DataInv'
<1>1. PICK s \in Slot : s = SlotOf(id)
  BY SlotIs
<1>2. /\ sock[s] \in Sock /\ net \in [Slot -> Net] /\ sends \in Nat
      /\ sock[s].wbl \in Seq(Seq(Unit)) /\ Full(sock[s].wbl)
      /\ taken[s] \in Seq(Unit) /\ queued[s] \in Seq(Nat)
  BY DEF DataInv, DataTypes, Sock, Lists
<1>3. CASE SendKilled(id)
  BY <1>2, <1>3, SameData DEF SendKilled, history, bounds
<1>4. CASE SendError(id)
  <2> DEFINE r == [sock[s] EXCEPT !.state = "ERROR"]
  <2>1. r \in Sock /\ r.state = "ERROR"
    BY <1>2 DEF Sock, State
  <2>2. /\ sock' = [sock EXCEPT ![s] = r] /\ UNCHANGED <<net, taken, queued>>
        /\ sends' \in Nat /\ step' \in {"app", "serve", "crashed"}
    BY <1>1, <1>2, <1>4 DEF SendError, Direct, Sending, Idle
  <2> HIDE DEF r
  <2>3. QED
    BY <1>2, <2>1, <2>2, MovedData
<1> DEFINE m == sends + 1
           U == Units(m)
<1>5. m \in Nat /\ U \in Seq(Unit) /\ Len(U) = MsgLen /\ MsgLen \in Nat \ {0}
  BY <1>2, UnitsIs
<1>6. CASE SendLater(id) \/ SendNow(id)
  <2>1. /\ sock[s].state \in {"CONNECTED", "CONNECTING"} /\ sends' \in Nat
        /\ step' \in {"app", "serve", "crashed"}
        /\ queued' = [queued EXCEPT ![s] = Append(queued[s], m)]
    <3>1. Sending(id) /\ Queued(s)
      <4>1. CASE SendLater(id)
        BY <1>1, <4>1 DEF SendLater
      <4>2. CASE SendNow(id)
        BY <1>1, <4>2 DEF SendNow, Direct
      <4>3. QED
        BY <1>6, <4>1, <4>2
    <3>2. sends' = sends + 1 /\ step' = "app" /\ sock[s].state \in {"CONNECTED", "CONNECTING"}
      BY <1>1, <3>1 DEF Sending, Idle, Accepts
    <3>3. QED
      BY <1>2, <3>1, <3>2 DEF Queued
  <2> HIDE DEF m, U
  <2>2. /\ queued' \in [Slot -> Seq(Nat)] /\ AllOf(queued'[s]) = Cat(AllOf(queued[s]), U)
        /\ \A t \in Slot : t # s => queued'[t] = queued[t]
    <3>1. queued \in [Slot -> Seq(Nat)]
      BY DEF DataInv, DataTypes
    <3>2. Append(queued[s], m) \in Seq(Nat)
      BY <1>2, <1>5, AppendProperties
    <3>3. queued'[s] = Append(queued[s], m)
      BY <2>1, <3>1
    <3>4. QED
      BY <1>2, <1>5, <2>1, <3>1, <3>2, <3>3, AllOfMore DEF U
  <2>3. ~Vectored => Cat(taken[s], FlattenSeq(sock[s].wbl)) = AllOf(queued[s])
    BY <2>1 DEF DataInv, Exact
  <2>4. ASSUME NEW r \in Sock, r.state = sock[s].state, sock' = [sock EXCEPT ![s] = r],
               net' \in [Slot -> Net], NEW tk \in Seq(Unit), taken' = [taken EXCEPT ![s] = tk],
               ~Vectored => Cat(tk, FlattenSeq(r.wbl)) = AllOf(queued'[s])
        PROVE  DataInv'
    <3>1. /\ sock'[s] = r /\ \A t \in Slot : t # s => sock'[t] = sock[t]
          /\ taken'[s] = tk /\ \A t \in Slot : t # s => taken'[t] = taken[t]
      BY <2>4 DEF DataInv, DataTypes
    <3>2. DataTypes'
      BY <2>1, <2>2, <2>4 DEF DataInv, DataTypes
    <3>3. Exact(s)'
      BY <2>1, <2>4, <3>1 DEF Exact
    <3>4. \A t \in Slot : t # s => Exact(t)'
      BY <2>2, <3>1 DEF DataInv, Exact
    <3>5. QED
      BY <3>2, <3>3, <3>4 DEF DataInv, Slot
  <2>5. CASE SendLater(id)
    <3> DEFINE w == Append(sock[s].wbl, U)
               r == [sock[s] EXCEPT !.wbl = w]
    <3>1. w \in Seq(Seq(Unit)) /\ FlattenSeq(w) = Cat(FlattenSeq(sock[s].wbl), U)
      BY <1>2, <1>5, FlattenAppend, AppendProperties, SMTT(30) DEF Cat
    <3>2. Full(w)
      <4>1. U # <<>>
        BY <1>5
      <4>2. PICK l : l = sock[s].wbl
        OBVIOUS
      <4>3. /\ DOMAIN Append(l, U) = 1 .. Len(l) + 1 /\ DOMAIN l = 1 .. Len(l)
            /\ Len(l) \in Nat
            /\ \A i \in 1 .. Len(l) : Append(l, U)[i] = l[i]
            /\ Append(l, U)[Len(l) + 1] = U
        BY <1>2, <1>5, <4>2, AppendProperties
      <4>4. \A i \in 1 .. Len(l) + 1 : i = Len(l) + 1 \/ i \in 1 .. Len(l)
        BY <4>3
      <4>5. QED
        BY <1>2, <4>1, <4>2, <4>3, <4>4 DEF Full
    <3>3. w \in Lists
      BY <3>1, <3>2 DEF Lists
    <3> HIDE DEF w
    <3>4. r \in Sock /\ r.state = sock[s].state /\ r.wbl = w
      BY <1>2, <3>3 DEF Sock
    <3>5. /\ sock' = [sock EXCEPT ![s] = r] /\ UNCHANGED <<net, taken>>
      BY <1>1, <2>5 DEF SendLater, w, U, m
    <3> HIDE DEF r
    <3>6. taken' = [taken EXCEPT ![s] = taken[s]]
      BY <3>5 DEF DataInv, DataTypes
    <3>7. ~Vectored => Cat(taken[s], FlattenSeq(w)) = AllOf(queued'[s])
      <4>1. FlattenSeq(sock[s].wbl) \in Seq(Unit)
        BY <1>2, FlattenType
      <4>2. Cat(Cat(taken[s], FlattenSeq(sock[s].wbl)), U)
              = Cat(taken[s], Cat(FlattenSeq(sock[s].wbl), U))
        BY <1>2, <1>5, <4>1, CatAssociative
      <4>3. QED
        BY <2>2, <2>3, <3>1, <4>2
    <3>8. QED
      BY <1>2, <2>4, <3>4, <3>5, <3>6, <3>7
  <2>6. CASE SendNow(id)
    <3> DEFINE k == Sent(s, U)
               w == IF k < MsgLen THEN <<Unsent(s, m)>> ELSE <<>>
               r == [sock[s] EXCEPT !.can_send = ~(k < MsgLen), !.wbl = w]
               P == SubSeq(U, 1, k)
               Q == SubSeq(U, k + 1, Len(U))
    <3>1. k \in 0 .. Len(U) /\ AfterSent(s, U) \in Net
      BY <1>5, SentIs
    <3>2. P \in Seq(Unit) /\ Q \in Seq(Unit) /\ U = Cat(P, Q) /\ Len(Q) = Len(U) - k
      <4> HIDE DEF k
      <4>1. QED
        BY <1>5, <3>1, CutIs
    <3>3. /\ k < MsgLen => Unsent(s, m) \in Seq(Unit) /\ Unsent(s, m) # <<>>
          /\ ~Vectored => Unsent(s, m) = Q
      <4>1. Unsent(s, m) = IF Vectored THEN U ELSE Q
        BY <1>5 DEF Unsent, U
      <4> HIDE DEF Q, k
      <4>2. U # <<>> /\ (k < MsgLen => Q # <<>>)
        BY <1>5, <3>1, <3>2
      <4>3. QED
        BY <1>5, <3>2, <4>1, <4>2
    <3>4. w \in Lists /\ (~Vectored => FlattenSeq(w) = Q)
      <4>1. CASE k < MsgLen
        <5>1. PICK q : q = Unsent(s, m)
          OBVIOUS
        <5>2. q \in Seq(Unit) /\ q # <<>> /\ w = <<q>> /\ (~Vectored => q = Q)
          BY <3>3, <4>1, <5>1
        <5>3. <<q>> \in Seq(Seq(Unit)) /\ Full(<<q>>)
          BY <5>2 DEF Full
        <5>4. FlattenSeq(<<q>>) = q
          BY <5>2, FlattenOne
        <5>5. QED
          BY <5>2, <5>3, <5>4 DEF Lists
      <4>2. CASE ~(k < MsgLen)
        <5>1. Len(Q) = 0 /\ w = <<>>
          BY <1>5, <3>1, <3>2, <4>2
        <5>2. Q = <<>>
          BY <3>2, <5>1, EmptySeq
        <5>3. QED
          BY <5>1, <5>2, EmptyListIs
      <4>3. QED
        BY <4>1, <4>2
    <3>5. /\ sock[s].wbl = <<>>
          /\ sock' = [sock EXCEPT ![s].can_send = ~(k < MsgLen), ![s].wbl = w]
          /\ net' = [net EXCEPT ![s] = AfterSent(s, U)]
          /\ taken' = [taken EXCEPT ![s] = taken[s] \o P]
      BY <1>1, <2>6 DEF SendNow, Direct, U, m
    <3> HIDE DEF w, k
    <3>6. sock' = [sock EXCEPT ![s] = r]
      BY <3>5 DEF DataInv, DataTypes
    <3>7. r \in Sock /\ r.state = sock[s].state /\ r.wbl = w
      BY <1>2, <3>4 DEF Sock
    <3>8. net' \in [Slot -> Net]
      BY <1>2, <3>1, <3>5
    <3> HIDE DEF r, P, Q
    <3>9. Cat(taken[s], P) \in Seq(Unit) /\ taken' = [taken EXCEPT ![s] = Cat(taken[s], P)]
      BY <1>2, <3>2, <3>5, CatIs DEF Cat
    <3>10. ~Vectored => Cat(Cat(taken[s], P), FlattenSeq(w)) = AllOf(queued'[s])
      <4>1. Cat(Cat(taken[s], P), Q) = Cat(taken[s], Cat(P, Q))
        BY <1>2, <3>2, CatAssociative
      <4>2. Cat(taken[s], <<>>) = taken[s]
        BY <1>2, CatEmpty
      <4>3. QED
        BY <2>2, <2>3, <3>2, <3>4, <3>5, <4>1, <4>2, EmptyListIs
    <3>11. QED
      BY <2>4, <3>6, <3>7, <3>8, <3>9, <3>10
  <2>7. QED
    BY <1>6, <2>5, <2>6
<1>7. QED
  BY <1>3, <1>4, <1>6

\* epoll moves the flags of a socket only.
LEMMA WokenData ==
  ASSUME DataInv, NEW s \in Slot
  PROVE  /\ Woken(s) \in Sock /\ Woken(s).state = sock[s].state
         /\ Woken(s).wbl = sock[s].wbl
<1>1. sock[s] \in Sock
  BY DEF DataInv, DataTypes
<1>2. sock[s].can_recv \in BOOLEAN /\ sock[s].can_send \in BOOLEAN
  BY <1>1 DEF Sock
<1>3. PICK a \in BOOLEAN, b \in BOOLEAN :
        /\ a = (sock[s].can_recv \/ In(s) \/ Err(s))
        /\ b = (sock[s].can_send \/ Out(s) \/ (Err(s) /\ sock[s].role # "LISTENER"))
  BY <1>2
<1>4. Woken(s) = [sock[s] EXCEPT !.can_recv = a, !.can_send = b]
  BY <1>3 DEF Woken
<1>5. QED
  BY <1>1, <1>4 DEF Sock

\* A poll frees what is in close_list, then may wait on epoll.
LEMMA PollData == ServerInv /\ DataInv /\ PollEnter => DataInv'
<1> SUFFICES ASSUME ServerInv, DataInv, PollEnter
             PROVE  DataInv'
  OBVIOUS
<1> DEFINE ready == {s \in Slot \ Range(closing) : net[s].edge /\ (In(s) \/ Out(s))}
           kept == DelistedAll(active, Range(closing))
<1>1. Range(closing) \in SUBSET Slot /\ sends' \in Nat /\ step' = "serve"
  BY DEF ServerInv, Shapes, Range, PollEnter, bounds, DataInv, DataTypes
<1>2. CASE ~RoundOver(kept)
  <2>1. ForceClosed(Range(closing))
    BY <1>2 DEF PollEnter
  <2>2. QED
    BY <1>1, <2>1, ForceClosedData
<1>3. CASE RoundOver(kept)
  <2>1. PICK q \in Returns(ready) :
          /\ sock' = [s \in Slot |-> IF s \in Range(closing) THEN Reset
                                     ELSE IF s \in Range(q) THEN Woken(s) ELSE sock[s]]
          /\ net' = [s \in Slot |-> IF s \in Range(closing) THEN NoNet
                       ELSE [net[s] EXCEPT !.edge = s \in ready /\ ~(s \in Range(q))]]
          /\ taken' = [s \in Slot |-> IF s \in Range(closing) THEN <<>> ELSE taken[s]]
          /\ queued' = [s \in Slot |-> IF s \in Range(closing) THEN <<>> ELSE queued[s]]
    BY <1>3 DEF PollEnter
  <2> HIDE DEF ready
  <2>2. \A s \in Slot : [net[s] EXCEPT !.edge = s \in ready /\ ~(s \in Range(q))] \in Net
    <3> SUFFICES ASSUME NEW s \in Slot
                 PROVE  [net[s] EXCEPT !.edge = s \in ready /\ ~(s \in Range(q))] \in Net
      OBVIOUS
    <3>1. net[s] \in Net /\ (s \in ready /\ ~(s \in Range(q))) \in BOOLEAN
      BY DEF DataInv, DataTypes
    <3>2. QED
      BY <3>1 DEF Net
  <2>3. DataTypes'
    <3>1. sock' \in [Slot -> Sock]
      BY <2>1, ResetData, WokenData DEF DataInv, DataTypes
    <3>2. net' \in [Slot -> Net]
      BY <2>1, <2>2, ResetData
    <3>3. taken' \in [Slot -> Seq(Unit)] /\ queued' \in [Slot -> Seq(Nat)]
      <4>1. <<>> \in Seq(Unit) /\ <<>> \in Seq(Nat)
        BY EmptySeq
      <4>2. QED
        BY <2>1, <4>1 DEF DataInv, DataTypes
    <3>4. QED
      BY <1>1, <3>1, <3>2, <3>3 DEF DataTypes, Slot
  <2>4. \A s \in Range(closing) : Exact(s)'
    BY <1>1, <2>1, ResetData DEF Exact
  <2>5. \A s \in Slot \ Range(closing) : Exact(s)'
    <3> SUFFICES ASSUME NEW s \in Slot \ Range(closing)
                 PROVE  Exact(s)'
      OBVIOUS
    <3>1. /\ sock'[s].state = sock[s].state /\ sock'[s].wbl = sock[s].wbl
          /\ taken'[s] = taken[s] /\ queued'[s] = queued[s]
      BY <2>1, WokenData
    <3>2. QED
      BY <3>1 DEF DataInv, Exact
  <2>6. QED
    BY <2>3, <2>4, <2>5 DEF DataInv, Slot
<1>4. QED
  BY <1>2, <1>3

\* A listener served, whatever accept answers.
LEMMA ListenerData ==
  ASSUME ServerInv, DataInv, NEW s \in Slot,
         \/ AcceptRefused(s) \/ AcceptNone(s) \/ AcceptFails(s)
         \/ AcceptDrops(s) \/ Accept(s)
  PROVE  DataInv'
<1>1. /\ sends' \in Nat /\ step' \in {"app", "serve", "crashed"}
      /\ UNCHANGED <<taken, queued>> /\ net \in [Slot -> Net]
      /\ sock[s] \in Sock /\ net[s] \in Net /\ sock[s].state = "LISTENING"
  BY DEF AcceptRefused, AcceptNone, AcceptFails, AcceptDrops, Accept, Accepting,
         Serving, Returned, DataInv, DataTypes
<1>2. CASE AcceptRefused(s)
  BY <1>1, <1>2, SameData DEF AcceptRefused
<1>3. CASE AcceptNone(s)
  <2> DEFINE r == [sock[s] EXCEPT !.can_recv = FALSE]
  <2>1. r \in Sock /\ r.state = sock[s].state /\ r.wbl = sock[s].wbl
    BY <1>1 DEF Sock
  <2>2. sock' = [sock EXCEPT ![s] = r] /\ UNCHANGED net
    BY <1>3 DEF AcceptNone
  <2> HIDE DEF r
  <2>3. QED
    BY <1>1, <2>1, <2>2, MovedData
<1>4. CASE AcceptFails(s)
  <2> DEFINE r == [sock[s] EXCEPT !.state = "ERROR"]
  <2>1. r \in Sock /\ r.state = "ERROR"
    BY <1>1 DEF Sock, State
  <2>2. sock' = [sock EXCEPT ![s] = r] /\ UNCHANGED net
    BY <1>4 DEF AcceptFails
  <2> HIDE DEF r
  <2>3. QED
    BY <1>1, <2>1, <2>2, MovedData
<1>5. ASSUME net[s].rx > 0
      PROVE  [net[s] EXCEPT !.rx = net[s].rx - 1] \in Net
  <2>1. net[s].rx - 1 \in Nat
    BY <1>1, <1>5 DEF Net
  <2>2. QED
    BY <1>1, <2>1 DEF Net
<1>6. CASE AcceptDrops(s)
  <2>1. net' \in [Slot -> Net]
    <3>1. net' = [net EXCEPT ![s] = [net[s] EXCEPT !.rx = net[s].rx - 1]] /\ net[s].rx > 0
      BY <1>1, <1>6 DEF AcceptDrops, Accepting
    <3>2. QED
      BY <1>1, <1>5, <3>1
  <2>2. \/ UNCHANGED sock
        \/ FreeIds # {} /\ sock' = [sock EXCEPT ![SlotOf(NewId)].id = NewId]
    BY <1>6 DEF AcceptDrops
  <2>3. QED
    BY <1>1, <2>1, <2>2, SameData, NotBegunData
<1>7. CASE Accept(s)
  <2>1. /\ FreeIds # {} /\ net[s].rx > 0
        /\ sock' = [sock EXCEPT ![SlotOf(NewId)] =
                      [Reset EXCEPT !.id = NewId, !.state = "CONNECTED",
                                    !.role = "SERVER", !.can_send = TRUE]]
        /\ net' = [net EXCEPT ![s].rx = @ - 1, ![SlotOf(NewId)] = Up]
    BY <1>7 DEF Accept, Accepting
  <2>2. PICK t \in Slot : t = SlotOf(NewId) /\ sock[t].state = "INVALID"
    BY <2>1, NewIdIs DEF ServerInv
  <2>3. s # t
    BY <1>1, <2>2
  <2>4. net' = [net EXCEPT ![s] = [net[s] EXCEPT !.rx = net[s].rx - 1], ![t] = Up]
    BY <1>1, <2>1, <2>2
  <2>5. net' \in [Slot -> Net]
    <3>1. PICK n \in Net : n = [net[s] EXCEPT !.rx = net[s].rx - 1]
      BY <1>5, <2>1
    <3>2. net' = [net EXCEPT ![s] = n, ![t] = Up]
      BY <2>4, <3>1
    <3>3. QED
      BY <1>1, <3>2, ResetData
  <2>6. "CONNECTED" \in State /\ "CONNECTED" # "INVALID"
    BY DEF State
  <2>7. QED
    BY <1>1, <2>1, <2>5, <2>6, BegunData
<1>8. QED
  BY <1>2, <1>3, <1>4, <1>6, <1>7

\* A socket that connects, or that breaks without a write.
LEMMA BreakData ==
  ASSUME DataInv, NEW s \in Slot,
         ServeError(s) \/ ServeConnector(s) \/ StreamEnds(s) \/ ServeKilled(s)
  PROVE  DataInv'
<1>1. /\ sends' \in Nat /\ step' \in {"app", "serve", "crashed"}
      /\ UNCHANGED <<taken, queued>> /\ net' \in [Slot -> Net] /\ sock[s] \in Sock
  BY DEF ServeError, ServeConnector, StreamEnds, ServeKilled, Serving, Returned,
         history, DataInv, DataTypes
<1>2. CASE UNCHANGED sock
  BY <1>1, <1>2, SameData
<1>3. ASSUME NEW st \in {"ERROR", "CONNECTED"},
             st = "CONNECTED" => sock[s].state = "CONNECTING",
             sock' = [sock EXCEPT ![s].state = st]
      PROVE  DataInv'
  <2> DEFINE r == [sock[s] EXCEPT !.state = st]
  <2>1. r \in Sock /\ r.state = st /\ r.wbl = sock[s].wbl
    BY <1>1 DEF Sock, State
  <2>2. sock' = [sock EXCEPT ![s] = r]
    BY <1>3
  <2> HIDE DEF r
  <2>3. QED
    BY <1>1, <1>3, <2>1, <2>2, MovedData
<1>4. \/ UNCHANGED sock
      \/ sock' = [sock EXCEPT ![s].state = "ERROR"]
      \/ sock[s].state = "CONNECTING" /\ sock' = [sock EXCEPT ![s].state = "CONNECTED"]
  BY DEF ServeError, ServeConnector, StreamEnds, ServeKilled
<1>5. QED
  BY <1>2, <1>3, <1>4

\* A read of a unit or more leaves the read size within its bounds.
LEMMA ReadData ==
  ASSUME DataInv, NEW s \in Slot
  PROVE  /\ net[s].rx - ReadCount(s) \in Nat
         /\ NextRecvSize(sock[s].recv_size, ReadCount(s)) \in MinRecv .. MaxRecv
<1>1. net[s].rx \in Nat /\ sock[s].recv_size \in MinRecv .. MaxRecv
  BY DEF DataInv, DataTypes, Sock, Net
<1>2. MinRecv \in Nat /\ MaxRecv \in Nat /\ MinRecv <= MaxRecv
  BY SocketServerAssumption
<1>3. ReadCount(s) \in Nat /\ net[s].rx - ReadCount(s) \in Nat
  BY <1>1, <1>2 DEF ReadCount, Least
<1>4. ASSUME NEW size \in MinRecv .. MaxRecv, NEW got \in Nat
      PROVE  NextRecvSize(size, got) \in MinRecv .. MaxRecv
  <2>1. Least(2 * size, MaxRecv) \in MinRecv .. MaxRecv
    BY <1>2 DEF Least
  <2>2. size \div 2 \in Nat /\ size \div 2 <= size
    BY <1>2
  <2>3. PICK h \in Nat : h = size \div 2 /\ h <= size
    BY <2>2
  <2>4. Max({MinRecv, h}) \in {MinRecv, h} /\ Max({MinRecv, h}) >= MinRecv
    <3>1. \E x \in {MinRecv, h} : \A y \in {MinRecv, h} : x >= y
      BY <1>2, <2>3
    <3>2. /\ Max({MinRecv, h}) \in {MinRecv, h}
          /\ \A y \in {MinRecv, h} : Max({MinRecv, h}) >= y
      BY <3>1 DEF Max
    <3>3. QED
      BY <3>2
  <2>5. Max({MinRecv, size \div 2}) \in MinRecv .. MaxRecv
    BY <1>2, <2>3, <2>4
  <2>6. QED
    BY <2>1, <2>5 DEF NextRecvSize
<1>5. QED
  BY <1>1, <1>3, <1>4

\* The units that a write took are the first of the list.
LEMMA TookIs ==
  ASSUME DataInv, NEW s \in Slot
  PROVE  /\ Batch(s) \in Seq(Unit) /\ Took(s) \in 0 .. Len(Batch(s))
         /\ Took(s) \in 0 .. Len(FlattenSeq(sock[s].wbl))
         /\ SubSeq(Batch(s), 1, Took(s)) = SubSeq(FlattenSeq(sock[s].wbl), 1, Took(s))
         /\ SubSeq(Batch(s), 1, Took(s)) \in Seq(Unit)
<1>1. PICK w \in Seq(Seq(Unit)) : w = sock[s].wbl
  BY DEF DataInv, DataTypes, Sock, Lists
<1>2. PICK n \in 0 .. Len(w) : n = Least(Len(w), IovPerSend)
  BY SocketServerAssumption, SMTT(30) DEF Least
<1> DEFINE rest == SubSeq(w, n + 1, Len(w))
<1>3. /\ SubSeq(w, 1, n) \in Seq(Seq(Unit)) /\ rest \in Seq(Seq(Unit))
      /\ w = Cat(SubSeq(w, 1, n), rest)
  BY CutIs
<1>4. Batch(s) = FlattenSeq(SubSeq(w, 1, n))
  BY <1>1, <1>2 DEF Batch
<1>5. PICK a, b : a = SubSeq(w, 1, n) /\ b = rest
  OBVIOUS
<1> HIDE DEF rest
<1>6. /\ FlattenSeq(Cat(a, b)) = Cat(FlattenSeq(a), FlattenSeq(b))
      /\ FlattenSeq(a) \in Seq(Unit) /\ FlattenSeq(b) \in Seq(Unit)
  BY <1>3, <1>5, FlattenConcat, FlattenType DEF Cat
<1>7. PICK c \in Seq(Unit), d \in Seq(Unit) : c = Batch(s) /\ FlattenSeq(w) = Cat(c, d)
  BY <1>3, <1>4, <1>5, <1>6
<1>8. Took(s) \in 0 .. Len(c)
  <2>1. Sent(s, c) \in 0 .. Len(c) /\ Len(c) \in Nat
    BY SentIs
  <2>2. QED
    BY <1>7, <2>1 DEF Took
<1>9. Len(Cat(c, d)) = Len(c) + Len(d) /\ Len(c) \in Nat /\ Len(d) \in Nat
  BY CatIs
<1>10. SubSeq(Cat(c, d), 1, Took(s)) = SubSeq(c, 1, Took(s))
  BY <1>8, PrefixIs
<1>11. SubSeq(c, 1, Took(s)) \in Seq(Unit)
  BY <1>8, CutIs
<1>12. QED
  BY <1>1, <1>7, <1>8, <1>9, <1>10, <1>11

\* The socket after a read and a write.
LEMMA ServedData ==
  ASSUME DataInv, NEW s \in Slot
  PROVE  /\ Served(s) \in Sock /\ Served(s).state = sock[s].state
         /\ Served(s).wbl = Dropped(sock[s].wbl, Took(s))
         /\ FlattenSeq(sock[s].wbl)
              = Cat(SubSeq(Batch(s), 1, Took(s)), FlattenSeq(Served(s).wbl))
         /\ FlattenSeq(Served(s).wbl) \in Seq(Unit)
         /\ KernelServed(s) \in Net
<1>1. sock[s] \in Sock /\ net[s] \in Net
  BY DEF DataInv, DataTypes
<1>2. PICK w \in Lists : w = sock[s].wbl
  BY <1>1 DEF Sock
<1>3. w \in Seq(Seq(Unit)) /\ Full(w)
  BY DEF Lists
<1>4. PICK k \in 0 .. Len(FlattenSeq(w)) : k = Took(s)
  BY <1>2, TookIs
<1>5. PICK d : d = Dropped(w, k)
  OBVIOUS
<1>6. /\ d \in Lists
      /\ FlattenSeq(w) = Cat(SubSeq(FlattenSeq(w), 1, k), FlattenSeq(d))
      /\ FlattenSeq(d) \in Seq(Unit)
  <2>1. /\ d \in Seq(Seq(Unit)) /\ Full(d)
        /\ FlattenSeq(w) = Cat(SubSeq(FlattenSeq(w), 1, k), FlattenSeq(d))
    BY <1>3, <1>5, DroppedIs
  <2>2. QED
    BY <2>1, FlattenType DEF Lists
<1>7. PICK a \in BOOLEAN, b \in BOOLEAN, z \in MinRecv .. MaxRecv :
        /\ a = MoreToRead(s) /\ b = StillWritable(s)
        /\ z = IF Reading(s) THEN NextRecvSize(sock[s].recv_size, ReadCount(s))
               ELSE sock[s].recv_size
  <2>1. sock[s].recv_size \in MinRecv .. MaxRecv
    BY <1>1 DEF Sock
  <2>2. MoreToRead(s) \in BOOLEAN /\ StillWritable(s) \in BOOLEAN
    BY DEF MoreToRead, StillWritable
  <2>3. QED
    BY <2>1, <2>2, ReadData
<1>8. Served(s) = [sock[s] EXCEPT !.can_recv = a, !.recv_size = z, !.can_send = b, !.wbl = d]
  BY <1>1, <1>2, <1>4, <1>5, <1>7 DEF Served
<1>9. /\ Served(s) \in Sock /\ Served(s).state = sock[s].state /\ Served(s).wbl = d
  BY <1>1, <1>6, <1>8 DEF Sock
<1>10. KernelServed(s) \in Net
  <2>1. PICK n \in Net : /\ n = IF Writing(s) THEN AfterSent(s, Batch(s)) ELSE net[s]
                         /\ n.rx = net[s].rx
    <3>1. AfterSent(s, Batch(s)) \in Net
      BY TookIs, SentIs
    <3>2. AfterSent(s, Batch(s)).rx = net[s].rx
      BY <1>1 DEF AfterSent, Net
    <3>3. QED
      BY <1>1, <3>1, <3>2
  <2>2. PICK x \in Nat : x = IF Reading(s) THEN n.rx - ReadCount(s) ELSE n.rx
    BY <2>1, <1>1, ReadData DEF Net
  <2>3. KernelServed(s) = [n EXCEPT !.rx = x]
    BY <2>1, <2>2 DEF KernelServed
  <2>4. QED
    BY <2>1, <2>3 DEF Net
<1>11. SubSeq(Batch(s), 1, Took(s)) = SubSeq(FlattenSeq(w), 1, k)
  BY <1>2, <1>4, TookIs
<1>12. QED
  BY <1>2, <1>4, <1>5, <1>6, <1>9, <1>10, <1>11

\* The units taken leave the list and go to the kernel.
LEMMA TransfersData ==
  ASSUME DataInv, NEW s \in Slot, sock[s].state \in {"CONNECTED", "CLOSING"}, Transfers(s),
         sends' \in Nat, step' \in {"app", "serve", "crashed"}
  PROVE  DataInv'
<1> DEFINE P == SubSeq(Batch(s), 1, Took(s))
           r == Served(s)
<1>1. /\ r \in Sock /\ r.state = sock[s].state /\ P \in Seq(Unit)
      /\ FlattenSeq(sock[s].wbl) = Cat(P, FlattenSeq(r.wbl))
      /\ FlattenSeq(r.wbl) \in Seq(Unit) /\ KernelServed(s) \in Net
  BY ServedData, TookIs
<1>2. taken[s] \in Seq(Unit)
  BY DEF DataInv, DataTypes
<1>3. /\ sock' = [sock EXCEPT ![s] = r] /\ net' = [net EXCEPT ![s] = KernelServed(s)]
      /\ taken' = [taken EXCEPT ![s] = Cat(taken[s], P)] /\ UNCHANGED queued
  BY DEF Transfers, Cat
<1> HIDE DEF P, r
<1>4. Cat(taken[s], P) \in Seq(Unit)
  BY <1>1, <1>2, CatIs
<1>5. DataTypes'
  BY <1>1, <1>3, <1>4 DEF DataInv, DataTypes
<1>6. /\ sock'[s] = r /\ \A t \in Slot : t # s => sock'[t] = sock[t]
      /\ taken'[s] = Cat(taken[s], P) /\ \A t \in Slot : t # s => taken'[t] = taken[t]
  BY <1>3 DEF DataInv, DataTypes
<1>7. Exact(s)'
  <2>1. Cat(Cat(taken[s], P), FlattenSeq(r.wbl)) = Cat(taken[s], Cat(P, FlattenSeq(r.wbl)))
    BY <1>1, <1>2, CatAssociative
  <2>2. ~Vectored => Cat(taken[s], FlattenSeq(sock[s].wbl)) = AllOf(queued[s])
    BY DEF DataInv, Exact
  <2>3. QED
    BY <1>1, <1>3, <1>6, <2>1, <2>2 DEF Exact
<1>8. \A t \in Slot : t # s => Exact(t)'
  BY <1>3, <1>6 DEF DataInv, Exact
<1>9. QED
  BY <1>5, <1>7, <1>8 DEF DataInv, Slot

\* jetnet_closing_handle_epoll_event and jetnet_stream_handle_epoll_event.
LEMMA StreamData ==
  ASSUME DataInv, NEW s \in Slot, ServeClosing(s) \/ StreamBreaks(s) \/ Stream(s)
  PROVE  DataInv'
<1>1. /\ sends' \in Nat /\ step' \in {"app", "serve", "crashed"}
      /\ sock[s].state \in {"CONNECTED", "CLOSING"}
  BY DEF ServeClosing, StreamBreaks, Stream, Serving, Returned, DataInv, DataTypes
<1>2. CASE ForceClosed({s})
  BY <1>1, <1>2, ForceClosedData
<1>3. CASE Transfers(s)
  BY <1>1, <1>3, TransfersData
<1>4. CASE StreamBreaks(s)
  <2> DEFINE r == [Served(s) EXCEPT !.state = "ERROR", !.can_send = TRUE, !.wbl = sock[s].wbl]
             n == [net[s] EXCEPT !.rx = @ - (IF Reading(s) THEN ReadCount(s) ELSE 0)]
  <2>1. r \in Sock /\ r.state = "ERROR"
    <3>1. Served(s) \in Sock /\ sock[s].wbl \in Lists
      BY ServedData DEF DataInv, DataTypes, Sock
    <3>2. QED
      BY <3>1 DEF Sock, State
  <2>2. n \in Net
    <3>1. PICK x \in Nat : x = net[s].rx - (IF Reading(s) THEN ReadCount(s) ELSE 0)
      <4>1. net[s].rx - ReadCount(s) \in Nat /\ net[s].rx - 0 \in Nat
        BY ReadData DEF DataInv, DataTypes, Net
      <4>2. QED
        BY <4>1
    <3>2. n = [net[s] EXCEPT !.rx = x]
      BY <3>1
    <3>3. QED
      BY <3>2, ZenonT(30) DEF DataInv, DataTypes, Net
  <2>3. /\ sock' = [sock EXCEPT ![s] = r] /\ net' = [net EXCEPT ![s] = n]
        /\ UNCHANGED <<taken, queued>>
    BY <1>4 DEF StreamBreaks, DataInv, DataTypes
  <2> HIDE DEF r, n
  <2>4. net' \in [Slot -> Net]
    BY <2>2, <2>3 DEF DataInv, DataTypes
  <2>5. QED
    BY <1>1, <2>1, <2>3, <2>4, MovedData
<1>5. QED
  BY <1>2, <1>3, <1>4 DEF ServeClosing, Stream

\* Every step.
LEMMA DataNext == ServerInv /\ DataInv /\ [Next]_vars => DataInv'
<1> SUFFICES ASSUME ServerInv, DataInv, [Next]_vars
             PROVE  DataInv'
  OBVIOUS
<1>1. CASE UNCHANGED vars
  <2>1. UNCHANGED <<sock, net, taken, queued, sends, step>>
    BY <1>1 DEF vars, history, bounds
  <2>2. QED
    BY <2>1, SameData DEF DataInv, DataTypes
<1>2. CASE App
  <2>1. CASE Listen \/ Connect \/ OpenFull
    BY <2>1, OpenData
  <2>2. ASSUME NEW id \in 0 .. alloc_id - 1,
               \/ Close(id) \/ SendLater(id) \/ SendNow(id) \/ SendError(id)
               \/ SendKilled(id)
        PROVE  DataInv'
    <3>1. id \in Nat
      BY DEF ServerInv, Shapes
    <3>2. QED
      BY <2>2, <3>1, CloseData, SendData
  <2>3. QED
    BY <1>2, <2>1, <2>2 DEF App
<1>3. CASE Serve
  <2>1. CASE ServeNothing
    <3>1. UNCHANGED <<sock, net, taken, queued, sends>> /\ step' = "app"
      BY <2>1 DEF ServeNothing, Returned, bounds
    <3>2. QED
      BY <3>1, SameData DEF DataInv, DataTypes
  <2>2. ASSUME NEW s \in Slot,
               \/ ServeError(s)
               \/ AcceptRefused(s) \/ AcceptNone(s) \/ AcceptFails(s)
               \/ AcceptDrops(s) \/ Accept(s)
               \/ ServeConnector(s) \/ ServeClosing(s)
               \/ StreamEnds(s) \/ StreamBreaks(s) \/ Stream(s) \/ ServeKilled(s)
        PROVE  DataInv'
    BY <2>2, ListenerData, BreakData, StreamData
  <2>3. QED
    BY <1>3, <2>1, <2>2 DEF Serve
<1>4. QED
  BY <1>1, <1>2, <1>3, DataWorld, PollData DEF Next

LEMMA DataInvariant == Spec => []DataInv
<1>1. Init => DataInv
  BY DataInit
<1>2. ServerInv /\ DataInv /\ [Next]_vars => DataInv'
  BY DataNext
<1>3. QED
  BY <1>1, <1>2, ServerInvariant, PTL DEF Spec

\* Nothing sent on a connection is lost, doubled or reordered, whatever the size
\* of messages, of the kernel's buffer and of a batch, when the protocols send
\* with jetnet_tcp_send.
THEOREM StreamsExact ==
  ASSUME ~Vectored
  PROVE  Spec => []StreamExact
<1>1. DataInv => StreamExact
  BY DEF DataInv, Exact, StreamExact, AllOf, Cat
<1>2. QED
  BY <1>1, DataInvariant, PTL

\* The sockets that carry the current token are listed.
FreshListed == fresh \subseteq Range(active)

\* A step that keeps the list, or only adds to it.
LEMMA FreshNext == ServerInv /\ FreshListed /\ [Next]_vars => FreshListed'
<1> SUFFICES ASSUME ServerInv, FreshListed, [Next]_vars
             PROVE  FreshListed'
  OBVIOUS
<1>1. active \in Seq(Slot) /\ IsInjective(active) /\ Shapes
  BY DEF ServerInv, Shapes
<1>2. CASE UNCHANGED <<active, fresh>>
  BY <1>2 DEF FreshListed
<1>3. ASSUME NEW S \in SUBSET Slot, ForceClosed(S)
      PROVE  FreshListed'
  <2>1. Range(active') = Range(active) \ S
    BY <1>1, <1>3, DelistedAllProperties DEF ForceClosed
  <2>2. QED
    BY <1>3, <2>1 DEF ForceClosed, FreshListed
<1>4. ASSUME NEW s, Serving(s), Stays(s) \/ Leaves(s) \/ ReportsClose(s)
      PROVE  FreshListed'
  <2>1. \/ active' = Rotated /\ fresh' = fresh
        \/ active' = Tail(active) /\ fresh' = fresh \ {s}
    BY <1>4 DEF Stays, Leaves, ReportsClose
  <2>2. \/ Range(active') = Range(active) /\ fresh' = fresh
        \/ Range(active') = Range(active) \ {s} /\ fresh' = fresh \ {s}
    BY <1>1, <1>4, <2>1, HeadIs
  <2>3. QED
    BY <2>2 DEF FreshListed
<1>5. CASE App
  <2>1. CASE Listen \/ Connect \/ OpenFull
    BY <1>2, <2>1 DEF Listen, Connect, OpenFull, Opening, lists
  <2>2. ASSUME NEW id \in 0 .. alloc_id - 1,
               \/ Close(id) \/ SendLater(id) \/ SendNow(id) \/ SendError(id)
               \/ SendKilled(id)
        PROVE  FreshListed'
    <3>1. PICK s \in Slot : s = SlotOf(id)
      <4>1. id \in Nat
        BY <1>1 DEF Shapes
      <4>2. QED
        BY <4>1, SlotIs
    <3>2. CASE Close(id)
      BY <1>2, <1>3, <3>1, <3>2 DEF Close, lists
    <3>3. CASE SendLater(id) \/ SendNow(id) \/ SendKilled(id)
      BY <1>2, <3>3 DEF SendLater, SendNow, SendKilled, lists
    <3>4. CASE SendError(id)
      <4>1. Activate(s)
        BY <3>1, <3>4 DEF SendError
      <4>2. Range(active') = Range(active) \cup {s} /\ fresh' \subseteq fresh \cup {s}
        BY <1>1, <4>1, EnlistedTailProperties DEF Activate
      <4>3. QED
        BY <4>2 DEF FreshListed
    <3>5. QED
      BY <2>2, <3>2, <3>3, <3>4
  <2>3. QED
    BY <1>5, <2>1, <2>2 DEF App
<1>6. CASE World
  <2>1. UNCHANGED <<active, fresh>>
    BY <1>6 DEF World, ConnectEnds, PeerSends, PeerCloses, PeerResets, PeerAcks, Dial,
                Kernel, lists
  <2>2. QED
    BY <1>2, <2>1
<1>7. CASE PollEnter
  <2> DEFINE ready == {s \in Slot \ Range(closing) : net[s].edge /\ (In(s) \/ Out(s))}
             kept == DelistedAll(active, Range(closing))
  <2>1. Range(closing) \in SUBSET Slot
    BY DEF ServerInv, Shapes, Range
  <2>2. CASE ~RoundOver(kept)
    BY <1>3, <1>7, <2>1, <2>2 DEF PollEnter
  <2>3. CASE RoundOver(kept)
    <3>1. PICK q \in Returns(ready) :
            /\ active' = kept \o DelistedAll(q, Range(kept) \cup {s \in Slot : ~Wakes(sock'[s])})
            /\ fresh' = IF q = <<>> THEN fresh \ Range(closing) ELSE {}
      BY <1>7, <2>3 DEF PollEnter
    <3>2. PICK asleep : asleep = {s \in Slot : ~Wakes(sock'[s])}
      OBVIOUS
    <3>3. ready \in SUBSET Slot
      OBVIOUS
    <3> HIDE DEF ready
    <3>4. Range(active) \ Range(closing) \subseteq Range(active')
      BY <1>1, <3>1, <3>2, <3>3, PolledIs
    <3>5. QED
      BY <3>1, <3>4 DEF FreshListed
  <2>4. QED
    BY <2>2, <2>3
<1>8. CASE Serve
  <2>1. CASE ServeNothing
    BY <1>2, <2>1 DEF ServeNothing, lists
  <2>2. ASSUME NEW s \in Slot,
               \/ ServeError(s)
               \/ AcceptRefused(s) \/ AcceptNone(s) \/ AcceptFails(s)
               \/ AcceptDrops(s) \/ Accept(s)
               \/ ServeConnector(s) \/ ServeClosing(s)
               \/ StreamEnds(s) \/ StreamBreaks(s) \/ Stream(s) \/ ServeKilled(s)
        PROVE  FreshListed'
    <3>1. CASE ServeKilled(s)
      BY <1>2, <3>1 DEF ServeKilled, lists
    <3>2. CASE ForceClosed({s})
      BY <1>3, <3>2
    <3>3. CASE Serving(s) /\ (Stays(s) \/ Leaves(s) \/ ReportsClose(s))
      BY <1>4, <3>3
    <3>4. QED
      BY <2>2, <3>1, <3>2, <3>3
         DEF ServeError, AcceptRefused, AcceptNone, AcceptFails, AcceptDrops, Accept,
             Accepting, ServeConnector, ServeClosing, StreamEnds, StreamBreaks, Stream,
             StaysIf
  <2>3. QED
    BY <1>8, <2>1, <2>2 DEF Serve
<1>9. CASE UNCHANGED vars
  BY <1>2, <1>9 DEF vars, lists
<1>10. QED
  BY <1>5, <1>6, <1>7, <1>8, <1>9 DEF Next

\* The sockets, the connections and the lists are of their types: a write buffer
\* list holds no empty buffer, the size of a read stays within its bounds, and
\* the kernel's buffer is never overrun.
THEOREM SocketTypes == Spec => []TypeOK
<1>1. Init => FreshListed
  BY DEF Init, FreshListed
<1>2. ServerInv /\ FreshListed /\ [Next]_vars => FreshListed'
  BY FreshNext
<1>3. ServerInv /\ DataInv /\ FreshListed => TypeOK
  <2> SUFFICES ASSUME ServerInv, DataInv, FreshListed
               PROVE  TypeOK
    OBVIOUS
  <2>1. ASSUME NEW s \in Slot
        PROVE  /\ sock[s].state \in State
               /\ sock[s].role \in {"UNKNOW", "LISTENER", "CLIENT", "SERVER"}
               /\ sock[s].id \in Int
               /\ {sock[s].can_send, sock[s].can_recv} \subseteq BOOLEAN
               /\ sock[s].recv_size \in MinRecv..MaxRecv
               /\ \A i \in DOMAIN sock[s].wbl : sock[s].wbl[i] # <<>>
               /\ net[s].conn \in {"none", "pending", "up", "failed", "listen"}
               /\ net[s].room \in 0..SndBuf
               /\ net[s].rx \in Nat
    <3>1. sock[s] \in Sock /\ net[s] \in Net
      BY DEF DataInv, DataTypes
    <3>2. QED
      BY <3>1 DEF Sock, Net, Lists, Full
  <2>2. /\ IsInjective(active) /\ Range(active) \subseteq Slot
        /\ IsInjective(closing) /\ Range(closing) \subseteq Slot
        /\ alloc_id \in Nat
    BY DEF ServerInv, Shapes, Range
  <2>3. QED
    BY <2>1, <2>2 DEF TypeOK, FreshListed, DataInv, DataTypes
<1>4. QED
  BY <1>1, <1>2, <1>3, ServerInvariant, DataInvariant, PTL DEF Spec
=============================================================================
