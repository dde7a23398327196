---------------------------- MODULE EntityProofs ----------------------------
(***************************************************************************)
(* Proofs about module Entity, for every set of entities and peers and     *)
(* every bound: types, the active list, who is blocked, who holds a        *)
(* message, the outcome of a wait, and that the entity system implements   *)
(* module Mailbox.                                                         *)
(***************************************************************************)
EXTENDS Entity, SequenceTheorems, FiniteSetTheorems, TLAPS

-----------------------------------------------------------------------------
(* What the list operations do to the members of a list without duplicates. *)

\* Enlisting an object keeps the list free of duplicates and adds that one.
LEMMA EnlistedTailProperties ==
  ASSUME NEW S, NEW list \in Seq(S), NEW e \in S, IsInjective(list)
  PROVE  /\ EnlistedTail(list, e) \in Seq(S)
         /\ IsInjective(EnlistedTail(list, e))
         /\ Range(EnlistedTail(list, e)) = Range(list) \cup {e}
<1>1. CASE e \in Range(list)
  BY <1>1 DEF EnlistedTail
<1>2. CASE e \notin Range(list)
  <2>1. EnlistedTail(list, e) = Append(list, e)
    BY <1>2 DEF EnlistedTail
  <2>2. DOMAIN Append(list, e) = 1..(Len(list) + 1)
    OBVIOUS
  <2>3. \A i \in 1..(Len(list) + 1) :
          Append(list, e)[i] = IF i <= Len(list) THEN list[i] ELSE e
    OBVIOUS
  <2>4. IsInjective(Append(list, e))
    BY <1>2, <2>2, <2>3 DEF IsInjective, Range
  <2>5. Range(Append(list, e)) = Range(list) \cup {e}
    <3>1. Append(list, e)[Len(list) + 1] = e
      OBVIOUS
    <3>2. \A i \in DOMAIN list : /\ i \in DOMAIN Append(list, e)
                                 /\ Append(list, e)[i] = list[i]
      BY <2>2, <2>3
    <3>3. QED
      BY <2>2, <2>3, <3>1, <3>2 DEF Range
  <2>6. QED
    BY <2>1, <2>4, <2>5
<1>3. QED
  BY <1>1, <1>2

\* Popping the head removes that object and no other.
LEMMA TailProperties ==
  ASSUME NEW S, NEW list \in Seq(S), IsInjective(list), list # <<>>
  PROVE  /\ Tail(list) \in Seq(S)
         /\ IsInjective(Tail(list))
         /\ Head(list) \in Range(list)
         /\ Range(Tail(list)) = Range(list) \ {Head(list)}
<1>1. /\ Tail(list) \in Seq(S)
      /\ Len(Tail(list)) = Len(list) - 1
      /\ \A i \in 1..Len(Tail(list)) : Tail(list)[i] = list[i + 1]
  BY HeadTailProperties
<1>2. /\ Head(list) = list[1]
      /\ Len(list) \in Nat \ {0}
      /\ DOMAIN list = 1..Len(list)
      /\ DOMAIN Tail(list) = 1..(Len(list) - 1)
  BY <1>1
<1>3. IsInjective(Tail(list))
  BY <1>1, <1>2 DEF IsInjective
<1>4. \A i \in DOMAIN list : i # 1 => /\ i - 1 \in DOMAIN Tail(list)
                                      /\ Tail(list)[i - 1] = list[i]
  BY <1>1, <1>2
<1>5. \A i \in DOMAIN Tail(list) : /\ Tail(list)[i] \in Range(list)
                                   /\ Tail(list)[i] # list[1]
  BY <1>1, <1>2 DEF IsInjective, Range
<1>6. Range(Tail(list)) = Range(list) \ {Head(list)}
  BY <1>2, <1>4, <1>5 DEF Range
<1>7. Head(list) \in Range(list)
  BY <1>2 DEF Range
<1>8. QED
  BY <1>1, <1>3, <1>6, <1>7

\* Delisting an object removes it, and no other, wherever it is.
LEMMA DelistedProperties ==
  ASSUME NEW S, NEW list \in Seq(S), NEW e \in S, IsInjective(list)
  PROVE  /\ Delisted(list, e) \in Seq(S)
         /\ IsInjective(Delisted(list, e))
         /\ Range(Delisted(list, e)) = Range(list) \ {e}
<1>0. \A a, b \in 1..Len(list) : list[a] = list[b] => a = b
  BY DEF IsInjective
<1>1. CASE ~ \E i \in 1..Len(list) : list[i] = e
  BY <1>1 DEF Delisted, RemoveFirst, Range
<1>2. CASE \E i \in 1..Len(list) : list[i] = e
  <2>1. PICK i \in 1..Len(list) : list[i] = e
    BY <1>2
  <2>2. {j \in 1..Len(list) : list[j] = e} = {i}
    BY <2>1, <1>0
  <2>3. Min({i}) = i
    BY <2>1 DEF Min
  <2>4. Delisted(list, e) = RemoveAt(list, i)
    BY <2>1, <2>2, <2>3 DEF Delisted, RemoveFirst, SelectInSeq
  <2> DEFINE front == SubSeq(list, 1, i - 1)
             back == SubSeq(list, i + 1, Len(list))
             rest == front \o back
  <2>5. /\ front \in Seq(S) /\ Len(front) = i - 1
        /\ \A j \in 1..(i - 1) : front[j] = list[j]
    BY <2>1
  <2>6. /\ back \in Seq(S) /\ Len(back) = Len(list) - i
        /\ \A j \in 1..(Len(list) - i) : back[j] = list[j + i]
    BY <2>1
  <2>7. /\ rest \in Seq(S)
        /\ Len(rest) = Len(list) - 1
        /\ \A j \in 1..(Len(list) - 1) :
             rest[j] = IF j < i THEN list[j] ELSE list[j + 1]
    <3> HIDE DEF front, back
    <3>1. /\ rest \in Seq(S)
          /\ Len(rest) = Len(front) + Len(back)
          /\ \A j \in 1..(Len(front) + Len(back)) :
               rest[j] = IF j <= Len(front) THEN front[j]
                         ELSE back[j - Len(front)]
      BY <2>5, <2>6, ConcatProperties
    <3>2. QED
      BY <2>1, <2>5, <2>6, <3>1
  <2> HIDE DEF front, back, rest
  <2>8. IsInjective(rest)
    <3>1. DOMAIN rest = 1..(Len(list) - 1)
      BY <2>7
    <3>2. ASSUME NEW a \in 1..(Len(list) - 1), NEW b \in 1..(Len(list) - 1),
                 rest[a] = rest[b]
          PROVE  a = b
      <4> DEFINE pos(k) == IF k < i THEN k ELSE k + 1
      <4>1. /\ pos(a) \in 1..Len(list) /\ rest[a] = list[pos(a)]
            /\ pos(b) \in 1..Len(list) /\ rest[b] = list[pos(b)]
        BY <2>1, <2>7
      <4>2. pos(a) = pos(b)
        BY <3>2, <4>1, <1>0
      <4>3. QED
        BY <4>2
    <3>3. QED
      BY <3>1, <3>2 DEF IsInjective
  <2>9. \A j \in 1..Len(list) : j # i => list[j] \in Range(rest)
    <3> SUFFICES ASSUME NEW j \in 1..Len(list), j # i
                 PROVE  \E k \in 1..(Len(list) - 1) : rest[k] = list[j]
      BY <2>7 DEF Range
    <3>1. CASE j < i
      BY <3>1, <2>1, <2>7
    <3>2. CASE j > i
      <4>1. j - 1 \in 1..(Len(list) - 1) /\ rest[j - 1] = list[j]
        BY <3>2, <2>1, <2>7
      <4>2. QED
        BY <4>1
    <3>3. QED
      BY <3>1, <3>2
  <2>10. \A k \in 1..(Len(list) - 1) : rest[k] \in Range(list) \ {e}
    <3> SUFFICES ASSUME NEW k \in 1..(Len(list) - 1)
                 PROVE  rest[k] \in Range(list) \ {e}
      OBVIOUS
    <3>1. PICK x \in 1..Len(list) : rest[k] = list[x] /\ x # i
      BY <2>1, <2>7
    <3>2. QED
      BY <3>1, <2>1, <1>0 DEF Range
  <2>11. Range(rest) = Range(list) \ {e}
    BY <2>1, <2>7, <2>9, <2>10 DEF Range
  <2>12. RemoveAt(list, i) = rest
    BY DEF RemoveAt, rest, front, back
  <2>13. QED
    BY <2>4, <2>7, <2>8, <2>11, <2>12
<1>3. QED
  BY <1>1, <1>2

-----------------------------------------------------------------------------
(* Type correctness.                                                       *)

\* The found items are wait items of the table.
LEMMA FoundItems == \A m : \A it \in Found(m) : it \in items
  BY DEF Found, Matching

\* The head of the loop's queue is a message, and the rest a queue.
LEMMA HeadOfInq ==
  ASSUME TypeOK, Pushing
  PROVE  /\ Head(inq) \in Data \cup Ack
         /\ Tail(inq) \in Seq(Data \cup Ack)
  BY DEF TypeOK, Pushing

\* Only acks have a sequence id.
LEMMA AckFields ==
  ASSUME NEW m \in Data \cup Ack, m.ack
  PROVE  m.seq \in 1..MaxSeq /\ m.src \in Peer
<1>1. CASE m \in Data
  BY <1>1 DEF Data
<1>2. CASE m \in Ack
  BY <1>2 DEF Ack
<1>3. QED
  BY <1>1, <1>2

\* The fields of a queue entry.
LEMMA QueuedFields ==
  ASSUME NEW q \in Queued
  PROVE  /\ q.id \in 0..MaxMsg
         /\ q.wait \in 0..MaxWait
         /\ q.wait = 0 => q.id \in MsgId
         /\ q.wait # 0 => q.wait \in WaitId
<1>1. CASE q \in [id : MsgId, wait : 0..MaxWait]
  BY <1>1, EntityAssumption DEF MsgId, WaitId
<1>2. CASE q \in [id : {0}, wait : WaitId]
  BY <1>2, EntityAssumption DEF WaitId
<1>3. QED
  BY <1>1, <1>2 DEF Queued

\* The type invariant, together with the absence of duplicates in the active
\* list on which list_del relies.
TypeAndList == TypeOK /\ IsInjective(active)

LEMMA TypeInit == Init => TypeAndList
<1> SUFFICES ASSUME Init PROVE TypeAndList
  OBVIOUS
<1>1. TypeOK
  <2>1. /\ mq \in [Entity -> Seq(Queued)]
        /\ told \in [WaitId -> Seq(Answer)]
    BY DEF Init
  <2>2. block \in [Entity -> 0..MaxWait] /\ waits \in 0..MaxWait
    BY EntityAssumption DEF Init
  <2>3. /\ issued \in Seq(Entity) /\ Len(issued) <= MaxSeq
        /\ active \in Seq(Entity)
        /\ inq \in Seq(Data \cup Ack)
    BY EntityAssumption DEF Init
  <2>4. arrived \in 0..MaxMsg /\ cur \in 0..MaxMsg
    BY EntityAssumption DEF Init
  <2>5. QED
    BY <2>1, <2>2, <2>3, <2>4 DEF Init, TypeOK, Phase
<1>2. IsInjective(active)
  BY DEF Init, IsInjective
<1>3. QED
  BY <1>1, <1>2 DEF TypeAndList

LEMMA TypeStep == TypeAndList /\ [Next]_vars => TypeAndList'
<1> SUFFICES ASSUME TypeOK, IsInjective(active), [Next]_vars
             PROVE  TypeOK' /\ IsInjective(active)'
  BY DEF TypeAndList
<1> USE EntityAssumption
<1>1. CASE Arrive
  <2>1. inq' \in Seq(Data \cup Ack)
    <3>1. ASSUME NEW e \in Entity,
                 inq' = Append(inq, [id |-> arrived + 1, ack |-> FALSE, dst |-> e])
          PROVE  inq' \in Seq(Data \cup Ack)
      BY <1>1, <3>1 DEF Arrive, TypeOK, Data, MsgId
    <3>2. ASSUME NEW p \in Peer, NEW s \in 1..Len(issued),
                 inq' = Append(inq, [id |-> arrived + 1, ack |-> TRUE,
                              dst |-> issued[s], src |-> p, seq |-> s])
          PROVE  inq' \in Seq(Data \cup Ack)
      <4>1. [id |-> arrived + 1, ack |-> TRUE, dst |-> issued[s], src |-> p,
             seq |-> s] \in Ack
        BY <1>1, <3>2 DEF Arrive, TypeOK, Ack, MsgId
      <4>2. QED
        BY <3>2, <4>1 DEF TypeOK
    <3>3. QED
      BY <1>1, <3>1, <3>2 DEF Arrive
  <2>2. arrived' \in 0..MaxMsg
    BY <1>1 DEF Arrive, TypeOK
  <2>3. QED
    BY <1>1, <2>1, <2>2 DEF Arrive, TypeOK
<1>2. CASE PollDone
  BY <1>2 DEF PollDone, TypeOK, Phase
<1>3. CASE PushNoEntity
  BY <1>3, HeadOfInq DEF PushNoEntity, AfterPush, TypeOK, Data, Ack
<1>4. CASE PushUnmatchedAck
  BY <1>4, HeadOfInq DEF PushUnmatchedAck, AfterPush, TypeOK, Data, Ack
<1>5. CASE PushAckNow
  <2>1. PICK it \in Found(Head(inq)) :
          /\ items' = Unlinked(it)
          /\ block' = Unblocked(Head(inq).dst)
          /\ active' = Reactivated(Head(inq).dst, it)
          /\ told' = [told EXCEPT ![it.id] = Append(@, "ack")]
    BY <1>5 DEF PushAckNow
  <2>2. it \in WaitItem /\ Head(inq).dst \in Entity /\ Head(inq).id \in MsgId
    BY <1>5, FoundItems, HeadOfInq DEF PushAckNow, TypeOK, Data, Ack
  <2>3. active' \in Seq(Entity) /\ IsInjective(active')
    BY <2>1, <2>2, EnlistedTailProperties DEF Reactivated, Activated, TypeOK
  <2>4. told' \in [WaitId -> Seq(Answer)]
    BY <2>1, <2>2 DEF TypeOK, WaitItem, Answer
  <2>5. block' \in [Entity -> 0..MaxWait] /\ items' \subseteq WaitItem
    BY <2>1, <2>2 DEF TypeOK, Unblocked, Unlinked
  <2>6. inq' \in Seq(Data \cup Ack) /\ cur' \in 0..MaxMsg
    BY <1>5, <2>2, HeadOfInq DEF PushAckNow, MsgId
  <2>7. running' \in BOOLEAN
    BY <1>5 DEF PushAckNow
  <2>8. UNCHANGED <<alive, mq, waits, issued, arrived, phase, freed>>
    BY <1>5 DEF PushAckNow
  <2>9. TypeOK'
    BY <2>3, <2>4, <2>5, <2>6, <2>7, <2>8 DEF TypeOK
  <2>10. QED
    BY <2>3, <2>9
<1>6. CASE PushAckLater
  <2>1. PICK it \in Found(Head(inq)) :
          /\ items' = Unlinked(it)
          /\ mq' = [mq EXCEPT ![Head(inq).dst] =
                      Append(@, [id |-> Head(inq).id, wait |-> it.id])]
    BY <1>6 DEF PushAckLater
  <2>2. it \in WaitItem /\ Head(inq).dst \in Entity /\ Head(inq).id \in MsgId
    BY <1>6, FoundItems, HeadOfInq DEF PushAckLater, TypeOK, Data, Ack
  <2>3. [id |-> Head(inq).id, wait |-> it.id] \in Queued
    BY <2>2 DEF Queued, WaitItem, WaitId, MsgId
  <2>4. mq' \in [Entity -> Seq(Queued)]
    BY <2>1, <2>2, <2>3 DEF TypeOK
  <2>5. QED
    BY <1>6, <2>1, <2>4, HeadOfInq
       DEF PushAckLater, TypeOK, Unlinked, AfterPush
<1>7. CASE PushData
  <2> DEFINE e == Head(inq).dst
  <2>1. e \in Entity /\ Head(inq).id \in MsgId
    BY <1>7, HeadOfInq DEF PushData, Data, Ack
  <2>2. active' \in Seq(Entity) /\ IsInjective(active')
    BY <1>7, <2>1, EnlistedTailProperties DEF PushData, Activated, TypeOK
  <2>3. [id |-> Head(inq).id, wait |-> 0] \in Queued
    BY <2>1 DEF Queued, MsgId
  <2>4. mq' \in [Entity -> Seq(Queued)]
    BY <1>7, <2>1, <2>3 DEF PushData, TypeOK
  <2>5. inq' \in Seq(Data \cup Ack)
    BY <1>7, HeadOfInq DEF PushData
  <2>6. /\ UNCHANGED <<alive, block, items, waits, issued, arrived, phase,
                        running, cur, told>>
        /\ freed' = freed
    BY <1>7 DEF PushData, AfterPush
  <2>7. TypeOK'
    BY <2>2, <2>4, <2>5, <2>6 DEF TypeOK
  <2>8. QED
    BY <2>2, <2>7
<1>8. CASE PushDone
  BY <1>8 DEF PushDone, TypeOK, Phase
<1>9. ASSUME NEW e \in Entity, PopData(e) \/ PopTrigger(e)
      PROVE  TypeOK' /\ IsInjective(active)'
  <2>1. /\ active # <<>>
        /\ mq[e] \in Seq(Queued) /\ mq[e] # <<>>
        /\ Head(mq[e]) \in Queued
        /\ Tail(mq[e]) \in Seq(Queued)
    BY <1>9 DEF PopData, PopTrigger, Popping, TypeOK
  <2>2. mq' \in [Entity -> Seq(Queued)]
    BY <1>9, <2>1 DEF PopData, PopTrigger, Popped, TypeOK
  <2>3. /\ Tail(active) \in Seq(Entity)
        /\ IsInjective(Tail(active))
    BY <2>1, TailProperties DEF TypeOK
  <2>4. active' \in Seq(Entity) /\ IsInjective(active')
    <3>1. active' = IF Tail(mq[e]) # <<>> THEN EnlistedTail(Tail(active), e)
                    ELSE Tail(active)
      BY <1>9 DEF PopData, PopTrigger, Popped, Activated
    <3>2. CASE Tail(mq[e]) # <<>>
      <4>1. active' = EnlistedTail(Tail(active), e)
        BY <3>1, <3>2
      <4>2. QED
        BY <2>3, <4>1, EnlistedTailProperties
    <3>3. CASE Tail(mq[e]) = <<>>
      BY <2>3, <3>1, <3>3
    <3>4. QED
      BY <3>2, <3>3
  <2>5. CASE PopData(e)
    <3>1. cur' \in 0..MaxMsg
      BY <2>1, <2>5, QueuedFields DEF PopData
    <3>2. QED
      BY <2>2, <2>4, <2>5, <3>1 DEF PopData, TypeOK
  <2>6. CASE PopTrigger(e)
    <3> DEFINE q == Head(mq[e])
    <3>1. q.wait \in WaitId /\ q.id \in 0..MaxMsg
      BY <2>1, <2>6, QueuedFields DEF PopTrigger
    <3>2. told' \in [WaitId -> Seq(Answer)]
      BY <2>6, <3>1 DEF PopTrigger, TypeOK, Answer
    <3>3. QED
      BY <2>2, <2>4, <2>6, <3>1, <3>2 DEF PopTrigger, TypeOK
  <2>7. QED
    BY <1>9, <2>5, <2>6
<1>10. CASE PopDone
  <2>1. active' \in Seq(Entity) /\ IsInjective(active')
    BY <1>10, TailProperties DEF PopDone, TypeOK
  <2>2. QED
    BY <1>10, <2>1 DEF PopDone, TypeOK, Phase
<1>11. CASE Return
  <2>1. freed' \subseteq MsgId
    <3>1. cur \in 0..MaxMsg /\ freed \subseteq MsgId
      BY DEF TypeOK
    <3>2. {cur} \ {0} \subseteq MsgId
      BY <3>1 DEF MsgId
    <3>3. QED
      BY <1>11, <3>1, <3>2 DEF Return
  <2>2. cur' \in 0..MaxMsg
    BY <1>11 DEF Return
  <2>3. running' \in BOOLEAN
    BY <1>11, Zenon DEF Return
  <2>4. UNCHANGED <<alive, mq, active, block, items, waits, issued, inq,
                    arrived, phase, told>>
    BY <1>11 DEF Return
  <2>6. TypeOK'
    BY <2>1, <2>2, <2>3, <2>4 DEF TypeOK
  <2>7. QED
    BY <2>4, <2>6
<1>12. ASSUME NEW e \in Entity, Create(e)
       PROVE  TypeOK' /\ IsInjective(active)'
  BY <1>12 DEF Create, TypeOK
<1>13. ASSUME NEW e \in Entity, Destroy(e)
       PROVE  TypeOK' /\ IsInjective(active)'
  <2>1. active' \in Seq(Entity) /\ IsInjective(active')
    BY <1>13, DelistedProperties DEF Destroy, Deactivated, TypeOK
  <2>2. \A q \in Range(mq[e]) : q \in Queued
    BY DEF TypeOK, Range
  <2>3. {q.id : q \in {x \in Range(mq[e]) : x.wait = 0}} \subseteq MsgId
    BY <2>2, QueuedFields
  <2>4. QED
    BY <1>13, <2>1, <2>3 DEF Destroy, TypeOK
<1>14. ASSUME NEW e \in Entity, GenSeqId(e)
       PROVE  TypeOK' /\ IsInjective(active)'
  BY <1>14 DEF GenSeqId, TypeOK
<1>15. ASSUME NEW e \in Entity, NEW sync \in BOOLEAN, NEW p \in Peer,
              NEW s \in 1..Len(issued), WaitMsg(e, sync, p, s)
       PROVE  TypeOK' /\ IsInjective(active)'
  <2>1. active' \in Seq(Entity) /\ IsInjective(active')
    BY <1>15, DelistedProperties DEF WaitMsg, Deactivated, TypeOK
  <2>2. [id |-> NextWaitId, owner |-> e, src |-> p, seq |-> s] \in WaitItem
    BY <1>15 DEF WaitMsg, WaitItem, WaitId, NextWaitId, TypeOK
  <2>3. block' \in [Entity -> 0..MaxWait]
    BY <1>15 DEF WaitMsg, NextWaitId, TypeOK
  <2>4. items' \subseteq WaitItem /\ waits' \in 0..MaxWait
    BY <1>15, <2>2 DEF WaitMsg, NextWaitId, TypeOK
  <2>5. UNCHANGED <<alive, mq, issued, inq, arrived, phase, running, cur, freed, told>>
    BY <1>15 DEF WaitMsg
  <2>6. QED
    BY <2>1, <2>3, <2>4, <2>5 DEF TypeOK
<1>16. ASSUME NEW it \in items, TimeoutNow(it)
       PROVE  TypeOK' /\ IsInjective(active)'
  <2>1. it \in WaitItem
    BY DEF TypeOK
  <2>2. active' \in Seq(Entity) /\ IsInjective(active')
    BY <1>16, <2>1, EnlistedTailProperties
       DEF TimeoutNow, Reactivated, Activated, TypeOK, WaitItem
  <2>3. told' \in [WaitId -> Seq(Answer)]
    BY <1>16, <2>1 DEF TimeoutNow, TypeOK, WaitItem, Answer
  <2>4. items' \subseteq WaitItem /\ block' \in [Entity -> 0..MaxWait]
    BY <1>16, <2>1 DEF TimeoutNow, Unlinked, Unblocked, TypeOK, WaitItem
  <2>5. /\ UNCHANGED <<alive, mq, waits, issued, inq, arrived, phase, cur, freed>>
        /\ running' \in BOOLEAN
    BY <1>16 DEF TimeoutNow
  <2>6. QED
    BY <2>2, <2>3, <2>4, <2>5 DEF TypeOK
<1>17. ASSUME NEW it \in items, TimeoutLater(it)
       PROVE  TypeOK' /\ IsInjective(active)'
  <2>1. it \in WaitItem /\ [id |-> 0, wait |-> it.id] \in Queued
    BY DEF TypeOK, WaitItem, WaitId, Queued
  <2>2. mq' \in [Entity -> Seq(Queued)]
    BY <1>17, <2>1 DEF TimeoutLater, TypeOK, WaitItem
  <2>3. QED
    BY <1>17, <2>2 DEF TimeoutLater, Unlinked, TypeOK
<1>18. CASE UNCHANGED vars
  BY <1>18 DEF vars, TypeOK
<1>19. QED
  BY <1>1, <1>2, <1>3, <1>4, <1>5, <1>6, <1>7, <1>8, <1>9, <1>10, <1>11,
     <1>12, <1>13, <1>14, <1>15, <1>16, <1>17, <1>18
     DEF Next, Loop, Push, Pop, Api, Timeout

\* The type invariant of module Entity holds in every reachable state.
THEOREM TypeCorrect == Spec => []TypeOK
<1>1. TypeAndList => TypeOK
  BY DEF TypeAndList
<1>2. QED
  BY <1>1, TypeInit, TypeStep, PTL DEF Spec

-----------------------------------------------------------------------------
(* Requests, waits and acks name the same entity.                          *)

Routed == ItemsSound /\ AcksRouted

LEMMA RoutedStep ==
  TypeOK /\ Routed /\ [Next]_vars => Routed'
<1> SUFFICES ASSUME TypeOK, ItemsSound, AcksRouted, [Next]_vars
             PROVE  ItemsSound' /\ AcksRouted'
  BY DEF Routed
<1> USE EntityAssumption
<1>1. ASSUME issued' = issued, waits' = waits, items' \subseteq items
      PROVE  ItemsSound'
  BY <1>1 DEF ItemsSound
<1>2. ASSUME inq # <<>>, inq' = Tail(inq), issued' = issued
      PROVE  AcksRouted'
  <2>1. Len(inq') = Len(inq) - 1 /\ \A i \in 1..Len(inq') : inq'[i] = inq[i + 1]
    BY <1>2, HeadTailProperties DEF TypeOK
  <2>2. DOMAIN inq = 1..Len(inq) /\ DOMAIN inq' = 1..Len(inq') /\ Len(inq) \in Nat
    BY <1>2, HeadTailProperties DEF TypeOK
  <2>3. \A i \in DOMAIN inq' : i + 1 \in DOMAIN inq /\ inq'[i] = inq[i + 1]
    BY <2>1, <2>2
  <2>4. QED
    BY <1>2, <2>3 DEF AcksRouted
<1>3. ASSUME inq' = inq, issued' = issued
      PROVE  AcksRouted'
  BY <1>3 DEF AcksRouted
<1>4. CASE Arrive
  <2>1. ItemsSound'
    BY <1>4, <1>1 DEF Arrive
  <2>2. PICK m : /\ inq' = Append(inq, m)
                 /\ m.ack => m.seq <= Len(issued) /\ issued[m.seq] = m.dst
    <3>1. ASSUME NEW e \in Entity,
                 inq' = Append(inq, [id |-> arrived + 1, ack |-> FALSE, dst |-> e])
          PROVE  \E m : /\ inq' = Append(inq, m)
                        /\ m.ack => m.seq <= Len(issued) /\ issued[m.seq] = m.dst
      <4> WITNESS [id |-> arrived + 1, ack |-> FALSE, dst |-> e]
      <4> QED BY <3>1
    <3>2. ASSUME NEW p \in Peer, NEW s \in 1..Len(issued),
                 inq' = Append(inq, [id |-> arrived + 1, ack |-> TRUE,
                              dst |-> issued[s], src |-> p, seq |-> s])
          PROVE  \E m : /\ inq' = Append(inq, m)
                        /\ m.ack => m.seq <= Len(issued) /\ issued[m.seq] = m.dst
      <4> WITNESS [id |-> arrived + 1, ack |-> TRUE, dst |-> issued[s],
                   src |-> p, seq |-> s]
      <4> QED BY <3>2
    <3>3. QED
      BY <1>4, <3>1, <3>2 DEF Arrive
  <2>3. \A i \in DOMAIN inq' :
          (i \in DOMAIN inq /\ inq'[i] = inq[i]) \/ inq'[i] = m
    BY <2>2 DEF TypeOK
  <2>4. issued' = issued
    BY <1>4 DEF Arrive
  <2>5. AcksRouted'
    BY <2>2, <2>3, <2>4 DEF AcksRouted
  <2>6. QED
    BY <2>1, <2>5
<1>5. CASE Push
  <2>1. inq # <<>> /\ inq' = Tail(inq) /\ issued' = issued /\ waits' = waits
    BY <1>5 DEF Push, PushNoEntity, PushUnmatchedAck, PushAckNow, PushAckLater,
                PushData, Pushing
  <2>2. items' \subseteq items
    BY <1>5 DEF Push, PushNoEntity, PushUnmatchedAck, PushAckNow, PushAckLater,
                PushData, Unlinked
  <2>3. QED
    BY <1>1, <1>2, <2>1, <2>2
<1>6. CASE PollDone \/ PushDone \/ Pop \/ PopDone \/ Return
  <2>1. UNCHANGED <<items, waits, issued, inq>>
    BY <1>6 DEF PollDone, PushDone, Pop, PopData, PopTrigger, PopDone, Return
  <2>2. QED
    BY <1>1, <1>3, <2>1
<1>7. ASSUME NEW e \in Entity, Create(e) \/ Destroy(e)
      PROVE  ItemsSound' /\ AcksRouted'
  <2>1. UNCHANGED <<waits, issued, inq>> /\ items' \subseteq items
    BY <1>7 DEF Create, Destroy
  <2>2. QED
    BY <1>1, <1>3, <2>1
<1>8. ASSUME NEW e \in Entity, GenSeqId(e)
      PROVE  ItemsSound' /\ AcksRouted'
  <2>1. /\ Len(issued') = Len(issued) + 1
        /\ \A s \in 1..Len(issued) : issued'[s] = issued[s]
        /\ Len(issued) \in Nat
    BY <1>8 DEF GenSeqId, TypeOK
  <2>2. UNCHANGED <<waits, items, inq>>
    BY <1>8 DEF GenSeqId
  <2>3. \A it \in items : it.seq \in 1..MaxSeq
    BY DEF TypeOK, WaitItem
  <2>4. ItemsSound'
    BY <2>1, <2>2, <2>3 DEF ItemsSound
  <2>5. \A i \in DOMAIN inq : inq[i].ack => inq[i].seq \in 1..MaxSeq
    BY AckFields DEF TypeOK
  <2>6. AcksRouted'
    BY <2>1, <2>2, <2>5 DEF AcksRouted
  <2>7. QED
    BY <2>4, <2>6
<1>9. ASSUME NEW e \in Entity, NEW sync \in BOOLEAN, NEW p \in Peer,
             NEW s \in 1..Len(issued), WaitMsg(e, sync, p, s)
      PROVE  ItemsSound' /\ AcksRouted'
  <2> DEFINE new == [id |-> waits + 1, owner |-> e, src |-> p, seq |-> s]
  <2>1. /\ items' = items \cup {new}
        /\ waits' = waits + 1
        /\ UNCHANGED <<issued, inq>>
        /\ issued[s] = e
    BY <1>9 DEF WaitMsg, NextWaitId
  <2>2. waits \in Nat /\ Len(issued) \in Nat /\ \A it \in items : it.id \in Nat
    <3>1. waits \in Nat /\ Len(issued) \in Nat /\ items \subseteq WaitItem
      BY DEF TypeOK
    <3>2. WaitId \subseteq Nat
      BY DEF WaitId
    <3>3. \A it \in WaitItem : it.id \in WaitId
      BY DEF WaitItem
    <3>4. QED
      BY <3>1, <3>2, <3>3
  <2>3. \A it \in items : it.id <= waits
    BY DEF ItemsSound
  <2>4. \A it \in items : it.id # new.id
    BY <2>2, <2>3
  <2>5. \A x, y \in items' : x.id = y.id => x = y
    BY <2>1, <2>4 DEF ItemsSound
  <2>6. ASSUME NEW it \in items'
        PROVE  /\ it.id <= waits'
               /\ it.seq <= Len(issued)
               /\ issued[it.seq] = it.owner
    <3>1. CASE it \in items
      BY <2>1, <2>2, <3>1 DEF ItemsSound
    <3>2. CASE it = new
      BY <2>1, <2>2, <3>2
    <3>3. QED
      BY <2>1, <3>1, <3>2
  <2>7. ItemsSound'
    BY <2>1, <2>5, <2>6 DEF ItemsSound
  <2>8. QED
    BY <1>3, <2>1, <2>7
<1>10. ASSUME NEW it \in items, Timeout(it)
       PROVE  ItemsSound' /\ AcksRouted'
  <2>1. UNCHANGED <<waits, issued, inq>> /\ items' \subseteq items
    BY <1>10 DEF Timeout, TimeoutNow, TimeoutLater, Unlinked
  <2>2. QED
    BY <1>1, <1>3, <2>1
<1>11. CASE UNCHANGED vars
  BY <1>1, <1>3, <1>11 DEF vars
<1>12. QED
  BY <1>4, <1>5, <1>6, <1>7, <1>8, <1>9, <1>10, <1>11 DEF Next, Loop, Api

\* A wait item found by an ack belongs to the entity the ack goes to.
LEMMA FoundOwner ==
  ASSUME TypeOK, Routed, Pushing, Head(inq).ack, NEW it \in Found(Head(inq))
  PROVE  it \in items /\ it.owner = Head(inq).dst
<1>1. 1 \in DOMAIN inq /\ inq[1] = Head(inq)
  BY DEF TypeOK, Pushing
<1>2. issued[Head(inq).seq] = Head(inq).dst
  BY <1>1 DEF Routed, AcksRouted
<1>3. it \in items /\ it.seq = Head(inq).seq
  BY DEF Found, Matching
<1>4. QED
  BY <1>2, <1>3 DEF Routed, ItemsSound

-----------------------------------------------------------------------------
(* A blocked entity can be released.                                       *)

\* Removing an item keeps BlockedHasWait when its owner is released, or is
\* blocked on another wait.
LEMMA ItemGone ==
  ASSUME TypeOK, BlockedHasWait, NEW it \in items,
         alive' = alive,
         items' = Unlinked(it),
         \/ block[it.owner] \in {0, it.id} /\ block' = Unblocked(it.owner)
         \/ block[it.owner] \notin {0, it.id} /\ block' = block
  PROVE  BlockedHasWait'
<1>1. \A x \in items' : x.owner \in alive'
  BY DEF BlockedHasWait, Unlinked
<1>2. ASSUME NEW f \in Entity, block'[f] # 0
      PROVE  \E x \in items' : x.id = block'[f] /\ x.owner = f
  <2>1. block'[f] = block[f]
    BY <1>2 DEF Unblocked, TypeOK
  <2>2. PICK x \in items : x.id = block[f] /\ x.owner = f
    BY <1>2, <2>1 DEF BlockedHasWait
  <2>3. x # it
    BY <1>2, <2>1, <2>2 DEF Unblocked, TypeOK
  <2>4. QED
    BY <2>1, <2>2, <2>3 DEF Unlinked
<1>3. QED
  BY <1>1, <1>2 DEF BlockedHasWait

LEMMA BlockedStep ==
  TypeOK /\ Routed /\ BlockedHasWait /\ [Next]_vars => BlockedHasWait'
<1> SUFFICES ASSUME TypeOK, Routed, BlockedHasWait, [Next]_vars
             PROVE  BlockedHasWait'
  OBVIOUS
<1> USE EntityAssumption
<1>1. ASSUME UNCHANGED <<alive, block, items>>
      PROVE  BlockedHasWait'
  BY <1>1 DEF BlockedHasWait
<1>2. CASE Arrive \/ PollDone \/ PushDone \/ Pop \/ PopDone \/ Return
  BY <1>1, <1>2 DEF Arrive, PollDone, PushDone, Pop, PopData, PopTrigger,
                    PopDone, Return
<1>3. CASE PushNoEntity \/ PushUnmatchedAck \/ PushData
  BY <1>1, <1>3 DEF PushNoEntity, PushUnmatchedAck, PushData
<1>4. CASE PushAckNow
  <2>1. PICK it \in Found(Head(inq)) :
          /\ block[Head(inq).dst] \in {0, it.id}
          /\ items' = Unlinked(it)
          /\ block' = Unblocked(Head(inq).dst)
    BY <1>4 DEF PushAckNow
  <2>2. it \in items /\ it.owner = Head(inq).dst
    BY <1>4, FoundOwner DEF PushAckNow
  <2>3. QED
    BY <1>4, <2>1, <2>2, ItemGone DEF PushAckNow
<1>5. CASE PushAckLater
  <2>1. PICK it \in Found(Head(inq)) :
          /\ block[Head(inq).dst] \notin {0, it.id}
          /\ items' = Unlinked(it)
    BY <1>5 DEF PushAckLater
  <2>2. it \in items /\ it.owner = Head(inq).dst
    BY <1>5, FoundOwner DEF PushAckLater
  <2>3. QED
    BY <1>5, <2>1, <2>2, ItemGone DEF PushAckLater
<1>6. ASSUME NEW e \in Entity, Create(e)
      PROVE  BlockedHasWait'
  BY <1>6 DEF Create, BlockedHasWait, TypeOK
<1>7. ASSUME NEW e \in Entity, Destroy(e)
      PROVE  BlockedHasWait'
  BY <1>7 DEF Destroy, BlockedHasWait, TypeOK
<1>8. ASSUME NEW e \in Entity, GenSeqId(e)
      PROVE  BlockedHasWait'
  BY <1>1, <1>8 DEF GenSeqId
<1>9. ASSUME NEW e \in Entity, NEW sync \in BOOLEAN, NEW p \in Peer,
             NEW s \in 1..Len(issued), WaitMsg(e, sync, p, s)
      PROVE  BlockedHasWait'
  <2> DEFINE new == [id |-> NextWaitId, owner |-> e, src |-> p, seq |-> s]
  <2>1. items' = items \cup {new} /\ alive' = alive /\ e \in alive
    BY <1>9 DEF WaitMsg
  <2>2. new.id = NextWaitId /\ new.owner = e
    OBVIOUS
  <2>3. \A f \in Entity : block'[f] = IF f = e /\ sync THEN NextWaitId ELSE block[f]
    BY <1>9 DEF WaitMsg, TypeOK
  <2> HIDE DEF new
  <2>4. ASSUME NEW f \in Entity, block'[f] # 0
        PROVE  \E x \in items' : x.id = block'[f] /\ x.owner = f
    <3>1. CASE f = e /\ sync
      BY <2>1, <2>2, <2>3, <3>1
    <3>2. CASE ~(f = e /\ sync)
      BY <2>1, <2>3, <2>4, <3>2 DEF BlockedHasWait
    <3>3. QED
      BY <3>1, <3>2
  <2>5. \A x \in items' : x.owner \in alive'
    BY <2>1, <2>2 DEF BlockedHasWait
  <2>6. QED
    BY <2>4, <2>5 DEF BlockedHasWait
<1>10. ASSUME NEW it \in items, Timeout(it)
       PROVE  BlockedHasWait'
  BY <1>10, ItemGone DEF Timeout, TimeoutNow, TimeoutLater
<1>11. CASE UNCHANGED vars
  BY <1>1, <1>11 DEF vars
<1>12. QED
  BY <1>2, <1>3, <1>4, <1>5, <1>6, <1>7, <1>8, <1>9, <1>10, <1>11
     DEF Next, Loop, Push, Api

-----------------------------------------------------------------------------
(* The active list is exact.                                               *)

Ready(e) == e \in alive /\ mq[e] # <<>> /\ block[e] = 0

\* ActiveExact, entity by entity.
LEMMA ActiveByEntity ==
  TypeOK => (ActiveExact <=> /\ IsInjective(active)
                             /\ \A e \in Entity : e \in Range(active) <=> Ready(e))
<1> SUFFICES ASSUME TypeOK
             PROVE  ActiveExact <=> /\ IsInjective(active)
                                    /\ \A e \in Entity : e \in Range(active) <=> Ready(e)
  OBVIOUS
<1>1. Range(active) \subseteq Entity /\ alive \subseteq Entity
  BY DEF TypeOK, Range
<1>2. QED
  BY <1>1 DEF ActiveExact, Ready

\* One entity e is affected: what has to be shown of it, and of the others.
LEMMA OneAffected ==
  ASSUME TypeOK, TypeAndList', ActiveExact, NEW e \in Entity,
         \A f \in Entity \ {e} : /\ f \in Range(active') <=> f \in Range(active)
                                 /\ Ready(f)' <=> Ready(f),
         e \in Range(active') <=> Ready(e)'
  PROVE  ActiveExact'
<1>1. \A f \in Entity : f \in Range(active') <=> Ready(f)'
  <2>1. \A f \in Entity : f \in Range(active) <=> Ready(f)
    BY ActiveByEntity
  <2>2. ASSUME NEW f \in Entity \ {e} PROVE f \in Range(active') <=> Ready(f)'
    BY <2>1 DEF Ready
  <2>3. QED
    BY <2>2 DEF Ready
<1>2. TypeOK' /\ IsInjective(active')
  BY DEF TypeAndList
<1>3. Range(active') \subseteq Entity /\ alive' \subseteq Entity
  <2>1. active' \in Seq(Entity) /\ alive' \subseteq Entity
    BY <1>2 DEF TypeOK
  <2>2. QED
    BY <2>1 DEF Range
<1>4. Range(active') = {f \in alive' : mq'[f] # <<>> /\ block'[f] = 0}
  BY <1>1, <1>3 DEF Ready
<1>5. QED
  BY <1>2, <1>4 DEF ActiveExact

LEMMA ActiveStep ==
  /\ TypeAndList /\ TypeAndList'
  /\ Routed /\ BlockedHasWait /\ ActiveExact /\ [Next]_vars
  => ActiveExact'
<1> SUFFICES ASSUME TypeOK, IsInjective(active), TypeAndList',
                    Routed, BlockedHasWait, ActiveExact, [Next]_vars
             PROVE  ActiveExact'
  BY DEF TypeAndList
<1> USE EntityAssumption
<1>0. \A e \in Entity : e \in Range(active) <=> Ready(e)
  BY ActiveByEntity
<1>1. ASSUME UNCHANGED <<alive, mq, active, block>>
      PROVE  ActiveExact'
  BY <1>1 DEF ActiveExact
<1>2. CASE Arrive \/ PollDone \/ PushDone \/ Return
  BY <1>1, <1>2 DEF Arrive, PollDone, PushDone, Return
<1>3. CASE PushNoEntity \/ PushUnmatchedAck
  BY <1>1, <1>3 DEF PushNoEntity, PushUnmatchedAck
\* The outcome of a wait is known: its owner is released, and re-activated.
<1>4. ASSUME NEW it \in items,
             block[it.owner] \in {0, it.id},
             block' = Unblocked(it.owner),
             active' = Reactivated(it.owner, it),
             UNCHANGED <<alive, mq>>
      PROVE  ActiveExact'
  <2>1. it.owner \in Entity /\ it.owner \in alive /\ it.id # 0
    BY DEF TypeOK, WaitItem, WaitId, BlockedHasWait
  <2>2. \A f \in Entity : block'[f] = IF f = it.owner THEN 0 ELSE block[f]
    BY <1>4 DEF Unblocked, TypeOK
  <2>3. CASE block[it.owner] = it.id /\ mq[it.owner] # <<>>
    <3>1. Range(active') = Range(active) \cup {it.owner}
      BY <1>4, <2>1, <2>3, EnlistedTailProperties
         DEF Reactivated, Activated, TypeOK
    <3>2. QED
      BY <1>4, <2>1, <2>2, <2>3, <3>1, OneAffected DEF Ready
  <2>4. CASE ~(block[it.owner] = it.id /\ mq[it.owner] # <<>>)
    <3>1. active' = active
      BY <1>4, <2>4 DEF Reactivated
    <3>2. QED
      BY <1>0, <1>4, <2>1, <2>2, <2>4, <3>1, OneAffected DEF Ready
  <2>5. QED
    BY <2>3, <2>4
\* The outcome is put off: its owner is blocked.
<1>5. ASSUME NEW it \in items,
             block[it.owner] \notin {0, it.id},
             NEW q, mq' = [mq EXCEPT ![it.owner] = Append(@, q)],
             UNCHANGED <<alive, active, block>>
      PROVE  ActiveExact'
  <2>1. it.owner \in Entity
    BY DEF TypeOK, WaitItem
  <2>2. \A f \in Entity \ {it.owner} : mq'[f] = mq[f]
    BY <1>5 DEF TypeOK
  <2>3. QED
    BY <1>0, <1>5, <2>1, <2>2, OneAffected DEF Ready
<1>6. CASE PushAckNow
  <2>1. PICK it \in Found(Head(inq)) :
          /\ block[Head(inq).dst] \in {0, it.id}
          /\ block' = Unblocked(Head(inq).dst)
          /\ active' = Reactivated(Head(inq).dst, it)
    BY <1>6 DEF PushAckNow
  <2>2. it \in items /\ it.owner = Head(inq).dst
    BY <1>6, FoundOwner DEF PushAckNow
  <2>3. QED
    BY <1>4, <1>6, <2>1, <2>2 DEF PushAckNow
<1>7. CASE PushAckLater
  <2>1. PICK it \in Found(Head(inq)) :
          /\ block[Head(inq).dst] \notin {0, it.id}
          /\ mq' = [mq EXCEPT ![Head(inq).dst] =
                      Append(@, [id |-> Head(inq).id, wait |-> it.id])]
    BY <1>7 DEF PushAckLater
  <2>2. it \in items /\ it.owner = Head(inq).dst
    BY <1>7, FoundOwner DEF PushAckLater
  <2>3. QED
    BY <1>5, <1>7, <2>1, <2>2 DEF PushAckLater
<1>8. CASE PushData
  <2> DEFINE e == Head(inq).dst
             q == [id |-> Head(inq).id, wait |-> 0]
  <2>1. e \in Entity /\ e \in alive /\ UNCHANGED <<alive, block>>
    BY <1>8 DEF PushData, TypeOK
  <2>2. mq' = [mq EXCEPT ![e] = Append(@, q)]
    BY <1>8 DEF PushData
  <2>3. mq'[e] # <<>> /\ \A f \in Entity \ {e} : mq'[f] = mq[f]
    <3> HIDE DEF e, q
    <3>1. mq[e] \in Seq(Queued) /\ mq \in [Entity -> Seq(Queued)]
      BY <2>1 DEF TypeOK
    <3>2. Append(mq[e], q) # <<>>
      BY <3>1
    <3>3. QED
      BY <2>1, <2>2, <3>1, <3>2
  <2>4. CASE block[e] = 0
    <3>1. Range(active') = Range(active) \cup {e}
      BY <1>8, <2>1, <2>4, EnlistedTailProperties DEF PushData, Activated, TypeOK
    <3>2. QED
      BY <2>1, <2>3, <2>4, <3>1, OneAffected DEF Ready
  <2>5. CASE block[e] # 0
    <3>1. active' = active
      BY <1>8, <2>5 DEF PushData
    <3>2. QED
      BY <1>0, <2>1, <2>3, <2>5, <3>1, OneAffected DEF Ready
  <2>6. QED
    BY <2>4, <2>5
<1>9. ASSUME NEW e \in Entity, PopData(e) \/ PopTrigger(e)
      PROVE  ActiveExact'
  <2>1. /\ active # <<>> /\ e = Head(active)
        /\ mq' = [mq EXCEPT ![e] = Tail(@)]
        /\ active' = IF Tail(mq[e]) # <<>> THEN EnlistedTail(Tail(active), e)
                     ELSE Tail(active)
        /\ UNCHANGED <<alive, block>>
    BY <1>9 DEF PopData, PopTrigger, Popping, Popped, Activated
  <2>2. mq'[e] = Tail(mq[e]) /\ \A f \in Entity \ {e} : mq'[f] = mq[f]
    BY <2>1 DEF TypeOK
  <2>3. /\ Tail(active) \in Seq(Entity) /\ IsInjective(Tail(active))
        /\ e \in Range(active)
        /\ Range(Tail(active)) = Range(active) \ {e}
    BY <2>1, TailProperties DEF TypeOK
  <2>4. Ready(e)
    BY <1>0, <2>3
  <2>5. CASE Tail(mq[e]) # <<>>
    <3>1. active' = EnlistedTail(Tail(active), e)
      BY <2>1, <2>5
    <3>2. Range(active') = Range(active) \cup {e}
      <4>1. Range(EnlistedTail(Tail(active), e)) = Range(Tail(active)) \cup {e}
        <5> DEFINE rest == Tail(active)
        <5>1. rest \in Seq(Entity) /\ IsInjective(rest)
          BY <2>3
        <5> HIDE DEF rest
        <5>2. Range(EnlistedTail(rest, e)) = Range(rest) \cup {e}
          BY <5>1, EnlistedTailProperties
        <5>3. QED
          BY <5>2 DEF rest
      <4>2. QED
        BY <2>3, <3>1, <4>1
    <3>3. QED
      BY <2>1, <2>2, <2>4, <2>5, <3>2, OneAffected DEF Ready
  <2>6. CASE Tail(mq[e]) = <<>>
    <3>1. active' = Tail(active)
      BY <2>1, <2>6
    <3>2. QED
      BY <2>1, <2>2, <2>3, <2>6, <3>1, OneAffected DEF Ready
  <2>7. QED
    BY <2>5, <2>6
<1>10. CASE PopDone
  <2>1. active = <<>>
    <3> SUFFICES ASSUME active # <<>> PROVE FALSE
      OBVIOUS
    <3>1. Head(active) \in Entity /\ Head(active) \in Range(active)
      BY TailProperties DEF TypeOK
    <3>2. mq[Head(active)] # <<>>
      BY <1>0, <3>1 DEF Ready
    <3>3. QED
      BY <1>10, <3>1, <3>2 DEF PopDone, Popping
  <2>2. QED
    BY <1>1, <1>10, <2>1 DEF PopDone
<1>11. ASSUME NEW e \in Entity, Create(e)
       PROVE  ActiveExact'
  <2>1. /\ mq'[e] = <<>> /\ e \notin Range(active)
        /\ \A f \in Entity \ {e} : /\ mq'[f] = mq[f]
                                   /\ block'[f] = block[f]
                                   /\ f \in alive' <=> f \in alive
        /\ active' = active
    BY <1>0, <1>11 DEF Create, TypeOK, Ready
  <2>2. QED
    BY <2>1, OneAffected DEF Ready
<1>12. ASSUME NEW e \in Entity, Destroy(e)
       PROVE  ActiveExact'
  <2>1. /\ mq'[e] = <<>>
        /\ \A f \in Entity \ {e} : /\ mq'[f] = mq[f]
                                   /\ block'[f] = block[f]
                                   /\ f \in alive' <=> f \in alive
    BY <1>12 DEF Destroy, TypeOK
  <2>2. Range(active') = Range(active) \ {e}
    BY <1>12, DelistedProperties DEF Destroy, Deactivated, TypeOK
  <2>3. QED
    BY <2>1, <2>2, OneAffected DEF Ready
<1>13. ASSUME NEW e \in Entity, GenSeqId(e)
       PROVE  ActiveExact'
  BY <1>1, <1>13 DEF GenSeqId
<1>14. ASSUME NEW e \in Entity, NEW sync \in BOOLEAN, NEW p \in Peer,
              NEW s \in 1..Len(issued), WaitMsg(e, sync, p, s)
       PROVE  ActiveExact'
  <2>1. CASE sync
    <3>1. Range(active') = Range(active) \ {e}
      <4>0. active \in Seq(Entity)
        BY DEF TypeOK
      <4>1. Range(Delisted(active, e)) = Range(active) \ {e}
        BY <4>0, DelistedProperties
      <4>2. active' = Delisted(active, e)
        BY <1>14, <2>1 DEF WaitMsg, Deactivated
      <4>3. QED
        BY <4>1, <4>2
    <3>2. /\ block'[e] = waits + 1
          /\ \A f \in Entity \ {e} : block'[f] = block[f]
          /\ UNCHANGED <<alive, mq>>
      BY <1>14, <2>1 DEF WaitMsg, NextWaitId, TypeOK
    <3>3. waits + 1 # 0
      BY DEF TypeOK
    <3>4. QED
      BY <3>1, <3>2, <3>3, OneAffected DEF Ready
  <2>2. CASE ~sync
    BY <1>1, <1>14, <2>2 DEF WaitMsg
  <2>3. QED
    BY <2>1, <2>2
<1>15. ASSUME NEW it \in items, Timeout(it)
       PROVE  ActiveExact'
  <2>1. CASE TimeoutNow(it)
    BY <1>4, <2>1 DEF TimeoutNow
  <2>2. CASE TimeoutLater(it)
    BY <1>5, <2>2 DEF TimeoutLater
  <2>3. QED
    BY <1>15, <2>1, <2>2 DEF Timeout
<1>16. CASE UNCHANGED vars
  BY <1>1, <1>16 DEF vars
<1>17. QED
  BY <1>2, <1>3, <1>6, <1>7, <1>8, <1>9, <1>10, <1>11, <1>12, <1>13, <1>14,
     <1>15, <1>16 DEF Next, Loop, Push, Pop, Api

-----------------------------------------------------------------------------
(* The inductive invariant of the scheduler.                               *)

\* The list and the blocking can only be shown together with the routing of
\* requests, waits and acks: an ack must release its own entity.
SchedInv == TypeAndList /\ Routed /\ BlockedHasWait /\ ActiveExact

LEMMA SchedInit == Init => SchedInv
<1> SUFFICES ASSUME Init PROVE SchedInv
  OBVIOUS
<1>1. TypeAndList
  BY TypeInit
<1>2. Routed
  BY DEF Init, Routed, ItemsSound, AcksRouted
<1>3. BlockedHasWait
  BY DEF Init, BlockedHasWait
<1>4. Range(active) = {} /\ \A e \in Entity : mq[e] = <<>>
  BY DEF Init, Range
<1>5. ActiveExact
  <2>1. IsInjective(active) /\ alive = Entity
    BY <1>1 DEF TypeAndList, Init
  <2>2. QED
    BY <1>4, <2>1 DEF ActiveExact
<1>6. QED
  BY <1>1, <1>2, <1>3, <1>5 DEF SchedInv

LEMMA SchedStep == SchedInv /\ [Next]_vars => SchedInv'
<1> SUFFICES ASSUME SchedInv, [Next]_vars PROVE SchedInv'
  OBVIOUS
<1>1. /\ TypeAndList /\ TypeOK
      /\ Routed /\ BlockedHasWait /\ ActiveExact
  BY DEF SchedInv, TypeAndList
<1>2. TypeAndList'
  BY <1>1, TypeStep
<1>3. Routed'
  BY <1>1, RoutedStep
<1>4. BlockedHasWait'
  BY <1>1, BlockedStep
<1>5. ActiveExact'
  BY <1>1, <1>2, ActiveStep
<1>6. QED
  BY <1>2, <1>3, <1>4, <1>5 DEF SchedInv

\* Whatever messages, acks, timeouts and API calls come, the active list of
\* jetnet_ewrapper.c holds exactly the entities that can handle a message.
THEOREM ActiveListExact == Spec => []ActiveExact
<1>1. SchedInv => ActiveExact
  BY DEF SchedInv
<1>2. QED
  BY <1>1, SchedInit, SchedStep, PTL DEF Spec

\* An entity blocked by jetnet_entity_wait_msg always has the wait item that
\* will release it, and no wait item outlives its entity.
THEOREM BlockedCanWake == Spec => []BlockedHasWait
<1>1. SchedInv => BlockedHasWait
  BY DEF SchedInv
<1>2. QED
  BY <1>1, SchedInit, SchedStep, PTL DEF Spec

-----------------------------------------------------------------------------
(* What happens to the entries of the queues when one queue changes.       *)

\* What is in some of the queues, by its place.
LEMMA Places ==
  ASSUME NEW S, NEW s \in [Entity -> Seq(S)], NEW q
  PROVE  q \in UNION {Range(s[e]) : e \in Entity} <=>
           \E e \in Entity : \E i \in 1 .. Len(s[e]) : q = s[e][i]
<1>1. \A e \in Entity : s[e] \in Seq(S) /\ DOMAIN s[e] = 1 .. Len(s[e])
  OBVIOUS
<1>2. \A e \in Entity :
        q \in Range(s[e]) <=> \E i \in 1 .. Len(s[e]) : q = s[e][i]
  BY <1>1 DEF Range
<1>3. q \in UNION {Range(s[e]) : e \in Entity} <=> \E e \in Entity : q \in Range(s[e])
  OBVIOUS
<1>4. QED
  BY <1>2, <1>3

\* The entries, by their places, in a state and in the next one.
LEMMA EntryPlaces ==
  ASSUME TypeOK, TypeOK'
  PROVE  /\ \A q : q \in Entries <=>
                \E e \in Entity : \E i \in 1 .. Len(mq[e]) : q = mq[e][i]
         /\ \A q : q \in Entries' <=>
                \E e \in Entity : \E i \in 1 .. Len(mq'[e]) : q = mq'[e][i]
<1>1. mq \in [Entity -> Seq(Queued)] /\ mq' \in [Entity -> Seq(Queued)]
  BY DEF TypeOK
<1>2. QED
  BY <1>1, Places DEF Entries

\* The head of a queue goes: nothing else has its key.
LEMMA HeadGone ==
  ASSUME TypeOK, TypeOK', NEW k, DistinctEntries(k), NEW e \in Entity,
         mq[e] # <<>>, mq' = [mq EXCEPT ![e] = Tail(@)]
  PROVE  /\ DistinctEntries(k)'
         /\ Entries' \subseteq Entries
         /\ \A q \in Entries' : q[k] # 0 => q[k] # Head(mq[e])[k]
         /\ Head(mq[e]) \in Entries
<1> DEFINE old(f, i) == IF f = e THEN i + 1 ELSE i
<1>1. mq[e] \in Seq(Queued) /\ mq \in [Entity -> Seq(Queued)]
  BY DEF TypeOK
<1>2. /\ Len(Tail(mq[e])) = Len(mq[e]) - 1 /\ Len(mq[e]) \in Nat \ {0}
      /\ \A i \in 1 .. Len(Tail(mq[e])) : Tail(mq[e])[i] = mq[e][i + 1]
      /\ Head(mq[e]) = mq[e][1]
  BY <1>1, HeadTailProperties
<1>0. mq' \in [Entity -> Seq(Queued)]
  BY DEF TypeOK
<1>3. \A f \in Entity : /\ Len(mq[f]) \in Nat /\ DOMAIN mq[f] = 1 .. Len(mq[f])
                        /\ DOMAIN mq'[f] = 1 .. Len(mq'[f])
                        /\ mq'[f] = IF f = e THEN Tail(mq[e]) ELSE mq[f]
  BY <1>0, <1>1
<1>4. ASSUME NEW f \in Entity, NEW i \in 1 .. Len(mq'[f])
      PROVE  /\ old(f, i) \in 1 .. Len(mq[f]) /\ mq'[f][i] = mq[f][old(f, i)]
             /\ ~(f = e /\ old(f, i) = 1)
  <2>1. CASE f = e
    <3>1. mq'[f] = Tail(mq[e]) /\ mq[f] = mq[e]
      BY <1>3, <2>1
    <3>2. i \in 1 .. Len(Tail(mq[e])) /\ Tail(mq[e])[i] = mq[e][i + 1]
      BY <1>2, <3>1
    <3>3. old(f, i) = i + 1 /\ i + 1 \in 1 .. Len(mq[e]) /\ i + 1 # 1
      BY <1>2, <2>1, <3>2
    <3>4. QED
      BY <3>1, <3>2, <3>3
  <2>2. CASE f # e
    BY <1>3, <2>2
  <2>3. QED
    BY <2>1, <2>2
<1>5. DistinctEntries(k)'
  <2> SUFFICES ASSUME NEW f \in Entity, NEW g \in Entity,
                      NEW i \in DOMAIN mq'[f], NEW j \in DOMAIN mq'[g],
                      mq'[f][i][k] = mq'[g][j][k], mq'[f][i][k] # 0
               PROVE  f = g /\ i = j
    BY SMT DEF DistinctEntries
  <2>0. i \in 1 .. Len(mq'[f]) /\ j \in 1 .. Len(mq'[g])
    BY <1>3
  <2>1. /\ old(f, i) \in DOMAIN mq[f] /\ old(g, j) \in DOMAIN mq[g]
        /\ mq'[f][i] = mq[f][old(f, i)] /\ mq'[g][j] = mq[g][old(g, j)]
    BY <1>3, <1>4, <2>0
  <2> HIDE DEF old
  <2>1a. f = g /\ old(f, i) = old(g, j)
    BY <2>1 DEF DistinctEntries
  <2>2. QED
    BY <2>0, <2>1a DEF old
<1>6. ASSUME NEW q \in Entries'
      PROVE  q \in Entries /\ (q[k] # 0 => q[k] # Head(mq[e])[k])
  <2>1. PICK f \in Entity : \E i \in 1 .. Len(mq'[f]) : q = mq'[f][i]
    BY EntryPlaces
  <2>1a. PICK i \in 1 .. Len(mq'[f]) : q = mq'[f][i]
    BY <2>1
  <2>2. q = mq[f][old(f, i)] /\ old(f, i) \in 1 .. Len(mq[f])
    BY <1>4, <2>1a
  <2>3. q \in Entries
    BY <2>2, EntryPlaces
  <2>4. q[k] # 0 => q[k] # mq[e][1][k]
    <3>1. /\ old(f, i) \in DOMAIN mq[f] /\ 1 \in DOMAIN mq[e]
          /\ ~(f = e /\ old(f, i) = 1)
      BY <1>2, <1>3, <1>4, <2>1a
    <3> HIDE DEF old
    <3>2. QED
      BY <2>2, <3>1 DEF DistinctEntries
  <2>5. QED
    BY <1>2, <2>3, <2>4
<1>7. Head(mq[e]) \in Entries
  BY <1>2, EntryPlaces
<1>8. QED
  BY <1>5, <1>6, <1>7
\* A queue is emptied: nothing else has a key of what was in it.
LEMMA QueueGone ==
  ASSUME TypeOK, TypeOK', NEW k, DistinctEntries(k), NEW e \in Entity,
         mq' = [mq EXCEPT ![e] = <<>>]
  PROVE  /\ DistinctEntries(k)'
         /\ Entries' \subseteq Entries
         /\ \A q \in Entries' : q[k] # 0 =>
              \A i \in 1 .. Len(mq[e]) : q[k] # mq[e][i][k]
         /\ \A i \in 1 .. Len(mq[e]) : mq[e][i] \in Entries
<1>1. \A f \in Entity : /\ Len(mq[f]) \in Nat /\ DOMAIN mq[f] = 1 .. Len(mq[f])
                        /\ DOMAIN mq'[f] = 1 .. Len(mq'[f])
  <2>1. mq \in [Entity -> Seq(Queued)] /\ mq' \in [Entity -> Seq(Queued)]
    BY DEF TypeOK
  <2>2. \A f \in Entity : mq[f] \in Seq(Queued) /\ mq'[f] \in Seq(Queued)
    BY <2>1
  <2>3. QED
    BY <2>2
<1>2. /\ Len(mq'[e]) = 0
      /\ \A f \in Entity \ {e} : mq'[f] = mq[f]
  BY DEF TypeOK
<1>3. DistinctEntries(k)'
  BY <1>1, <1>2 DEF DistinctEntries
<1>4. ASSUME NEW q \in Entries'
      PROVE  /\ q \in Entries
             /\ q[k] # 0 => \A i \in 1 .. Len(mq[e]) : q[k] # mq[e][i][k]
  <2>1. PICK f \in Entity : \E i \in 1 .. Len(mq'[f]) : q = mq'[f][i]
    BY EntryPlaces
  <2>2. PICK i \in 1 .. Len(mq'[f]) : q = mq'[f][i]
    BY <2>1
  <2>3. f # e /\ i \in DOMAIN mq[f] /\ q = mq[f][i]
    BY <1>1, <1>2, <2>2
  <2>4. q \in Entries
    BY <1>1, <2>3, EntryPlaces
  <2>5. QED
    BY <1>1, <2>3, <2>4 DEF DistinctEntries
<1>5. \A i \in 1 .. Len(mq[e]) : mq[e][i] \in Entries
  BY EntryPlaces
<1>6. QED
  BY <1>3, <1>4, <1>5

\* An entry comes to the end of a queue: its key must be new, or 0.
LEMMA EntryComes ==
  ASSUME TypeOK, TypeOK', NEW k, DistinctEntries(k), NEW e \in Entity, NEW q,
         mq' = [mq EXCEPT ![e] = Append(@, q)],
         q[k] = 0 \/ \A r \in Entries : r[k] # q[k]
  PROVE  /\ DistinctEntries(k)'
         /\ Entries' = Entries \cup {q}
<1>1. mq \in [Entity -> Seq(Queued)] /\ mq' \in [Entity -> Seq(Queued)]
  BY DEF TypeOK
<1>2. \A f \in Entity : /\ Len(mq[f]) \in Nat /\ DOMAIN mq[f] = 1 .. Len(mq[f])
                        /\ DOMAIN mq'[f] = 1 .. Len(mq'[f])
                        /\ f # e => mq'[f] = mq[f]
  BY <1>1
<1>3. /\ Len(mq'[e]) = Len(mq[e]) + 1 /\ mq'[e][Len(mq[e]) + 1] = q
      /\ \A i \in 1 .. Len(mq[e]) : mq'[e][i] = mq[e][i]
  <2>1. mq'[e] = Append(mq[e], q) /\ mq[e] \in Seq(Queued)
    BY <1>1
  <2>2. QED
    BY <2>1
<1>4. ASSUME NEW f \in Entity, NEW i \in 1 .. Len(mq'[f])
      PROVE  \/ i \in DOMAIN mq[f] /\ mq'[f][i] = mq[f][i] /\ mq[f][i] \in Entries
             \/ f = e /\ i = Len(mq[e]) + 1 /\ mq'[f][i] = q
  BY <1>2, <1>3, EntryPlaces
<1>5. DistinctEntries(k)'
  BY <1>2, <1>4 DEF DistinctEntries
<1>6. ASSUME NEW r \in Entries'
      PROVE  r \in Entries \cup {q}
  <2>1. PICK f \in Entity : \E i \in 1 .. Len(mq'[f]) : r = mq'[f][i]
    BY EntryPlaces
  <2>2. QED
    BY <1>4, <2>1
<1>7. ASSUME NEW r \in Entries
      PROVE  r \in Entries'
  <2>1. PICK f \in Entity : \E i \in 1 .. Len(mq[f]) : r = mq[f][i]
    BY EntryPlaces
  <2>2. \E i \in 1 .. Len(mq'[f]) : r = mq'[f][i]
    BY <1>2, <1>3, <2>1
  <2>3. QED
    BY <2>2, EntryPlaces
<1>8. q \in Entries'
  <2>1. Len(mq'[e]) \in 1 .. Len(mq'[e]) /\ q = mq'[e][Len(mq'[e])]
    BY <1>2, <1>3
  <2>2. QED
    BY <2>1, EntryPlaces
<1>9. QED
  BY <1>5, <1>6, <1>7, <1>8
-----------------------------------------------------------------------------
(* A message has one holder.                                               *)

\* No two messages of the loop's queue are the same.
DistinctInq == \A i, j \in DOMAIN inq : inq[i].id = inq[j].id => i = j

\* What the loop, the queues, a callback and jetnet_free have is apart.
Apart(loop, queues, c, gone) ==
  /\ loop \cap queues = {}
  /\ c \notin loop \cup queues
  /\ gone \cap (loop \cup queues \cup {c}) = {}

Holders == <<InLoop, InQueues, cur, freed>>

LEMMA OneHolderParts ==
  OneHolder <=> /\ DistinctInq
                /\ DistinctEntries("id")
                /\ Apart(InLoop, InQueues, cur, freed)
  BY DEF OneHolder, DistinctInq, Apart

\* The head of the loop's queue goes.
LEMMA InqHeadGone ==
  ASSUME TypeOK, DistinctInq, inq # <<>>, inq' = Tail(inq)
  PROVE  /\ DistinctInq'
         /\ InLoop' \subseteq InLoop
         /\ Head(inq).id \in InLoop /\ Head(inq).id \notin InLoop'
<1>1. inq \in Seq(Data \cup Ack)
  BY DEF TypeOK
<1>2. /\ Len(inq) \in Nat \ {0} /\ DOMAIN inq = 1 .. Len(inq)
      /\ DOMAIN inq' = 1 .. Len(inq) - 1
      /\ \A i \in DOMAIN inq' : inq'[i] = inq[i + 1]
      /\ Head(inq) = inq[1]
  BY <1>1, HeadTailProperties
<1>3. \A i \in DOMAIN inq' : i + 1 \in DOMAIN inq /\ i + 1 # 1
  BY <1>2
<1>4. 1 \in DOMAIN inq
  BY <1>2
<1>5. DistinctInq'
  <2> SUFFICES ASSUME NEW i \in DOMAIN inq', NEW j \in DOMAIN inq',
                      inq'[i].id = inq'[j].id
               PROVE  i = j
    BY DEF DistinctInq
  <2>1. i + 1 = j + 1
    BY <1>2, <1>3 DEF DistinctInq
  <2>2. QED
    BY <1>2, <2>1
<1>6. Head(inq).id \in InLoop
  BY <1>2, <1>4 DEF InLoop
<1>7. ASSUME NEW i \in DOMAIN inq'
      PROVE  inq'[i].id \in InLoop /\ inq'[i].id # Head(inq).id
  BY <1>2, <1>3, <1>4 DEF InLoop, DistinctInq
<1>8. QED
  BY <1>5, <1>6, <1>7 DEF InLoop

HolderInv == OnlyArrived /\ OneHolder

LEMMA HolderInit == Init => HolderInv
<1> SUFFICES ASSUME Init PROVE HolderInv
  OBVIOUS
<1>1. DOMAIN inq = {} /\ cur = 0 /\ freed = {}
  BY DEF Init
<1>2. \A e \in Entity : mq[e] = <<>>
  BY DEF Init
<1>3. InLoop = {}
  BY <1>1 DEF InLoop
<1>4. Entries = {}
  <2>1. \A e \in Entity : Range(mq[e]) = {}
    BY <1>2 DEF Range
  <2>2. QED
    BY <2>1 DEF Entries
<1>5. InQueues = {}
  BY <1>4 DEF InQueues
<1>6. DistinctInq /\ DistinctEntries("id")
  BY <1>1, <1>2 DEF DistinctInq, DistinctEntries
<1>7. QED
  <2>1. OneHolder
    BY <1>1, <1>3, <1>5, <1>6, OneHolderParts DEF Apart
  <2>2. OnlyArrived
    BY <1>1, <1>3, <1>5, EntityAssumption DEF OnlyArrived, Init
  <2>3. QED
    BY <2>1, <2>2 DEF HolderInv

LEMMA HolderStep ==
  TypeOK /\ TypeOK' /\ HolderInv /\ [Next]_vars => HolderInv'
<1> SUFFICES ASSUME TypeOK, TypeOK', HolderInv, [Next]_vars
             PROVE  HolderInv'
  OBVIOUS
<1> USE EntityAssumption
<1>0. /\ DistinctInq /\ DistinctEntries("id")
      /\ Apart(InLoop, InQueues, cur, freed)
      /\ InLoop \cup InQueues \cup {cur} \cup freed \subseteq 0 .. arrived
  BY OneHolderParts DEF HolderInv, OnlyArrived
<1>q. ASSUME DistinctInq', DistinctEntries("id")',
             Apart(InLoop', InQueues', cur', freed'),
             InLoop' \cup InQueues' \cup {cur'} \cup freed' \subseteq 0 .. arrived'
      PROVE  HolderInv'
  BY <1>q DEF HolderInv, OnlyArrived, OneHolder, DistinctInq, Apart
<1>types. /\ arrived \in Nat /\ freed \subseteq MsgId /\ freed' \subseteq MsgId
          /\ inq \in Seq(Data \cup Ack)
          /\ \A m \in Data \cup Ack : m.id \in MsgId
          /\ 0 \notin MsgId
  <2>1. \A m \in Data \cup Ack : m.id \in MsgId
    BY DEF Data, Ack
  <2>2. 0 \notin MsgId
    BY DEF MsgId
  <2>3. QED
    BY <2>1, <2>2 DEF TypeOK
\* A step that leaves inq alone, or mq.
<1>i. ASSUME UNCHANGED inq
      PROVE  DistinctInq' /\ InLoop' = InLoop
  BY <1>i, <1>0 DEF DistinctInq, InLoop
<1>m. ASSUME UNCHANGED mq
      PROVE  DistinctEntries("id")' /\ InQueues' = InQueues
  BY <1>m, <1>0 DEF DistinctEntries, InQueues, Entries
<1>1. CASE Arrive
  <2>1. PICK m \in Data \cup Ack : inq' = Append(inq, m) /\ m.id = arrived + 1
    <3>1. ASSUME NEW e \in Entity,
                 inq' = Append(inq, [id |-> arrived + 1, ack |-> FALSE, dst |-> e])
          PROVE  \E m \in Data \cup Ack : inq' = Append(inq, m) /\ m.id = arrived + 1
      <4>1. [id |-> arrived + 1, ack |-> FALSE, dst |-> e] \in Data
        BY <1>1 DEF Arrive, TypeOK, Data, MsgId
      <4>2. QED
        BY <3>1, <4>1
    <3>2. ASSUME NEW p \in Peer, NEW s \in 1..Len(issued),
                 inq' = Append(inq, [id |-> arrived + 1, ack |-> TRUE,
                              dst |-> issued[s], src |-> p, seq |-> s])
          PROVE  \E m \in Data \cup Ack : inq' = Append(inq, m) /\ m.id = arrived + 1
      <4>1. [id |-> arrived + 1, ack |-> TRUE, dst |-> issued[s], src |-> p,
             seq |-> s] \in Ack
        <5>1. arrived + 1 \in MsgId
          BY <1>1 DEF Arrive, TypeOK, MsgId
        <5>2. issued[s] \in Entity /\ s \in 1 .. MaxSeq
          BY <3>2 DEF TypeOK
        <5>3. QED
          BY <5>1, <5>2 DEF Ack
      <4>2. QED
        BY <3>2, <4>1
    <3>3. QED
      BY <1>1, <3>1, <3>2 DEF Arrive
  <2>2. /\ DOMAIN inq = 1 .. Len(inq) /\ DOMAIN inq' = 1 .. Len(inq) + 1
        /\ Len(inq) \in Nat
        /\ \A i \in DOMAIN inq : inq'[i] = inq[i]
        /\ inq'[Len(inq) + 1] = m
    BY <2>1, <1>types
  <2>3. \A i \in DOMAIN inq : inq[i].id \in InLoop /\ inq[i].id # arrived + 1
    <3>1. \A i \in DOMAIN inq : inq[i].id \in InLoop
      BY DEF InLoop
    <3>2. \A x \in InLoop : x \in 0 .. arrived
      BY <1>0
    <3>3. arrived + 1 \notin 0 .. arrived
      BY <1>types
    <3>4. QED
      BY <3>1, <3>2, <3>3
  <2>4. DistinctInq'
    BY <2>1, <2>2, <2>3, <1>0 DEF DistinctInq
  <2>5. InLoop' = InLoop \cup {arrived + 1}
    <3>1. \A i \in DOMAIN inq' : inq'[i].id \in InLoop \cup {arrived + 1}
      BY <2>1, <2>2, <2>3
    <3>2. \A i \in DOMAIN inq : inq[i].id \in InLoop'
      BY <2>2 DEF InLoop
    <3>3. arrived + 1 \in InLoop'
      <4>1. Len(inq) + 1 \in DOMAIN inq' /\ inq'[Len(inq) + 1].id = arrived + 1
        BY <2>1, <2>2
      <4>2. QED
        BY <4>1 DEF InLoop
    <3>4. QED
      BY <3>1, <3>2, <3>3 DEF InLoop
  <2>6. UNCHANGED <<mq, cur, freed>> /\ arrived' = arrived + 1
    BY <1>1 DEF Arrive
  <2>7. arrived + 1 \notin 0 .. arrived /\ 0 .. arrived \subseteq 0 .. arrived'
    BY <2>6, <1>types
  <2>8. QED
    <3>1. InQueues' = InQueues /\ DistinctEntries("id")'
      BY <2>6, <1>m
    <3>2. Apart(InLoop', InQueues', cur', freed')
      BY <2>5, <2>6, <2>7, <3>1, <1>0 DEF Apart
    <3>3. arrived + 1 \in 0 .. arrived'
      BY <2>6, <1>types
    <3>4. QED
      BY <2>4, <2>5, <2>6, <2>7, <3>1, <3>2, <3>3, <1>0, <1>q
\* The loop frees the message it pushed.
<1>2. CASE PushNoEntity \/ PushUnmatchedAck
  <2>1. /\ inq # <<>> /\ inq' = Tail(inq) /\ freed' = freed \cup {Head(inq).id}
        /\ UNCHANGED <<mq, cur, arrived>>
    BY <1>2 DEF PushNoEntity, PushUnmatchedAck, Pushing, AfterPush
  <2>2. QED
    BY <2>1, <1>0, <1>m, <1>q, InqHeadGone DEF Apart
\* The callback is given the message.
<1>3. CASE PushAckNow
  <2>1. /\ inq # <<>> /\ inq' = Tail(inq) /\ cur' = Head(inq).id
        /\ UNCHANGED <<mq, freed, arrived>>
    BY <1>3 DEF PushAckNow, Pushing
  <2>2. QED
    BY <2>1, <1>0, <1>m, <1>q, InqHeadGone DEF Apart
\* The message goes to a queue.
<1>4. ASSUME NEW e \in Entity, NEW w,
             inq # <<>>, inq' = Tail(inq),
             mq' = [mq EXCEPT ![e] = Append(@, [id |-> Head(inq).id, wait |-> w])],
             UNCHANGED <<cur, freed, arrived>>
      PROVE  HolderInv'
  <2> DEFINE q == [id |-> Head(inq).id, wait |-> w]
  <2>1. /\ DistinctInq' /\ InLoop' \subseteq InLoop
        /\ q.id \in InLoop /\ q.id \notin InLoop'
    BY <1>4, <1>0, InqHeadGone
  <2>2. \A r \in Entries : r.id # q.id
    <3>1. q.id # 0
      BY <1>4, <1>types
    <3>2. q.id \notin InQueues
      BY <2>1, <1>0 DEF Apart
    <3>3. QED
      BY <3>1, <3>2 DEF InQueues
  <2>3. DistinctEntries("id")' /\ Entries' = Entries \cup {q}
    <3> HIDE DEF q
    <3>1. mq' = [mq EXCEPT ![e] = Append(@, q)]
      BY <1>4 DEF q
    <3>2. \A r \in Entries : r["id"] # q["id"]
      BY <2>2
    <3>3. QED
      BY <3>1, <3>2, <1>0, EntryComes
  <2>4. InQueues' = (InQueues \cup {q.id}) \ {0}
    BY <2>3 DEF InQueues
  <2> HIDE DEF q
  <2>5. InQueues' \subseteq InQueues \cup {q.id}
    BY <2>4
  <2>6. Apart(InLoop', InQueues', cur', freed')
    BY <1>4, <2>1, <2>5, <1>0 DEF Apart
  <2>7. QED
    BY <1>4, <2>1, <2>3, <2>5, <2>6, <1>0, <1>q
<1>5. CASE PushAckLater
  <2>1. PICK it \in Found(Head(inq)) :
          mq' = [mq EXCEPT ![Head(inq).dst] =
                   Append(@, [id |-> Head(inq).id, wait |-> it.id])]
    BY <1>5 DEF PushAckLater
  <2>2. /\ Head(inq).dst \in Entity /\ inq # <<>> /\ inq' = Tail(inq)
        /\ UNCHANGED <<cur, freed, arrived>>
    BY <1>5 DEF PushAckLater, Pushing, AfterPush, TypeOK
  <2>3. QED
    BY <2>1, <2>2, <1>4
<1>6. CASE PushData
  <2>1. mq' = [mq EXCEPT ![Head(inq).dst] =
                 Append(@, [id |-> Head(inq).id, wait |-> 0])]
    BY <1>6 DEF PushData
  <2>2. /\ Head(inq).dst \in Entity /\ inq # <<>> /\ inq' = Tail(inq)
        /\ UNCHANGED <<cur, freed, arrived>>
    BY <1>6 DEF PushData, Pushing, AfterPush, TypeOK
  <2>3. QED
    BY <2>1, <2>2, <1>4
\* The message leaves its queue for a callback.
<1>7. ASSUME NEW e \in Entity, PopData(e) \/ PopTrigger(e)
      PROVE  HolderInv'
  <2>1. /\ mq[e] # <<>> /\ mq' = [mq EXCEPT ![e] = Tail(@)]
        /\ cur' = Head(mq[e]).id
        /\ UNCHANGED <<inq, freed, arrived>>
    BY <1>7 DEF PopData, PopTrigger, Popping, Popped
  <2>2. /\ DistinctEntries("id")' /\ Entries' \subseteq Entries
        /\ \A q \in Entries' : q["id"] # 0 => q["id"] # Head(mq[e])["id"]
        /\ Head(mq[e]) \in Entries
    BY <2>1, <1>0, HeadGone
  <2>3. /\ InQueues' \subseteq InQueues
        /\ cur' \notin InQueues'
        /\ cur' \in InQueues \cup {0}
    BY <2>1, <2>2 DEF InQueues
  <2>4. 0 \notin InLoop
    BY <1>types DEF InLoop
  <2>5. QED
    <3>1. InLoop' = InLoop /\ DistinctInq'
      BY <2>1, <1>i
    <3>2. Apart(InLoop', InQueues', cur', freed')
      BY <2>1, <2>3, <2>4, <3>1, <1>0, <1>types DEF Apart
    <3>3. 0 \in 0 .. arrived
      BY <1>types
    <3>4. QED
      BY <2>1, <2>2, <2>3, <3>1, <3>2, <3>3, <1>0, <1>q
<1>8. CASE Return
  <2>1. /\ cur' = 0 /\ freed' = freed \cup ({cur} \ {0})
        /\ UNCHANGED <<mq, inq, arrived>>
    BY <1>8 DEF Return
  <2>2. 0 \notin InLoop /\ 0 \notin InQueues /\ 0 \notin freed'
    BY <2>1, <1>types DEF InLoop, InQueues
  <2>3. InLoop' = InLoop /\ InQueues' = InQueues
    BY <2>1, <1>i, <1>m
  <2>4. Apart(InLoop', InQueues', cur', freed')
    BY <2>1, <2>2, <2>3, <1>0 DEF Apart
  <2>5. 0 \in 0 .. arrived
    BY <1>types
  <2>6. QED
    BY <2>1, <2>3, <2>4, <2>5, <1>0, <1>i, <1>m, <1>q
\* A destroyed entity's messages are freed with its queue.
<1>9. ASSUME NEW e \in Entity, Destroy(e)
      PROVE  HolderInv'
  <2>1. /\ mq' = [mq EXCEPT ![e] = <<>>]
        /\ freed' = freed \cup {q.id : q \in {x \in Range(mq[e]) : x.wait = 0}}
        /\ UNCHANGED <<inq, cur, arrived>>
    BY <1>9 DEF Destroy
  <2>2. /\ DistinctEntries("id")' /\ Entries' \subseteq Entries
        /\ \A q \in Entries' : q["id"] # 0 =>
             \A i \in 1 .. Len(mq[e]) : q["id"] # mq[e][i]["id"]
        /\ \A i \in 1 .. Len(mq[e]) : mq[e][i] \in Entries
    BY <2>1, <1>0, QueueGone
  <2>3. /\ mq[e] \in Seq(Queued)
        /\ \A q \in Range(mq[e]) : \E i \in 1 .. Len(mq[e]) : q = mq[e][i]
    <3>1. mq[e] \in Seq(Queued)
      BY DEF TypeOK
    <3>2. QED
      BY <3>1 DEF Range
  <2>4. \A x \in freed' \ freed : x \in InQueues /\ x \notin InQueues'
    <3>1. ASSUME NEW x \in freed', x \notin freed
          PROVE  x \in InQueues /\ x \notin InQueues'
      <4>1. PICK q \in Range(mq[e]) : x = q.id
        BY <2>1, <3>1
      <4>2. PICK i \in 1 .. Len(mq[e]) : q = mq[e][i]
        BY <2>3, <4>1
      <4>3. x # 0
        BY <3>1, <1>types
      <4>4. x \in InQueues
        BY <2>2, <4>1, <4>2, <4>3 DEF InQueues
      <4>5. x \notin InQueues'
        BY <2>2, <4>1, <4>2, <4>3 DEF InQueues
      <4>6. QED
        BY <4>4, <4>5
    <3>2. QED
      BY <3>1
  <2>5. InQueues' \subseteq InQueues
    BY <2>2 DEF InQueues
  <2>6. InLoop' = InLoop /\ DistinctInq'
    BY <2>1, <1>i
  <2>7. Apart(InLoop', InQueues', cur', freed')
    BY <2>1, <2>4, <2>5, <2>6, <1>0 DEF Apart
  <2>8. freed' \subseteq 0 .. arrived
    BY <2>4, <1>0
  <2>9. QED
    BY <2>1, <2>2, <2>5, <2>6, <2>7, <2>8, <1>0, <1>q
<1>10. ASSUME NEW e \in Entity, Create(e)
       PROVE  HolderInv'
  <2>1. /\ mq' = [mq EXCEPT ![e] = <<>>]
        /\ UNCHANGED <<inq, cur, freed, arrived>>
    BY <1>10 DEF Create
  <2>2. DistinctEntries("id")' /\ Entries' \subseteq Entries
    BY <2>1, <1>0, QueueGone
  <2>3. InQueues' \subseteq InQueues
    BY <2>2 DEF InQueues
  <2>4. QED
    BY <2>1, <2>2, <2>3, <1>0, <1>i, <1>q DEF Apart
<1>11. ASSUME NEW it \in items, TimeoutLater(it)
       PROVE  HolderInv'
  <2> DEFINE q == [id |-> 0, wait |-> it.id]
  <2>1. /\ mq' = [mq EXCEPT ![it.owner] = Append(@, q)] /\ it.owner \in Entity
        /\ UNCHANGED <<inq, cur, freed, arrived>>
    BY <1>11 DEF TimeoutLater, TypeOK, WaitItem
  <2>2. q["id"] = 0
    OBVIOUS
  <2> HIDE DEF q
  <2>3. DistinctEntries("id")' /\ Entries' = Entries \cup {q}
    BY <2>1, <2>2, <1>0, EntryComes
  <2>4. InQueues' = InQueues
    BY <2>2, <2>3 DEF InQueues
  <2>5. QED
    BY <2>1, <2>3, <2>4, <1>0, <1>i, <1>q DEF Apart
\* Everything else leaves the messages where they are.
<1>12. ASSUME UNCHANGED <<mq, inq, cur, freed, arrived>>
       PROVE  HolderInv'
  BY <1>12, <1>0, <1>i, <1>m, <1>q DEF Apart
<1>13. CASE PollDone \/ PushDone \/ PopDone
  BY <1>12, <1>13 DEF PollDone, PushDone, PopDone
<1>14. ASSUME NEW e \in Entity, GenSeqId(e)
       PROVE  HolderInv'
  BY <1>12, <1>14 DEF GenSeqId
<1>15. ASSUME NEW e \in Entity, NEW sync \in BOOLEAN, NEW p \in Peer,
              NEW s \in 1..Len(issued), WaitMsg(e, sync, p, s)
       PROVE  HolderInv'
  BY <1>12, <1>15 DEF WaitMsg
<1>16. ASSUME NEW it \in items, TimeoutNow(it)
       PROVE  HolderInv'
  BY <1>12, <1>16 DEF TimeoutNow
<1>17. CASE UNCHANGED vars
  BY <1>12, <1>17 DEF vars
<1>18. QED
  BY <1>1, <1>2, <1>3, <1>5, <1>6, <1>7, <1>8, <1>9, <1>10, <1>11, <1>13,
     <1>14, <1>15, <1>16, <1>17 DEF Next, Loop, Push, Pop, Api, Timeout

\* jetnet_free is never given a message twice, nor one that a queue, the loop or
\* a callback still has, whatever the entities do and in whatever order.
THEOREM HolderUnique == Spec => []OneHolder
<1>1. TypeAndList => TypeOK
  BY DEF TypeAndList
<1>2. HolderInv => OneHolder
  BY DEF HolderInv
<1>3. QED
  BY <1>1, <1>2, TypeInit, TypeStep, HolderInit, HolderStep, PTL DEF Spec
-----------------------------------------------------------------------------
(* A wait has one outcome.                                                 *)

\* An id is with an item, with a trigger in a queue, or with what was told.
OutcomeInv == OneOutcome /\ ToldOnce

LEMMA OutcomeInit == Init => OutcomeInv
<1> SUFFICES ASSUME Init PROVE OutcomeInv
  OBVIOUS
<1>1. items = {} /\ \A e \in Entity : mq[e] = <<>>
  BY DEF Init
<1>2. \A w \in WaitId : told[w] = <<>>
  BY DEF Init
<1>3. Entries = {}
  <2>1. \A e \in Entity : Range(mq[e]) = {}
    BY <1>1 DEF Range
  <2>2. QED
    BY <2>1 DEF Entries
<1>4. DistinctEntries("wait")
  BY <1>1 DEF DistinctEntries
<1>5. OneOutcome
  BY <1>1, <1>2, <1>3, <1>4 DEF OneOutcome
<1>6. ToldOnce
  BY <1>2 DEF ToldOnce
<1>7. QED
  BY <1>5, <1>6 DEF OutcomeInv

LEMMA OutcomeStep ==
  TypeOK /\ TypeOK' /\ Routed /\ OutcomeInv /\ [Next]_vars => OutcomeInv'
<1> SUFFICES ASSUME TypeOK, TypeOK', Routed, OutcomeInv, [Next]_vars
             PROVE  OutcomeInv'
  OBVIOUS
<1> USE EntityAssumption
<1>0. /\ DistinctEntries("wait")
      /\ \A q \in Entries : /\ q.wait <= waits
                            /\ \A it \in items : it.id # q.wait
                            /\ q.wait # 0 => told[q.wait] = <<>>
      /\ \A it \in items : told[it.id] = <<>>
      /\ \A w \in WaitId : w > waits => told[w] = <<>>
      /\ \A w \in WaitId : Len(told[w]) <= 1
  <2>1. OneOutcome /\ ToldOnce
    BY DEF OutcomeInv
  <2>2. \A w \in WaitId : Len(told[w]) <= 1
    BY <2>1 DEF ToldOnce
  <2>3. QED
    BY <2>1, <2>2, Zenon DEF OneOutcome
<1>q. ASSUME DistinctEntries("wait")',
             \A q \in Entries' : /\ q.wait <= waits'
                                 /\ \A it \in items' : it.id # q.wait
                                 /\ q.wait # 0 => told'[q.wait] = <<>>,
             \A it \in items' : told'[it.id] = <<>>,
             \A w \in WaitId : w > waits' => told'[w] = <<>>,
             \A w \in WaitId : Len(told'[w]) <= 1
      PROVE  OutcomeInv'
  <2>1. OneOutcome'
    BY <1>q, Zenon DEF OneOutcome
  <2>2. ToldOnce'
    BY <1>q DEF ToldOnce
  <2>3. QED
    BY <2>1, <2>2 DEF OutcomeInv
<1>types. /\ waits \in Nat /\ told \in [WaitId -> Seq(Answer)]
          /\ \A it \in items : it.id \in WaitId /\ it.owner \in Entity
          /\ \A it \in items : it.id <= waits
          /\ \A x, y \in items : x.id = y.id => x = y
          /\ \A q \in Entries : q.wait \in 0 .. MaxWait
          /\ 0 \notin WaitId
  <2>1. \A q \in Entries : q \in Queued
    <3>1. \A f \in Entity : mq[f] \in Seq(Queued)
      BY DEF TypeOK
    <3>2. \A f \in Entity : \A q \in Range(mq[f]) : q \in Queued
      BY <3>1 DEF Range
    <3>3. QED
      BY <3>2 DEF Entries
  <2>2. \A q \in Entries : q.wait \in 0 .. MaxWait
    BY <2>1, QueuedFields
  <2>3. QED
    BY <2>2 DEF TypeOK, WaitItem, WaitId, Routed, ItemsSound
\* Less in the queues and in the table, and nothing told.
<1>1. ASSUME DistinctEntries("wait")', Entries' \subseteq Entries,
             items' \subseteq items, UNCHANGED <<told, waits>>
      PROVE  OutcomeInv'
  BY <1>1, <1>0, <1>q
<1>m. ASSUME UNCHANGED mq
      PROVE  DistinctEntries("wait")' /\ Entries' = Entries
  BY <1>m, <1>0 DEF DistinctEntries, Entries
<1>2. ASSUME UNCHANGED <<mq, items, told, waits>>
      PROVE  OutcomeInv'
  BY <1>1, <1>2, <1>m
\* The outcome of an item is told.
<1>3. ASSUME NEW it \in items, NEW a, items' = Unlinked(it),
             told' = [told EXCEPT ![it.id] = Append(@, a)],
             UNCHANGED <<mq, waits>>
      PROVE  OutcomeInv'
  <2>1. /\ \A x \in items' : x \in items /\ x.id # it.id
        /\ it.id \in WaitId /\ it.id <= waits
    BY <1>3, <1>types DEF Unlinked
  <2>2. /\ told'[it.id] = <<a>>
        /\ \A w \in WaitId : w # it.id => told'[w] = told[w]
    <3>1. told[it.id] = <<>>
      BY <1>0
    <3>2. Append(<<>>, a) = <<a>>
      OBVIOUS
    <3>3. QED
      BY <1>3, <2>1, <3>1, <3>2, <1>types
  <2>3. \A q \in Entries : q.wait # it.id
    BY <1>0
  <2>4. \A q \in Entries : q.wait # 0 => told'[q.wait] = <<>>
    BY <2>2, <2>3, <1>0, <1>types DEF WaitId
  <2>5. \A x \in items' : told'[x.id] = <<>>
    BY <2>1, <2>2, <1>0, <1>types
  <2>6. \A w \in WaitId : w > waits' => told'[w] = <<>>
    BY <1>3, <2>1, <2>2, <1>0, <1>types DEF WaitId
  <2>7. \A w \in WaitId : Len(told'[w]) <= 1
    <3>1. Len(<<a>>) = 1
      OBVIOUS
    <3>2. \A w \in WaitId : told'[w] = told[w] \/ told'[w] = <<a>>
      BY <2>2
    <3>3. \A w \in WaitId : Len(told[w]) <= 1
      BY <1>0
    <3>4. ASSUME NEW w \in WaitId PROVE Len(told'[w]) <= 1
      <4>1. CASE told'[w] = told[w]
        BY <3>3, <4>1
      <4>2. CASE told'[w] = <<a>>
        BY <3>1, <4>2
      <4>3. QED
        BY <3>2, <4>1, <4>2
    <3>5. QED
      BY <3>4
  <2>8. QED
    BY <1>3, <2>1, <2>4, <2>5, <2>6, <2>7, <1>0, <1>m, <1>q
\* It is put off, with a trigger.
<1>4. ASSUME NEW it \in items, NEW n, items' = Unlinked(it),
             mq' = [mq EXCEPT ![it.owner] = Append(@, [id |-> n, wait |-> it.id])],
             UNCHANGED <<told, waits>>
      PROVE  OutcomeInv'
  <2> DEFINE r == [id |-> n, wait |-> it.id]
  <2>1. /\ \A x \in items' : x \in items /\ x.id # it.id
        /\ it.id \in WaitId /\ it.id <= waits /\ it.owner \in Entity
    BY <1>4, <1>types DEF Unlinked
  <2>2. r["wait"] = it.id /\ \A q \in Entries : q["wait"] # r["wait"]
    BY <1>0
  <2>3. mq' = [mq EXCEPT ![it.owner] = Append(@, r)]
    BY <1>4
  <2> HIDE DEF r
  <2>4. DistinctEntries("wait")' /\ Entries' = Entries \cup {r}
    BY <2>1, <2>2, <2>3, <1>0, EntryComes
  <2>5. \A q \in Entries' : /\ q.wait <= waits
                            /\ \A x \in items' : x.id # q.wait
                            /\ q.wait # 0 => told[q.wait] = <<>>
    BY <2>1, <2>2, <2>4, <1>0
  <2>6. QED
    BY <1>4, <2>1, <2>4, <2>5, <1>0, <1>q
<1>5. CASE PushAckNow
  <2>1. PICK it \in Found(Head(inq)) :
          /\ items' = Unlinked(it)
          /\ told' = [told EXCEPT ![it.id] = Append(@, "ack")]
    BY <1>5 DEF PushAckNow
  <2>2. QED
    BY <1>3, <1>5, <2>1, FoundItems DEF PushAckNow
<1>6. ASSUME NEW it \in items, TimeoutNow(it)
      PROVE  OutcomeInv'
  BY <1>3, <1>6 DEF TimeoutNow
<1>7. ASSUME NEW it \in items, TimeoutLater(it)
      PROVE  OutcomeInv'
  BY <1>4, <1>7 DEF TimeoutLater
\* A trigger, or a message, leaves its queue.
<1>8. ASSUME NEW e \in Entity, PopData(e) \/ PopTrigger(e)
      PROVE  OutcomeInv'
  <2> DEFINE h == Head(mq[e])
  <2>1. /\ mq[e] # <<>> /\ mq' = [mq EXCEPT ![e] = Tail(@)]
        /\ UNCHANGED <<items, waits>>
    BY <1>8 DEF PopData, PopTrigger, Popping, Popped
  <2>2. /\ DistinctEntries("wait")' /\ Entries' \subseteq Entries
        /\ \A q \in Entries' : q["wait"] # 0 => q["wait"] # h["wait"]
        /\ h \in Entries
    BY <2>1, <1>0, HeadGone
  <2>3. CASE PopData(e)
    <3>1. told' = told
      BY <2>3 DEF PopData
    <3>2. QED
      BY <2>1, <2>2, <3>1, <1>1
  <2>4. CASE PopTrigger(e)
    <3>1. PICK a : told' = [told EXCEPT ![h.wait] = Append(@, a)]
      BY <2>4 DEF PopTrigger
    <3>2. h.wait # 0
      BY <2>4 DEF PopTrigger
    <3> HIDE DEF h
    <3>3. h.wait \in WaitId /\ h.wait <= waits /\ told[h.wait] = <<>>
      BY <2>2, <3>2, <1>0, <1>types DEF WaitId
    <3>4. /\ told'[h.wait] = <<a>>
          /\ \A w \in WaitId : w # h.wait => told'[w] = told[w]
      BY <3>1, <3>3, <1>types
    <3>5. \A q \in Entries' : q.wait # 0 => told'[q.wait] = <<>>
      BY <2>2, <3>4, <1>0, <1>types DEF WaitId
    <3>6. \A x \in items' : told'[x.id] = <<>>
      BY <2>1, <2>2, <3>4, <1>0, <1>types
    <3>7. \A w \in WaitId : w > waits' => told'[w] = <<>>
      BY <2>1, <3>3, <3>4, <1>0, <1>types DEF WaitId
    <3>8. \A w \in WaitId : Len(told'[w]) <= 1
      <4>1. Len(<<a>>) = 1
        OBVIOUS
      <4>2. \A w \in WaitId : told'[w] = told[w] \/ told'[w] = <<a>>
        BY <3>4
      <4>3. ASSUME NEW w \in WaitId PROVE Len(told'[w]) <= 1
        <5>1. CASE told'[w] = told[w]
          BY <5>1, <1>0
        <5>2. CASE told'[w] = <<a>>
          BY <4>1, <5>2
        <5>3. QED
          BY <4>2, <5>1, <5>2
      <4>4. QED
        BY <4>3
    <3>9. QED
      BY <2>1, <2>2, <3>5, <3>6, <3>7, <3>8, <1>0, <1>q
  <2>5. QED
    BY <1>8, <2>3, <2>4
<1>9. CASE PushAckLater
  <2>1. PICK it \in Found(Head(inq)) :
          /\ items' = Unlinked(it)
          /\ mq' = [mq EXCEPT ![Head(inq).dst] =
                      Append(@, [id |-> Head(inq).id, wait |-> it.id])]
    BY <1>9 DEF PushAckLater
  <2>2. it \in items /\ it.owner = Head(inq).dst
    BY <1>9, FoundOwner DEF PushAckLater
  <2>3. QED
    BY <1>4, <1>9, <2>1, <2>2 DEF PushAckLater
<1>10. CASE PushData
  <2> DEFINE r == [id |-> Head(inq).id, wait |-> 0]
  <2>1. /\ mq' = [mq EXCEPT ![Head(inq).dst] = Append(@, r)]
        /\ Head(inq).dst \in Entity
        /\ UNCHANGED <<items, told, waits>>
    BY <1>10 DEF PushData, TypeOK
  <2>2. r["wait"] = 0
    OBVIOUS
  <2> HIDE DEF r
  <2>3. DistinctEntries("wait")' /\ Entries' = Entries \cup {r}
    BY <2>1, <2>2, <1>0, EntryComes
  <2>4. \A q \in Entries' : /\ q.wait <= waits
                            /\ \A it \in items : it.id # q.wait
                            /\ q.wait # 0 => told[q.wait] = <<>>
    BY <2>2, <2>3, <1>0, <1>types
  <2>5. QED
    BY <2>1, <2>3, <2>4, <1>0, <1>q
<1>11. ASSUME NEW e \in Entity, Create(e) \/ Destroy(e)
       PROVE  OutcomeInv'
  <2>1. /\ mq' = [mq EXCEPT ![e] = <<>>]
        /\ items' \subseteq items /\ UNCHANGED <<told, waits>>
    BY <1>11 DEF Create, Destroy
  <2>2. DistinctEntries("wait")' /\ Entries' \subseteq Entries
    BY <2>1, <1>0, QueueGone
  <2>3. QED
    BY <2>1, <2>2, <1>1
\* A new wait has a new id.
<1>12. ASSUME NEW e \in Entity, NEW sync \in BOOLEAN, NEW p \in Peer,
              NEW s \in 1..Len(issued), WaitMsg(e, sync, p, s)
       PROVE  OutcomeInv'
  <2> DEFINE new == [id |-> waits + 1, owner |-> e, src |-> p, seq |-> s]
  <2>1. /\ items' = items \cup {new} /\ waits' = waits + 1 /\ waits < MaxWait
        /\ UNCHANGED <<mq, told>>
    BY <1>12 DEF WaitMsg, NextWaitId
  <2>2. new.id = waits + 1
    OBVIOUS
  <2> HIDE DEF new
  <2>3. waits + 1 \in WaitId /\ told[waits + 1] = <<>>
    <3>1. waits + 1 \in WaitId /\ waits + 1 > waits
      BY <2>1, <1>types DEF WaitId
    <3>2. QED
      BY <3>1, <1>0
  <2>4. \A q \in Entries : q.wait # waits + 1
    BY <1>0, <1>types
  <2>5. \A q \in Entries' : /\ q.wait <= waits'
                            /\ \A it \in items' : it.id # q.wait
                            /\ q.wait # 0 => told[q.wait] = <<>>
    BY <2>1, <2>2, <2>4, <1>0, <1>m, <1>types
  <2>6. \A it \in items' : told[it.id] = <<>>
    BY <2>1, <2>2, <2>3, <1>0
  <2>7. \A w \in WaitId : w > waits' => told[w] = <<>>
    BY <2>1, <1>0, <1>types DEF WaitId
  <2>8. QED
    BY <2>1, <2>5, <2>6, <2>7, <1>0, <1>m, <1>q
\* Everything else has nothing to do with waits.
<1>13. CASE \/ Arrive \/ PollDone \/ PushNoEntity \/ PushUnmatchedAck
            \/ PushDone \/ PopDone \/ Return
  BY <1>2, <1>13 DEF Arrive, PollDone, PushNoEntity, PushUnmatchedAck, PushDone,
                     PopDone, Return
<1>14. ASSUME NEW e \in Entity, GenSeqId(e)
       PROVE  OutcomeInv'
  BY <1>2, <1>14 DEF GenSeqId
<1>15. CASE UNCHANGED vars
  BY <1>2, <1>15 DEF vars
<1>16. QED
  BY <1>5, <1>6, <1>7, <1>8, <1>9, <1>10, <1>11, <1>12, <1>13, <1>14, <1>15
     DEF Next, Loop, Push, Pop, Api, Timeout

\* What the scheduler's proof and this one have shown, together.
SafeInv == SchedInv /\ OutcomeInv

LEMMA SafeStep == SafeInv /\ [Next]_vars => SafeInv'
<1> SUFFICES ASSUME SafeInv, [Next]_vars PROVE SafeInv'
  OBVIOUS
<1>1. SchedInv'
  BY SchedStep DEF SafeInv
<1>2. TypeOK /\ TypeOK' /\ Routed
  BY <1>1 DEF SafeInv, SchedInv, TypeAndList
<1>3. OutcomeInv'
  BY <1>2, OutcomeStep DEF SafeInv
<1>4. QED
  BY <1>1, <1>3 DEF SafeInv

LEMMA SafeAlways == Spec => []SafeInv
<1>1. Init => SafeInv
  BY SchedInit, OutcomeInit DEF SafeInv
<1>2. QED
  BY <1>1, SafeStep, PTL DEF Spec

\* Acks, late and repeated, timers and destructions in any order: the callback
\* of a wait (jetnet_entity_wait_msg) is called once at most.
THEOREM OutcomeUnique == Spec => []ToldOnce
<1>1. SafeInv => ToldOnce
  BY DEF SafeInv, OutcomeInv
<1>2. QED
  BY <1>1, SafeAlways, PTL
-----------------------------------------------------------------------------
(* The entity system implements module Mailbox.                            *)

\* An entity that is destroyed, or was never created, has and awaits nothing.
DeadEmpty == \A e \in Entity \ alive : mq[e] = <<>> /\ block[e] = 0

LEMMA DeadStep == TypeOK /\ BlockedHasWait /\ DeadEmpty /\ [Next]_vars => DeadEmpty'
<1> SUFFICES ASSUME TypeOK, BlockedHasWait, DeadEmpty, [Next]_vars
             PROVE  DeadEmpty'
  OBVIOUS
<1>2. ASSUME UNCHANGED <<alive, mq, block>> PROVE DeadEmpty'
  BY <1>2 DEF DeadEmpty
<1>3. CASE PushAckNow \/ PushAckLater \/ PushData
  <2> DEFINE e == Head(inq).dst
  <2>1. e \in alive /\ e \in Entity /\ alive' = alive
    BY <1>3 DEF PushAckNow, PushAckLater, PushData, TypeOK
  <2>2. \A f \in Entity \ {e} : mq'[f] = mq[f] /\ block'[f] = block[f]
    BY <1>3 DEF PushAckNow, PushAckLater, PushData, Unblocked, TypeOK
  <2> HIDE DEF e
  <2>3. QED
    BY <2>1, <2>2 DEF DeadEmpty
<1>4. ASSUME NEW e \in Entity, PopData(e) \/ PopTrigger(e)
      PROVE  DeadEmpty'
  <2>1. e \in alive /\ UNCHANGED <<alive, block>>
    BY <1>4 DEF PopData, PopTrigger, Popping, DeadEmpty
  <2>2. \A f \in Entity \ {e} : mq'[f] = mq[f]
    BY <1>4 DEF PopData, PopTrigger, Popped, TypeOK
  <2>3. QED
    BY <2>1, <2>2 DEF DeadEmpty
<1>5. ASSUME NEW e \in Entity, Create(e)
      PROVE  DeadEmpty'
  BY <1>5 DEF Create, TypeOK, DeadEmpty
<1>6. ASSUME NEW e \in Entity, Destroy(e)
      PROVE  DeadEmpty'
  BY <1>6 DEF Destroy, TypeOK, DeadEmpty
<1>7. ASSUME NEW e \in Entity, NEW sync \in BOOLEAN, NEW p \in Peer,
             NEW s \in 1..Len(issued), WaitMsg(e, sync, p, s)
      PROVE  DeadEmpty'
  <2>1. e \in alive /\ UNCHANGED <<alive, mq>>
    BY <1>7 DEF WaitMsg
  <2>2. \A f \in Entity \ {e} : block'[f] = block[f]
    BY <1>7 DEF WaitMsg, TypeOK
  <2>3. QED
    BY <2>1, <2>2 DEF DeadEmpty
<1>8. ASSUME NEW it \in items, Timeout(it)
      PROVE  DeadEmpty'
  <2>1. it.owner \in alive /\ it.owner \in Entity /\ alive' = alive
    BY <1>8 DEF BlockedHasWait, Timeout, TimeoutNow, TimeoutLater, TypeOK
  <2>2. \A f \in Entity \ {it.owner} : mq'[f] = mq[f] /\ block'[f] = block[f]
    BY <1>8 DEF Timeout, TimeoutNow, TimeoutLater, Unblocked, TypeOK
  <2>3. QED
    BY <2>1, <2>2 DEF DeadEmpty
<1>9. CASE \/ Arrive \/ PollDone \/ PushNoEntity \/ PushUnmatchedAck
           \/ PushDone \/ PopDone \/ Return \/ (\E e \in Entity : GenSeqId(e))
           \/ UNCHANGED vars
  BY <1>2, <1>9 DEF Arrive, PollDone, PushNoEntity, PushUnmatchedAck, PushDone,
                    PopDone, Return, GenSeqId, vars
<1>10. QED
  BY <1>3, <1>4, <1>5, <1>6, <1>7, <1>8, <1>9 DEF Next, Loop, Push, Pop, Api

\* The pending waits of module Mailbox.
Wait(it) == [id |-> it.id, owner |-> it.owner]
Pending == {Wait(it) : it \in items}

\* When an item's outcome is known, its wait is the one that goes.
LEMMA PendingGone ==
  ASSUME TypeOK, ItemsSound, NEW it \in items, items' = Unlinked(it)
  PROVE  /\ Wait(it) \in Pending
         /\ Pending' = Pending \ {Wait(it)}
<1>1. Wait(it) \in Pending
  BY DEF Pending
<1>2. \A x \in items : x # it => Wait(x) # Wait(it)
  BY DEF ItemsSound, Wait
<1>3. QED
  BY <1>1, <1>2 DEF Pending, Unlinked

LEMMA MailStep ==
  SafeInv /\ SafeInv' /\ DeadEmpty /\ [Next]_vars => [Mail!MNext]_(Mail!mvars)
<1> SUFFICES ASSUME TypeOK, TypeOK', Routed, BlockedHasWait, ActiveExact, OutcomeInv,
                    DeadEmpty, [Next]_vars
             PROVE  Mail!MNext \/ UNCHANGED Mail!mvars
  BY DEF SafeInv, SchedInv, TypeAndList
<1> USE EntityAssumption
<1>p. Pending = {[id |-> it.id, owner |-> it.owner] : it \in items}
  BY DEF Pending, Wait
<1>0. \A it \in items : /\ it.id \in 1 .. MaxWait /\ it.owner \in Entity
                        /\ told[it.id] = <<>>
  BY DEF OutcomeInv, OneOutcome, TypeOK, WaitItem, WaitId
\* The outcome of an item is told: Resolve.
<1>1. ASSUME NEW it \in items, NEW o \in {"ack", "timeout"},
             block[it.owner] \in {0, it.id},
             items' = Unlinked(it), block' = Unblocked(it.owner),
             told' = [told EXCEPT ![it.id] = Append(@, o)],
             UNCHANGED <<alive, mq, waits>>
      PROVE  Mail!MNext
  <2>1. Wait(it) \in Pending /\ Pending' = Pending \ {Wait(it)}
    BY <1>1, PendingGone DEF Routed
  <2>2. told' = [told EXCEPT ![it.id] = <<o>>]
    <3>1. Append(<<>>, o) = <<o>>
      OBVIOUS
    <3>2. QED
      BY <1>0, <1>1, <3>1 DEF TypeOK, WaitId
  <2>3. Mail!Resolve(it.owner, it.id)
    BY <1>0, <1>1, <2>1, <2>2 DEF Mail!Resolve, Pending, Wait, Unblocked
  <2>4. QED
    BY <1>0, <2>3 DEF Mail!MNext
\* It is put off: PutOff.
<1>2. ASSUME NEW it \in items, NEW n \in 0 .. MaxMsg,
             block[it.owner] \notin {0, it.id},
             items' = Unlinked(it),
             mq' = [mq EXCEPT ![it.owner] = Append(@, [id |-> n, wait |-> it.id])],
             UNCHANGED <<alive, block, waits, told>>
      PROVE  Mail!MNext
  <2>1. Wait(it) \in Pending /\ Pending' = Pending \ {Wait(it)}
    BY <1>2, PendingGone DEF Routed
  <2>2. Mail!PutOff(it.owner, it.id)
    BY <1>2, <2>1 DEF Mail!PutOff, Pending, Wait
  <2>3. QED
    BY <1>0, <2>2 DEF Mail!MNext
<1>3. ASSUME UNCHANGED <<alive, mq, block, items, waits, told>>
      PROVE  UNCHANGED Mail!mvars
  BY <1>3 DEF Mail!mvars
<1>4. CASE PushAckNow
  <2>1. PICK it \in Found(Head(inq)) :
          /\ block[Head(inq).dst] \in {0, it.id}
          /\ items' = Unlinked(it)
          /\ block' = Unblocked(Head(inq).dst)
          /\ told' = [told EXCEPT ![it.id] = Append(@, "ack")]
    BY <1>4 DEF PushAckNow
  <2>2. it \in items /\ it.owner = Head(inq).dst
    BY <1>4, FoundOwner DEF PushAckNow
  <2>3. QED
    BY <1>1, <1>4, <2>1, <2>2 DEF PushAckNow
<1>5. CASE PushAckLater
  <2>1. PICK it \in Found(Head(inq)) :
          /\ block[Head(inq).dst] \notin {0, it.id}
          /\ items' = Unlinked(it)
          /\ mq' = [mq EXCEPT ![Head(inq).dst] =
                      Append(@, [id |-> Head(inq).id, wait |-> it.id])]
    BY <1>5 DEF PushAckLater
  <2>2. it \in items /\ it.owner = Head(inq).dst
    BY <1>5, FoundOwner DEF PushAckLater
  <2>3. Head(inq).id \in 0 .. MaxMsg
    <3>1. Head(inq) \in Data \cup Ack
      BY <1>5, HeadOfInq DEF PushAckLater
    <3>2. Head(inq).id \in MsgId
      BY <3>1 DEF Data, Ack
    <3>3. QED
      BY <3>2 DEF MsgId
  <2>4. QED
    BY <1>2, <1>5, <2>1, <2>2, <2>3 DEF PushAckLater
<1>6. ASSUME NEW it \in items, Timeout(it)
      PROVE  Mail!MNext
  <2>1. CASE TimeoutNow(it)
    BY <1>1, <2>1 DEF TimeoutNow
  <2>2. CASE TimeoutLater(it)
    <3>1. 0 \in 0 .. MaxMsg
      OBVIOUS
    <3>2. /\ block[it.owner] \notin {0, it.id} /\ items' = Unlinked(it)
          /\ mq' = [mq EXCEPT ![it.owner] = Append(@, [id |-> 0, wait |-> it.id])]
          /\ UNCHANGED <<alive, block, waits, told>>
      BY <2>2 DEF TimeoutLater
    <3>3. QED
      BY <3>1, <3>2, <1>2
  <2>3. QED
    BY <1>6, <2>1, <2>2 DEF Timeout
<1>7. CASE PushData
  <2>1. /\ Head(inq).dst \in Entity /\ Head(inq).dst \in alive
        /\ Head(inq).id \in 1 .. MaxMsg
    BY <1>7, HeadOfInq DEF PushData, Data, Ack, MsgId
  <2>2. /\ mq' = [mq EXCEPT ![Head(inq).dst] =
                    Append(@, [id |-> Head(inq).id, wait |-> 0])]
        /\ UNCHANGED <<alive, block, items, waits, told>>
    BY <1>7 DEF PushData
  <2>3. Mail!Deposit(Head(inq).dst)
    BY <2>1, <2>2 DEF Mail!Deposit
  <2>4. QED
    BY <2>1, <2>3 DEF Mail!MNext
<1>8. ASSUME NEW e \in Entity, PopData(e) \/ PopTrigger(e)
      PROVE  Mail!MNext
  <2> DEFINE h == Head(mq[e])
  <2>1. /\ mq[e] # <<>> /\ mq' = [mq EXCEPT ![e] = Tail(@)]
        /\ UNCHANGED <<alive, block, items, waits>>
        /\ active # <<>> /\ e = Head(active)
    BY <1>8 DEF PopData, PopTrigger, Popping, Popped
  <2>2. e \in alive
    BY <2>1 DEF DeadEmpty
  <2>3. h \in Entries /\ h \in Queued
    <3>1. mq[e] \in Seq(Queued)
      BY DEF TypeOK
    <3>2. 1 \in 1 .. Len(mq[e]) /\ h = mq[e][1] /\ h \in Queued
      BY <2>1, <3>1
    <3>3. QED
      BY <3>2, EntryPlaces
  <2>4. h.wait # 0 => told[h.wait] = <<>> /\ h.wait \in WaitId
    BY <2>3, QueuedFields DEF OutcomeInv, OneOutcome
  <2>5. block[e] = 0
    <3>1. e \in Range(active)
      <4>1. active \in Seq(Entity)
        BY DEF TypeOK
      <4>2. 1 \in DOMAIN active /\ active[1] = e
        BY <2>1, <4>1
      <4>3. QED
        BY <4>2 DEF Range
    <3>2. QED
      BY <3>1 DEF ActiveExact
  <2>6. Mail!Handle(e)
    <3>1. CASE PopData(e)
      <4>1. h.wait = 0 /\ told' = told
        BY <3>1 DEF PopData
      <4>2. QED
        BY <2>1, <2>2, <2>5, <4>1 DEF Mail!Handle
    <3>2. CASE PopTrigger(e)
      <4>1. PICK o \in {"envelope", "timeout"} :
              told' = [told EXCEPT ![h.wait] = Append(@, o)]
        BY <3>2 DEF PopTrigger
      <4>2. h.wait # 0 /\ told[h.wait] = <<>> /\ h.wait \in WaitId
        BY <2>4, <3>2 DEF PopTrigger
      <4>3. told' = [told EXCEPT ![h.wait] = <<o>>]
        <5>1. Append(<<>>, o) = <<o>>
          OBVIOUS
        <5>2. QED
          BY <4>1, <4>2, <5>1 DEF TypeOK
      <4>4. QED
        BY <2>1, <2>2, <2>5, <4>2, <4>3 DEF Mail!Handle
    <3>3. QED
      BY <1>8, <3>1, <3>2
  <2>7. QED
    BY <2>6 DEF Mail!MNext
<1>9. ASSUME NEW e \in Entity, Create(e)
      PROVE  Mail!MNext
  <2>1. mq' = mq /\ block' = block
    <3>1. mq[e] = <<>> /\ block[e] = 0
      BY <1>9 DEF Create, DeadEmpty
    <3>2. QED
      BY <1>9, <3>1 DEF Create, TypeOK
  <2>2. Mail!Create(e)
    BY <1>9, <2>1 DEF Create, Mail!Create
  <2>3. QED
    BY <2>2 DEF Mail!MNext
<1>10. ASSUME NEW e \in Entity, Destroy(e)
       PROVE  Mail!MNext
  <2>1. items' = {it \in items : it.owner # e}
    BY <1>10 DEF Destroy
  <2>2. Pending' = {p \in Pending : p.owner # e}
    <3>1. \A it \in items : Wait(it).owner = it.owner
      BY DEF Wait
    <3>2. QED
      BY <2>1, <3>1 DEF Pending
  <2>3. Mail!Destroy(e)
    BY <1>10, <2>2 DEF Destroy, Mail!Destroy, Pending, Wait
  <2>4. QED
    BY <2>3 DEF Mail!MNext
<1>11. ASSUME NEW e \in Entity, NEW sync \in BOOLEAN, NEW p \in Peer,
              NEW s \in 1..Len(issued), WaitMsg(e, sync, p, s)
       PROVE  Mail!MNext
  <2> DEFINE new == [id |-> waits + 1, owner |-> e, src |-> p, seq |-> s]
  <2>1. /\ items' = items \cup {new} /\ waits' = waits + 1 /\ waits < MaxWait
        /\ e \in alive /\ UNCHANGED <<alive, mq, told>>
        /\ \/ block' = [block EXCEPT ![e] = waits + 1]
           \/ block' = block
    BY <1>11 DEF WaitMsg, NextWaitId
  <2>2. Wait(new) = [id |-> waits + 1, owner |-> e]
    BY DEF Wait
  <2> HIDE DEF new
  <2>3. Pending' = Pending \cup {[id |-> waits + 1, owner |-> e]}
    BY <2>1, <2>2 DEF Pending
  <2>4. Mail!Open(e)
    BY <2>1, <2>3 DEF Mail!Open, Pending, Wait
  <2>5. QED
    BY <2>4 DEF Mail!MNext
<1>12. CASE \/ Arrive \/ PollDone \/ PushNoEntity \/ PushUnmatchedAck
            \/ PushDone \/ PopDone \/ Return \/ (\E e \in Entity : GenSeqId(e))
            \/ UNCHANGED vars
  BY <1>3, <1>12 DEF Arrive, PollDone, PushNoEntity, PushUnmatchedAck, PushDone,
                     PopDone, Return, GenSeqId, vars
<1>13. QED
  BY <1>4, <1>5, <1>6, <1>7, <1>8, <1>9, <1>10, <1>11, <1>12
     DEF Next, Loop, Push, Pop, Api

\* Whatever happens in the loop, the entities see mailboxes as module Mailbox has
\* them: messages in order, none while blocked, and of each wait one outcome.
THEOREM ImplementsMailbox == Spec => Mail!SafeSpec
<1>1. Init => SafeInv /\ DeadEmpty /\ Mail!MInit
  <2>1. Init => SafeInv
    BY SchedInit, OutcomeInit DEF SafeInv
  <2>2. Init => DeadEmpty
    BY DEF Init, DeadEmpty
  <2>3. Init => Mail!MInit
    BY DEF Init, Mail!MInit, WaitId
  <2>4. QED
    BY <2>1, <2>2, <2>3
<1>2. SafeInv /\ DeadEmpty /\ [Next]_vars
        => SafeInv' /\ DeadEmpty' /\ [Mail!MNext]_(Mail!mvars)
  <2>1. SafeInv => TypeOK /\ BlockedHasWait
    BY DEF SafeInv, SchedInv, TypeAndList
  <2>2. QED
    BY <2>1, SafeStep, DeadStep, MailStep
<1>3. QED
  BY <1>1, <1>2, PTL DEF Spec, Mail!SafeSpec
=============================================================================
