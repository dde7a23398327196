------------------------------- MODULE Entity -------------------------------
(***************************************************************************)
(* The entity system of one cell (common/jetnet_ewrapper.c) driven by the  *)
(* server loop (jetnet_server_loop, jetnet_server.c).  A cell is a single  *)
(* thread.  It collects messages in a local queue, pushes each of them to  *)
(* its destination entity, then pops the active entities round robin until *)
(* none is left, and starts over.  A user callback runs inside a push or a *)
(* pop and calls the API of the module: it creates and destroys entities   *)
(* and waits for RPC acks, in ASYNC or in SYNC (blocking) mode.            *)
(*                                                                         *)
(* Data is abstracted to what the properties tell apart: an entity is its  *)
(* number, an eid of another cell is a member of Peer, a message is its    *)
(* rank of arrival and, for an RPC ack, the (src_eid, msg_seq_id) pair     *)
(* that jetnet_entity_push_msg matches.  The hash table of wait items is   *)
(* the set of its items.                                                   *)
(***************************************************************************)
EXTENDS Naturals, FiniteSets, IntrusiveList

CONSTANTS
  Entity,       \* the entity numbers (eno) of this cell
  Peer,         \* the eids that acks come from
  MaxMsg,       \* bound: messages that ever arrive at the cell
  MaxWait,      \* bound: wait ids (and wait items) ever generated
  MaxSeq,       \* bound: message sequence ids ever generated
  TimersRun     \* whether jetnet_timer_mgr_update is called by the loop

ASSUME EntityAssumption ==
  /\ MaxMsg \in Nat
  /\ MaxWait \in Nat
  /\ MaxSeq \in Nat
  /\ TimersRun \in BOOLEAN

VARIABLES
  alive,        \* the entities in the tree (entity_root)
  mq,           \* mq[e]: the message queue of e
  active,       \* the active list of the entity manager
  block,        \* block[e]: block_wait_id of e, 0 when e is not blocked
  items,        \* the wait items: in the hash table and in a wait_head list
  waits,        \* wait_id_counter
  issued,       \* issued[s]: the entity that obtained sequence id s
  inq,          \* the local queue of jetnet_server_loop
  arrived,      \* how many messages have arrived at the cell
  phase,        \* where the loop is
  running,      \* whether a user callback is on the stack
  cur,          \* the message to free when that callback returns, or 0
  freed,        \* history: the messages given to jetnet_free
  told          \* history: told[w], what the callback of wait w was given

vars == <<alive, mq, active, block, items, waits, issued, inq, arrived,
          phase, running, cur, freed, told>>

WaitId == 1..MaxWait
MsgId == 1..MaxMsg
Phase == {"poll", "push", "pop"}
Answer == {"ack", "envelope", "timeout"}

\* jetnet_wait_item_t.
WaitItem == [id : WaitId, owner : Entity, src : Peer, seq : 1..MaxSeq]

\* What reaches the loop: an ordinary message or an RPC ack.
Data == [id : MsgId, ack : {FALSE}, dst : Entity]
Ack == [id : MsgId, ack : {TRUE}, dst : Entity, src : Peer, seq : 1..MaxSeq]

\* An entry of an entity's queue: an ordinary message (wait = 0), or a
\* MSGT_SYS_WAIT_TRIGGER for wait id `wait` whose msg field is message `id`
\* (NULL when id = 0).
Queued == [id : MsgId, wait : 0..MaxWait] \cup [id : {0}, wait : WaitId]

TypeOK ==
  /\ alive \subseteq Entity
  /\ mq \in [Entity -> Seq(Queued)]
  /\ active \in Seq(Entity)
  /\ block \in [Entity -> 0..MaxWait]
  /\ items \subseteq WaitItem
  /\ waits \in 0..MaxWait
  /\ issued \in Seq(Entity) /\ Len(issued) <= MaxSeq
  /\ inq \in Seq(Data \cup Ack)
  /\ arrived \in 0..MaxMsg
  /\ phase \in Phase
  /\ running \in BOOLEAN
  /\ cur \in 0..MaxMsg
  /\ freed \subseteq MsgId
  /\ told \in [WaitId -> Seq(Answer)]

\* jetnet_server_init starts the modules, whose start functions create the
\* entities; no message has been read.
Init ==
  /\ alive = Entity
  /\ mq = [e \in Entity |-> <<>>]
  /\ active = <<>>
  /\ block = [e \in Entity |-> 0]
  /\ items = {}
  /\ waits = 0
  /\ issued = <<>>
  /\ inq = <<>>
  /\ arrived = 0
  /\ phase = "poll"
  /\ running = FALSE
  /\ cur = 0
  /\ freed = {}
  /\ told = [w \in WaitId |-> <<>>]

-----------------------------------------------------------------------------
(* The helpers of jetnet_ewrapper.c.                                       *)

(* An operator named Op_Fault is Op with a fault seeded in it; nothing uses *)
(* it, it serves to show that a property detects that fault.                *)

Activated_Unchecked(list, e) == Append(list, e)

\* jetnet_ewrapper_active: append to the list unless already a member.
Activated(list, e) == EnlistedTail(list, e)

Deactivated_Forgotten(list, e) == list

\* jetnet_ewrapper_deactive.
Deactivated(list, e) == Delisted(list, e)

NextWaitId_PostIncrement == waits

\* jetnet_gen_wait_id: pre-increment, so that 0 is no wait id.
NextWaitId == waits + 1

Unlinked_StillHashed(it) == items

\* The two list_del of a wait item whose outcome is known.
Unlinked(it) == items \ {it}

Unblocked_Forgotten(e) == block

\* block_wait_id is cleared ...
Unblocked(e) == [block EXCEPT ![e] = 0]

Reactivated_Forgotten(e, it) == active

\* ... and an entity that was blocked on this wait is re-activated if
\* messages queued up meanwhile.
Reactivated(e, it) ==
  IF block[e] = it.id /\ mq[e] # <<>> THEN Activated(active, e) ELSE active

AfterPush_AlwaysFreed(ret, m) == freed \cup {m.id}

\* The loop frees a message when jetnet_entity_push_msg returns 1.
AfterPush(ret, m) == IF ret = 1 THEN freed \cup {m.id} ELSE freed

\* The hash lookup of jetnet_entity_push_msg by (src_eid, msg_seq_id):
\* hlist_add_head puts the newest item first, so that one is found.
Matching(m) == {it \in items : it.src = m.src /\ it.seq = m.seq}
Found(m) == {it \in Matching(m) : \A other \in Matching(m) : other.id <= it.id}

-----------------------------------------------------------------------------
(* The loop takes in messages: jetnet_cns_get_msg and jetnet_net_poll.     *)

\* A message is appended to the loop's queue.  An ordinary one may name any
\* entity, an existing one or not.  An ack answers a request of this cell:
\* its sequence id was generated here and it goes to the entity that asked
\* for it.  Acks may come from any peer, late, repeatedly or never.
Arrive ==
  /\ phase = "poll" /\ ~running
  /\ arrived < MaxMsg
  /\ arrived' = arrived + 1
  /\ \/ \E e \in Entity :
          inq' = Append(inq, [id |-> arrived + 1, ack |-> FALSE, dst |-> e])
     \/ \E p \in Peer, s \in 1..Len(issued) :
          inq' = Append(inq, [id |-> arrived + 1, ack |-> TRUE,
                              dst |-> issued[s], src |-> p, seq |-> s])
  /\ UNCHANGED <<alive, mq, active, block, items, waits, issued, phase,
                 running, cur, freed, told>>

PollDone ==
  /\ phase = "poll" /\ ~running
  /\ phase' = "push"
  /\ UNCHANGED <<alive, mq, active, block, items, waits, issued, inq, arrived,
                 running, cur, freed, told>>

-----------------------------------------------------------------------------
(* jetnet_entity_push_msg, one action per outcome.                         *)

Pushing == phase = "push" /\ ~running /\ inq # <<>>

\* No such entity: the function returns 1 and the loop frees the message.
PushNoEntity ==
  /\ Pushing
  /\ Head(inq).dst \notin alive
  /\ inq' = Tail(inq)
  /\ freed' = AfterPush(1, Head(inq))
  /\ UNCHANGED <<alive, mq, active, block, items, waits, issued, arrived,
                 phase, running, cur, told>>

\* An ack no wait item asks for: returns 1, the loop frees it.
PushUnmatchedAck ==
  /\ Pushing
  /\ Head(inq).dst \in alive
  /\ Head(inq).ack
  /\ Matching(Head(inq)) = {}
  /\ inq' = Tail(inq)
  /\ freed' = AfterPush(1, Head(inq))
  /\ UNCHANGED <<alive, mq, active, block, items, waits, issued, arrived,
                 phase, running, cur, told>>

\* The ack of a pending wait while the entity is not blocked, or is blocked
\* on that wait: the item goes, the entity is unblocked and re-activated if
\* messages queued up meanwhile, and the callback is called with the ack,
\* which the loop frees afterwards.
PushAckNow ==
  /\ Pushing
  /\ LET m == Head(inq)
         e == m.dst
     IN /\ e \in alive
        /\ m.ack
        /\ \E it \in Found(m) :
             /\ block[e] \in {0, it.id}
             /\ items' = Unlinked(it)
             /\ block' = Unblocked(e)
             /\ active' = Reactivated(e, it)
             /\ told' = [told EXCEPT ![it.id] = Append(@, "ack")]
        /\ cur' = m.id
  /\ inq' = Tail(inq)
  /\ running' = TRUE
  /\ UNCHANGED <<alive, mq, waits, issued, arrived, phase, freed>>

\* The ack of a pending wait while the entity is blocked on another wait:
\* the callback is put off as a MSGT_SYS_WAIT_TRIGGER in the queue.  The
\* trigger keeps the message, so the function returns 0.
PushAckLater ==
  /\ Pushing
  /\ LET m == Head(inq)
         e == m.dst
     IN /\ e \in alive
        /\ m.ack
        /\ \E it \in Found(m) :
             /\ block[e] \notin {0, it.id}
             /\ items' = Unlinked(it)
             /\ mq' = [mq EXCEPT ![e] =
                         Append(@, [id |-> m.id, wait |-> it.id])]
        /\ freed' = AfterPush(0, m)
  /\ inq' = Tail(inq)
  /\ UNCHANGED <<alive, active, block, waits, issued, arrived, phase,
                 running, cur, told>>

\* Any other message: queued, and the entity activated unless blocked.
PushData ==
  /\ Pushing
  /\ LET m == Head(inq)
         e == m.dst
     IN /\ e \in alive
        /\ ~m.ack
        /\ mq' = [mq EXCEPT ![e] = Append(@, [id |-> m.id, wait |-> 0])]
        /\ active' = IF block[e] = 0 THEN Activated(active, e) ELSE active
        /\ freed' = AfterPush(0, m)
  /\ inq' = Tail(inq)
  /\ UNCHANGED <<alive, block, items, waits, issued, arrived, phase, running,
                 cur, told>>

PushDone ==
  /\ phase = "push" /\ ~running /\ inq = <<>>
  /\ phase' = "pop"
  /\ UNCHANGED <<alive, mq, active, block, items, waits, issued, inq, arrived,
                 running, cur, freed, told>>

-----------------------------------------------------------------------------
(* jetnet_entity_pop_msg and what the loop does with the message.          *)

\* The entity at the head leaves the list, gives its oldest message and goes
\* back to the tail if it has more.
Popped(e) ==
  /\ mq' = [mq EXCEPT ![e] = Tail(@)]
  /\ active' = IF Tail(mq[e]) # <<>> THEN Activated(Tail(active), e)
               ELSE Tail(active)

Popping(e) ==
  /\ phase = "pop" /\ ~running
  /\ active # <<>>
  /\ e = Head(active)
  /\ mq[e] # <<>>

\* An ordinary message: msg_cb runs, the loop then frees the message.
PopData(e) ==
  /\ Popping(e)
  /\ Head(mq[e]).wait = 0
  /\ Popped(e)
  /\ cur' = Head(mq[e]).id
  /\ running' = TRUE
  /\ UNCHANGED <<alive, block, items, waits, issued, inq, arrived, phase,
                 freed, told>>

\* handle_wait_trigger_msg: the wait callback runs with trigger->msg, which
\* is freed with the trigger.  trigger->msg is the message as it came to
\* jetnet_entity_push_msg, its CMDTAG_DELIVER envelope included.
PopTrigger(e) ==
  /\ Popping(e)
  /\ LET q == Head(mq[e])
     IN /\ q.wait # 0
        /\ cur' = q.id
        /\ told' = [told EXCEPT ![q.wait] =
                      Append(@, IF q.id = 0 THEN "timeout" ELSE "envelope")]
  /\ Popped(e)
  /\ running' = TRUE
  /\ UNCHANGED <<alive, block, items, waits, issued, inq, arrived, phase,
                 freed>>

\* The pop fails: the list is empty, or its head has no message.
PopDone ==
  /\ phase = "pop" /\ ~running
  /\ ~ \E e \in Entity : Popping(e)
  /\ active' = IF active = <<>> THEN active ELSE Tail(active)
  /\ phase' = "poll"
  /\ UNCHANGED <<alive, mq, block, items, waits, issued, inq, arrived,
                 running, cur, freed, told>>

-----------------------------------------------------------------------------
(* What a user callback may do: calls of the API, in any order, until it   *)
(* returns.                                                                *)

\* The callback returns and the caller frees the message it was given.
Return ==
  /\ running
  /\ running' = FALSE
  /\ cur' = 0
  /\ freed' = freed \cup ({cur} \ {0})
  /\ UNCHANGED <<alive, mq, active, block, items, waits, issued, inq, arrived,
                 phase, told>>

\* jetnet_entity_create with an explicit or a generated eno not in use.
Create(e) ==
  /\ running
  /\ e \notin alive
  /\ alive' = alive \cup {e}
  /\ mq' = [mq EXCEPT ![e] = <<>>]
  /\ block' = [block EXCEPT ![e] = 0]
  /\ UNCHANGED <<active, items, waits, issued, inq, arrived, phase, running,
                 cur, freed, told>>

\* jetnet_entity_destory: wait items (and their timers) go, the node leaves
\* the active list, and jetnet_mq_release frees what is queued.  Freeing a
\* trigger does not free the message the trigger keeps.
Destroy(e) ==
  /\ running
  /\ e \in alive
  /\ alive' = alive \ {e}
  /\ items' = {it \in items : it.owner # e}
  /\ active' = Deactivated(active, e)
  /\ mq' = [mq EXCEPT ![e] = <<>>]
  /\ block' = [block EXCEPT ![e] = 0]
  /\ freed' = freed \cup {q.id : q \in {x \in Range(mq[e]) : x.wait = 0}}
  /\ UNCHANGED <<waits, issued, inq, arrived, phase, running, cur, told>>

\* jetnet_api_impl_gen_seq_id, for a request of entity e.
GenSeqId(e) ==
  /\ running
  /\ Len(issued) < MaxSeq
  /\ issued' = Append(issued, e)
  /\ UNCHANGED <<alive, mq, active, block, items, waits, inq, arrived, phase,
                 running, cur, freed, told>>

\* jetnet_entity_wait_msg: entity e waits for the answer of peer p to its
\* request s.  In SYNC mode the entity is blocked on the new wait, whether
\* or not it was blocked on another, and leaves the active list.
WaitMsg(e, sync, p, s) ==
  /\ running
  /\ e \in alive
  /\ issued[s] = e
  /\ waits < MaxWait
  /\ waits' = waits + 1
  /\ items' = items \cup
       {[id |-> NextWaitId, owner |-> e, src |-> p, seq |-> s]}
  /\ block' = IF sync THEN [block EXCEPT ![e] = NextWaitId] ELSE block
  /\ active' = IF sync THEN Deactivated(active, e) ELSE active
  /\ UNCHANGED <<alive, mq, issued, inq, arrived, phase, running, cur, freed,
                 told>>

-----------------------------------------------------------------------------
(* jetnet_entity_wait_to_func, called by jetnet_timer_mgr_update.          *)

Expiring(it) == TimersRun /\ phase = "poll" /\ ~running /\ it \in items

TimeoutNow(it) ==
  /\ Expiring(it)
  /\ block[it.owner] \in {0, it.id}
  /\ items' = Unlinked(it)
  /\ block' = Unblocked(it.owner)
  /\ active' = Reactivated(it.owner, it)
  /\ told' = [told EXCEPT ![it.id] = Append(@, "timeout")]
  /\ running' = TRUE
  /\ UNCHANGED <<alive, mq, waits, issued, inq, arrived, phase, cur, freed>>

TimeoutLater(it) ==
  /\ Expiring(it)
  /\ block[it.owner] \notin {0, it.id}
  /\ items' = Unlinked(it)
  /\ mq' = [mq EXCEPT ![it.owner] = Append(@, [id |-> 0, wait |-> it.id])]
  /\ UNCHANGED <<alive, active, block, waits, issued, inq, arrived, phase,
                 running, cur, freed, told>>

Timeout(it) == TimeoutNow(it) \/ TimeoutLater(it)

-----------------------------------------------------------------------------

Push ==
  \/ PushNoEntity
  \/ PushUnmatchedAck
  \/ PushAckNow
  \/ PushAckLater
  \/ PushData

Pop == \E e \in Entity : PopData(e) \/ PopTrigger(e)

Loop == PollDone \/ Push \/ PushDone \/ Pop \/ PopDone

Api ==
  \/ \E e \in Entity : Create(e) \/ Destroy(e) \/ GenSeqId(e)
  \/ \E e \in Entity, sync \in BOOLEAN, p \in Peer, s \in 1..Len(issued) :
       WaitMsg(e, sync, p, s)

Next ==
  \/ Arrive
  \/ Loop
  \/ Return
  \/ Api
  \/ \E it \in items : Timeout(it)

Spec == Init /\ [][Next]_vars

\* The loop never stops while the cell runs, and a callback returns.  Nothing is
\* asked of the timers: jetnet_server_loop does not drive them.
FairSpec ==
  /\ Spec
  /\ WF_vars(Loop)
  /\ WF_vars(Return)

-----------------------------------------------------------------------------
(* Safety.                                                                 *)

\* The active list holds, once each, exactly the entities that have a
\* message and are not blocked: no wakeup is lost, no blocked or destroyed
\* entity is scheduled, and jetnet_entity_pop_msg never meets an empty queue
\* (which would end the loop's round with other entities still active).
ActiveExact ==
  /\ IsInjective(active)
  /\ Range(active) = {e \in alive : mq[e] # <<>> /\ block[e] = 0}

\* An entity blocked by a SYNC wait still has that wait's item, so that an
\* ack or the timer can release it; no item outlives its entity (the item's
\* ewrapper pointer would dangle).
BlockedHasWait ==
  /\ \A e \in Entity : block[e] # 0 =>
       \E it \in items : it.id = block[e] /\ it.owner = e
  /\ \A it \in items : it.owner \in alive

\* Who will pass a message to jetnet_free: the loop, the queue it is in
\* (directly or as the msg of a trigger), the caller of a callback.
InLoop == {inq[i].id : i \in DOMAIN inq}
Entries == UNION {Range(mq[e]) : e \in Entity}
InQueues == {q.id : q \in Entries} \ {0}

\* No two entries of the queues have the same non-zero value in field k.
DistinctEntries(k) ==
  \A e, f \in Entity : \A i \in DOMAIN mq[e], j \in DOMAIN mq[f] :
    mq[e][i][k] = mq[f][j][k] /\ mq[e][i][k] # 0 => e = f /\ i = j

\* A message is never freed twice nor used after it was freed: whoever holds
\* a message is its only holder, and it has not been freed.
OneHolder ==
  /\ \A i, j \in DOMAIN inq : inq[i].id = inq[j].id => i = j
  /\ DistinctEntries("id")
  /\ InLoop \cap InQueues = {}
  /\ cur \notin InLoop \cup InQueues
  /\ freed \cap (InLoop \cup InQueues \cup {cur}) = {}

\* The callback of a wait is called at most once, whatever acks, duplicate
\* acks, timeouts and destructions happen and in whatever order.
ToldOnce == \A w \in WaitId : Len(told[w]) <= 1

\* What jetnet_const.h:18 says a wait filters on, "the src_entity_id and the
\* msg_seq_id", is what its callback is given: the ack itself.  The code gives
\* it the delivery envelope when the callback was put off.
WaitGivesAck == \A w \in WaitId : "envelope" \notin Range(told[w])

\* "the return value indicate whether the caller need to delete the msg"
\* (jetnet_ewrapper.h:22): a message the caller need not delete is deleted by
\* the entity system.  The code forgets the ack of a trigger that is in the
\* queue of a destroyed entity.
NothingLeaks == 1..arrived \subseteq InLoop \cup InQueues \cup {cur} \cup freed

-----------------------------------------------------------------------------
(* What makes these inductive.                                             *)

\* Items are told apart by their ids, and wait for the answer to a request
\* of their own entity.
ItemsSound ==
  /\ \A x, y \in items : x.id = y.id => x = y
  /\ \A it \in items : /\ it.id <= waits
                       /\ it.seq <= Len(issued)
                       /\ issued[it.seq] = it.owner

\* An ack goes to the entity whose request it answers.
AcksRouted ==
  \A i \in DOMAIN inq : inq[i].ack =>
    /\ inq[i].seq <= Len(issued)
    /\ issued[inq[i].seq] = inq[i].dst

\* Only messages that arrived are anywhere.
OnlyArrived == InLoop \cup InQueues \cup {cur} \cup freed \subseteq 0..arrived

\* A wait id is in one place: its item, its trigger, or told.
OneOutcome ==
  /\ DistinctEntries("wait")
  /\ \A q \in Entries : /\ q.wait <= waits
                        /\ \A it \in items : it.id # q.wait
                        /\ q.wait # 0 => told[q.wait] = <<>>
  /\ \A it \in items : told[it.id] = <<>>
  /\ \A w \in WaitId : w > waits => told[w] = <<>>

EntityInv ==
  /\ TypeOK
  /\ ItemsSound
  /\ AcksRouted
  /\ ActiveExact
  /\ BlockedHasWait
  /\ OnlyArrived
  /\ OneHolder
  /\ OneOutcome
  /\ ToldOnce

-----------------------------------------------------------------------------
(* Refinement and liveness.                                                *)

Mail == INSTANCE Mailbox WITH
  box <- mq,
  pending <- {[id |-> it.id, owner |-> it.owner] : it \in items},
  opened <- waits

\* The entity system keeps the promise of module Mailbox, its fairness to
\* every entity included.
MailboxSpec == Mail!FairSpec

\* An ack that the loop took in is for wait w.
AckCame(w) ==
  \E i \in DOMAIN inq : inq[i].ack /\ \E it \in Found(inq[i]) : it.id = w

\* There is a later wait for the answer that wait w waits for.
Outbid(w) ==
  \E x, y \in items : x.id = w /\ y.id > w /\ x.src = y.src /\ x.seq = y.seq

\* The loop alone, without a timer, releases an entity that is blocked by a SYNC
\* wait when the ack has come, whatever the callbacks before it in the queue do:
\* unless one of them waits again for the same answer, and so gets the ack.
AckReleases ==
  \A e \in Entity, w \in WaitId :
    block[e] = w /\ AckCame(w) ~> block[e] # w \/ Outbid(w)

\* A SYNC wait blocks its entity for a while only, even when no ack ever comes:
\* jlua.c:290 gives jcapi_wait a time.  Nobody calls the timers that it needs.
BlockEnds == \A e \in Entity : block[e] # 0 ~> block[e] = 0
=============================================================================
