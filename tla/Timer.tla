------------------------------- MODULE Timer -------------------------------
(***************************************************************************)
(* The timer manager of a cell (common/jetnet_timer.c): items in a binary  *)
(* heap by expiry, a tree from timer ids to items, and the trigger array   *)
(* of the update in progress.  A callback creates and kills timers while   *)
(* the update walks that array.  A killed item loses its callback and its  *)
(* tree node at once, and is freed when its expiry is reached.             *)
(*                                                                         *)
(* An item is its address: the domain of "item" is what is allocated, and  *)
(* malloc may hand a freed address out again.  The capacity of the heap    *)
(* and of the trigger array, which grow, is left out.                      *)
(***************************************************************************)
EXTENDS Naturals, Sequences, SequencesExt, Functions

CONSTANTS
  Item,         \* the addresses that malloc returns for items
  Timing,       \* the delays, periods and repeats timers are created with
  MaxId,        \* bound: ids given out by one manager
  MaxNow        \* bound: the clock

ASSUME TimerAssumption ==
  /\ Timing \subseteq [delay : Nat, period : Nat, repeat : Nat]
  /\ MaxId \in Nat /\ MaxNow \in Nat

VARIABLES
  up,           \* g_timer_mgr # NULL
  item,         \* the allocated items
  heap,         \* timer_heap[0..heap_size-1], the root first
  trigger,      \* trigger_heap[0..trigger_size-1]
  ids,          \* the id tree (troot)
  counter,      \* timer_id_counter
  inside,       \* whether a callback is on the stack
  now           \* jetnet_time_now()

vars == <<up, item, heap, trigger, ids, counter, inside, now>>

ItemRecord == [id : 1..MaxId, cb : BOOLEAN, delay : Nat, period : Nat,
               repeat : Nat, expire : Nat]

Init ==
  /\ up = TRUE
  /\ item = [a \in {} |-> 0]
  /\ heap = <<>> /\ trigger = <<>>
  /\ ids = [id \in {} |-> 0]
  /\ counter = 0
  /\ inside = FALSE
  /\ now = 0

\* Function f, and value v at x.
With(f, x, v) == [y \in DOMAIN f \cup {x} |-> IF y = x THEN v ELSE f[y]]

-----------------------------------------------------------------------------
(* The heap.  "it" gives the items their expiry.                           *)

Before(it, h, i, j) == it[h[i]].expire < it[h[j]].expire

Swapped(h, i, j) == [h EXCEPT ![i] = h[j], ![j] = h[i]]

\* A round of the loop of jetnet_timer_heap_add, for the item that has come to
\* "at": it rises while it is less than its parent.
Rise(it, s) ==
  IF s.at > 1 /\ Before(it, s.heap, s.at, s.at \div 2)
  THEN [heap |-> Swapped(s.heap, s.at, s.at \div 2), at |-> s.at \div 2]
  ELSE s

\* No item rises or sinks more often than there are items.
SiftUp(it, h, i) ==
  LET loop[k \in 0 .. Len(h)] ==
        IF k = 0 THEN [heap |-> h, at |-> i] ELSE Rise(it, loop[k - 1])
  IN loop[Len(h)].heap

\* A mutant: only one child is compared.
Least_LeftOnly(it, h, i) ==
  IF 2 * i <= Len(h) /\ Before(it, h, 2 * i, i) THEN 2 * i ELSE i

\* jetnet_timer_heap_adjust: the right child is compared with the lesser of
\* its parent and its sibling.
Least(it, h, i) ==
  LET Lower(a, b) == IF b <= Len(h) /\ Before(it, h, b, a) THEN b ELSE a
  IN Lower(Lower(i, 2 * i), 2 * i + 1)

Sink(it, s) ==
  LET least == Least(it, s.heap, s.at)
  IN IF least = s.at THEN s
     ELSE [heap |-> Swapped(s.heap, s.at, least), at |-> least]

SiftDown(it, h, i) ==
  LET loop[k \in 0 .. Len(h)] ==
        IF k = 0 THEN [heap |-> h, at |-> i] ELSE Sink(it, loop[k - 1])
  IN loop[Len(h)].heap

HeapAdd(it, h, a) == SiftUp(it, Append(h, a), Len(h) + 1)

\* jetnet_timer_heap_pop of the root: the last item takes its place.
HeapPop(it, h) ==
  IF Len(h) = 1 THEN <<>>
  ELSE SiftDown(it, [Front(h) EXCEPT ![1] = Last(h)], 1)

\* A round of the first loop of jetnet_timer_mgr_update.
PopNext(s) ==
  IF s.heap = <<>> \/ item[s.heap[1]].expire > now THEN s
  ELSE [heap |-> HeapPop(item, s.heap), trigger |-> Append(s.trigger, s.heap[1])]

\* That loop: the heap left and what it popped.
PopDue(h, popped) ==
  LET loop[k \in 0 .. Len(h)] ==
        IF k = 0 THEN [heap |-> h, trigger |-> popped] ELSE PopNext(loop[k - 1])
  IN loop[Len(h)]

-----------------------------------------------------------------------------
(* The id tree.                                                            *)

Registered(id, a) == With(ids, id, a)
Unregistered(id) == Restrict(ids, DOMAIN ids \ {id})

-----------------------------------------------------------------------------
(* The calls of the program, from the loop or from a callback.             *)

Calling == up /\ (inside \/ trigger = <<>>)

Expiry(t) == now + IF t.delay > 0 THEN t.delay ELSE t.period

Create ==
  /\ Calling /\ counter < MaxId
  /\ \E a \in Item \ DOMAIN item, t \in Timing :
       LET new == [id |-> counter + 1, cb |-> TRUE, delay |-> t.delay, period |-> t.period,
                   repeat |-> t.repeat, expire |-> Expiry(t)]
           it == With(item, a, new)
       IN /\ item' = it
          /\ heap' = HeapAdd(it, heap, a)
          /\ ids' = Registered(counter + 1, a)
  /\ counter' = counter + 1
  /\ UNCHANGED <<up, trigger, inside, now>>

\* A mutant: the item is freed at once.
Kill_Frees(id) ==
  /\ Calling /\ id \in DOMAIN ids
  /\ item' = Restrict(item, DOMAIN item \ {ids[id]})
  /\ ids' = Unregistered(id)
  /\ UNCHANGED <<up, heap, trigger, counter, inside, now>>

Kill(id) ==
  /\ Calling /\ id \in DOMAIN ids
  /\ item' = [item EXCEPT ![ids[id]].cb = FALSE]
  /\ ids' = Unregistered(id)
  /\ UNCHANGED <<up, heap, trigger, counter, inside, now>>

-----------------------------------------------------------------------------
(* jetnet_timer_mgr_update.                                                *)

Update ==
  /\ up /\ trigger = <<>>
  /\ LET due == PopDue(heap, <<>>) IN
       /\ heap' = due.heap
       /\ trigger' = due.trigger
  /\ UNCHANGED <<up, item, ids, counter, inside, now>>

Cur == Last(trigger)
Serving == trigger # <<>> /\ ~inside
Freed(a) == Restrict(item, DOMAIN item \ {a})

\* The item leaves the trigger array and goes back into the heap.
Rearm(it) ==
  /\ item' = it
  /\ heap' = HeapAdd(it, heap, Cur)
  /\ UNCHANGED ids

FreeKilled ==
  /\ Serving /\ ~item[Cur].cb
  /\ item' = Freed(Cur)
  /\ trigger' = Front(trigger)
  /\ UNCHANGED <<up, heap, ids, counter, inside, now>>

Postpone ==
  /\ Serving /\ item[Cur].cb /\ item[Cur].delay > 0
  /\ Rearm([item EXCEPT ![Cur].delay = 0, ![Cur].expire = now + item[Cur].period])
  /\ trigger' = Front(trigger)
  /\ UNCHANGED <<up, counter, inside, now>>

Fire ==
  /\ Serving /\ item[Cur].cb /\ item[Cur].delay = 0
  /\ inside' = TRUE
  /\ UNCHANGED <<up, item, heap, trigger, ids, counter, now>>

\* A mutant: the tree node stays.
Finish_KeepsId ==
  /\ item' = Freed(Cur)
  /\ UNCHANGED <<ids, heap>>

\* The last repeat: the tree node goes with the item.
Finish ==
  /\ ids' = Unregistered(item[Cur].id)
  /\ item' = Freed(Cur)
  /\ UNCHANGED heap

\* A mutant: 0, which stands for ever, is counted down too.
Again_Counts ==
  Rearm([item EXCEPT ![Cur].expire = now + item[Cur].period,
                     ![Cur].repeat = @ - 1])

Again ==
  Rearm([item EXCEPT ![Cur].expire = now + item[Cur].period,
                     ![Cur].repeat = IF @ = 0 THEN 0 ELSE @ - 1])

Return ==
  /\ inside
  /\ \/ ~item[Cur].cb /\ item' = Freed(Cur) /\ UNCHANGED <<heap, ids>>
     \/ item[Cur].cb /\ item[Cur].repeat = 1 /\ Finish
     \/ item[Cur].cb /\ item[Cur].repeat # 1 /\ Again
  /\ trigger' = Front(trigger)
  /\ inside' = FALSE
  /\ UNCHANGED <<up, counter, now>>

-----------------------------------------------------------------------------

\* The loop reads the clock again before each poll.
Tick ==
  /\ trigger = <<>> /\ now < MaxNow
  /\ now' = now + 1
  /\ UNCHANGED <<up, item, heap, trigger, ids, counter, inside>>

Release ==
  /\ up /\ trigger = <<>>
  /\ item' = Restrict(item, DOMAIN item \ Range(heap))
  /\ ids' = [id \in {} |-> 0]
  /\ heap' = <<>>
  /\ up' = FALSE
  /\ UNCHANGED <<trigger, counter, inside, now>>

Start ==
  /\ ~up
  /\ up' = TRUE
  /\ counter' = 0
  /\ UNCHANGED <<item, heap, trigger, ids, inside, now>>

Next ==
  \/ Create \/ (\E id \in 1..MaxId : Kill(id))
  \/ Update \/ FreeKilled \/ Postpone \/ Fire \/ Return
  \/ Tick \/ Release \/ Start

Spec == Init /\ [][Next]_vars

-----------------------------------------------------------------------------
(* Properties.                                                             *)

\* The state has the types its comments say (jetnet_timer_mgr_t).
TypeOK ==
  /\ up \in BOOLEAN /\ inside \in BOOLEAN
  /\ DOMAIN item \subseteq Item
  /\ \A a \in DOMAIN item : item[a] \in ItemRecord
  /\ heap \in Seq(Item) /\ trigger \in Seq(Item)
  /\ DOMAIN ids \subseteq 1..MaxId /\ Range(ids) \subseteq Item
  /\ counter \in 0..MaxId /\ now \in 0..MaxNow
  /\ inside => trigger # <<>>

\* Every allocated item is held exactly once, by the heap or by the trigger
\* array, and these hold no freed item: whatever callbacks create and kill
\* while jetnet_timer_mgr_update walks the array, an item is freed once.
OneHolder ==
  /\ IsInjective(heap \o trigger)
  /\ Range(heap \o trigger) = DOMAIN item

\* A timer id resolves to its own item for as long as the timer can ring, and
\* to nothing afterwards: jetnet_timer_kill never reaches a freed item, nor a
\* later timer that was given the same address.
IdsResolve ==
  /\ \A id \in DOMAIN ids : /\ ids[id] \in DOMAIN item
                            /\ item[ids[id]].id = id
  /\ {ids[id] : id \in DOMAIN ids} = {a \in DOMAIN item : item[a].cb}

\* The program sees alarms: each update rings every alarm that was due, once,
\* and none that was killed, wherever the heap had put it.
Alive == {a \in DOMAIN item : item[a].cb}
Awaited ==
  [id \in {item[a].id : a \in Alive} |->
     LET a == CHOOSE b \in Alive : item[b].id = id IN
     [due |-> item[a].expire, delay |-> item[a].delay,
      period |-> item[a].period, repeat |-> item[a].repeat]]
ToServe == {item[a].id : a \in {b \in Range(trigger) : /\ item[b].cb
                                                       /\ inside => b # Cur}}
Called == IF inside THEN item[Cur].id ELSE 0

Abstract == INSTANCE Alarms WITH
  alarm <- Awaited, round <- ToServe, ringing <- Called, clock <- now

AlarmSpec == Abstract!SafeSpec
=============================================================================
