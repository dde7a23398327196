# A TLA+ model of jetnet

jetnet is an actor server: a *cell* is one single-threaded process that runs
modules (services) as *entities* with mailboxes.  Cells of one host exchange
messages through System V shared memory, cells of different hosts through TCP
by way of a *huber* cell.  This directory holds TLA+ modules for the parts of
it where order, interleaving and failure matter, the TLC runs that check them
and TLAPS proofs about them.

## 1. Inventory

| component | state | operations | what is hard |
|---|---|---|---|
| entity system (`common/jetnet_ewrapper.c`) | tree of entities, a queue per entity, list of active entities, `block_wait_id`, wait items in a hash table and in a list per entity | create, destroy, find, push, pop, wait, wait timeout, wait trigger | user callbacks run in the middle of push, pop and timeout and call back in; SYNC waits block an entity; acks, duplicates and timeouts race |
| server loop (`jetnet_server.c`) | a local queue | poll, push all, pop all; post a message; init, release | who frees a message; results that are ignored; timers |
| ring (`channel/jetnet_kfifo.c`) | bytes, `in`, `out`, a spinlock, in shared memory | put, get | several processes, wrap of ring and counters, a process that dies |
| channel set (`channel/jetnet_cns.c`, `jetnet_sfifo.c`, `jetnet_shm.h`) | own segment, cached handles of others' segments | create, open, put, get, release | restart of the owner of a segment |
| message queue (`common/jetnet_mq.c`) | ring that grows | push, pop, release | wrap and growth |
| timers (`common/jetnet_timer.c`) | heap, tree of ids, trigger list | create, kill, update | callbacks create and kill timers during an update |
| socket server (`net/jetnet_ss.c`) | slots, active list, close list, per socket readiness flags and write buffers | listen, connect, send, close, poll | edge-triggered epoll, partial sends, closing with data left, starvation, slot reuse |
| io buffers (`net/jetnet_iobuf.c`) | read and write buffer lists with offsets | append, read, peek; append, gather, drop | cuts across buffers and io vectors |
| protocols (`net/jetnet_tcpsac.c`, `jetnet_tcppkg.c`, `jetnet_http.c`, `jetnet_ns.c`) | per socket parser, state and list links | event handlers, send, close, poll | packages over several reads, validation, unreachable notices, freed protocol data |
| huber (`service/huber.c`) | tables of peer sockets, reconnect timers | message and socket handlers | lost connections, reconnection |
| gate, jlua (`service/`) | none of note | API calls | - |
| start-up (`jetnet_cell_cfg.c`, `jetnet_module.c`, `jetnet_daemon.c`, `jetnet.c`) | configuration | - | sequential |

How they interact: `jetnet_server_loop` collects messages from the channel
(`jetnet_cns_get_msg`) and from the network (`jetnet_net_poll`, which calls
`jetnet_ss_poll` and lets the protocol of the socket turn its event into
messages), pushes every message to its entity, then pops the active entities in
turn until none is left.  A push or a pop runs the callback of a module, which
calls the API back: it posts messages (to the local queue, to the segment of
another cell, or to a socket), waits, creates, destroys, listens, connects,
sends.  Cells share nothing but the segments and the sockets.

What makes each part correct:

- *entity system*: every message is handled once, in order, by a live entity
  that is not blocked; every wait has one outcome; every message is freed once;
  nobody is forgotten or blocked for ever.
- *ring*: a bounded FIFO of whole packages for any number of writers, whatever
  the alignment and the value of the counters; a dead writer damages nothing.
- *channel set*: the same for a set of cells that come and go; a run of a cell
  reads nothing that was meant for an earlier one.
- *message queue*: a queue, while it grows and wraps.
- *timers*: a callback once per expiry, none after a kill, no item used after
  it was freed.
- *socket server*: the units of a connection arrive in order, once; no pending
  read or write waits for an edge that was consumed; no list holds a free slot;
  an id names one socket; CLOSE is the last event of an id.
- *io buffers*: two byte streams, wherever they are cut.
- *protocols*: what the owner of a connection is told is a session: an open or a
  failure, the packages in order, the lost ones named, one close, at the end.
- *huber*: one connection per peer, and none that the hub lost sight of.

`PROJECT.json` lists, with their lines, the 40 hazards found while reading the
code, and which property is about which.

## 2. Modules

| module | models | against |
|---|---|---|
| `IntrusiveList` | the embedded list nodes of `list.h`, as `src/` uses them | external |
| `Entity` | entity system and server loop | `Mailbox`, with its fairness |
| `KFifo` | the ring, its writers and its reader | `Channel`, safety |
| `Mq` | the growing ring of messages, as operators | a sequence (`Items`) |
| `Cells` | cells that start, end, crash; channels, posting, the loop; uses `Mq` | - |
| `Timer` | the timer manager | `Alarms`, safety |
| `SocketServer` | the TCP half of the socket server | `Sockets`, safety |
| `IoBuf` | the read and write buffer lists | `ByteStream`, safety |
| `Connection`, `Tcpsac`, `Tcppkg`, `Http` | the protocols, as operators on a connection | - |
| `NetService` | `jetnet_ns.c` and the polls: the three protocols together | `Session`, safety |
| `Huber` | the entity of the huber service | - |
| `EntityProofs`, `KFifoProofs`, `CellsProofs`, `TimerProofs`, `SocketServerProofs`, `IoBufProofs`, `NetServiceProofs`, `HuberProofs` | theorems and lemmas | - |
| `MC*` | the instances for TLC | - |

How they compose: `Entity` takes messages as `Arrive`, which is the ring of
`Cells` (`Turn`, `PassOn`, `Deliver`) and of `Huber` (`inbox`) from the inside.
`Cells` takes each segment for what `Channel` promises, and `KFifo` implements
`Channel`.  `NetService` takes the socket server for what `Sockets` promises,
and `SocketServer` implements `Sockets`; `IoBuf` shows that the lists both of
them take for sequences are sequences.  `Huber` takes a connection for what
`Session` promises, and a timer for what `Alarms` promises.

An operator named `Op_Fault` in a module is `Op` with a fault seeded in it; each
property is known to detect one (`mutants` in `PROJECT.json`).

### Entity

State: `alive` (the tree of entities), `mq`, `active`, `block`, `items`
(hash table and `wait_head` lists at once: both always hold the same items),
`waits` and `issued` (the two counters; `issued` remembers which entity asked
for a sequence id), `inq` (the queue of the loop), `phase` and `running` (where
the thread is, and whether a module's callback is on the stack), `cur` (the
message freed when that callback returns).  `freed` and `told` are history.

One action per outcome of an operation: `PushNoEntity`, `PushUnmatchedAck`,
`PushAckNow`, `PushAckLater`, `PushData` are the returns of
`jetnet_entity_push_msg`; `PopData` and `PopTrigger` those of
`jetnet_entity_pop_msg`; `TimeoutNow` and `TimeoutLater` those of the timer
callback.  While `running`, the API actions `Create`, `Destroy`, `GenSeqId`,
`WaitMsg` may happen any number of times, for any entity, its own included,
until `Return`.  What the callback does to a message is not modelled, nor what
it posts: posted messages come back as `Arrive`.

Assumed of the environment: an ack is addressed to the entity that sent the
request (`Arrive` draws acks from `issued`), any number of times and at any
time; every wait is given a callback; timers are fired between two rounds of the
loop.  The loop of `jetnet_server.c` calls no `jetnet_timer_mgr_update` at all:
`TimersRun` says whether it does.  With `TRUE` every behaviour with `FALSE` is
included, since no fairness makes a timer fire: what the runs show holds of the
code as it is, and would hold if the loop called the timers.  That every SYNC wait
ends (`BlockEnds`) does not hold of the code, as `entity_no_timer` shows.  What the
loop alone does promise is `AckReleases`: once the ack of the wait an entity is
blocked on has come (`AckCame`) the entity is released, unless its callback waits
again and that wait gets the ack (`Outbid`).

### KFifo

State: the bytes, `in` and `out` (modulo `CounterMod`, which stands for 2^32), the
spinlock, and per process a program counter with what it holds.  A put is
`StartPut`, `PutLock`, `PutCheck`, one `PutChunk` per io vector, `PutReturn`; a
get is `GetLock`, `GetRead`, `GetReturn`, and `Grow`, one turn of the loop that
doubles the receive buffer, whose size wraps as an unsigned int does.  Between any
two of them other processes act, and a writer may die (`Crash`), with the lock or
without.  The bytes of a package, its four-byte length and the copy in two parts
at the end of the ring are modelled: what is read must be what was written.
`said` is what a put or a get last answered, and about which package: `Channel`
lets a put refuse only the package that does not fit.

### Mq and Cells

`Mq` is the ring of `jetnet_mq.c` as operators on a record: `Push` with its
growth, `Pop`, `RingSize`, and `Items`, the queue it stands for.  `Pushed`, in
`Cells`, pushes several messages one after the other.

`Cells` is one process per cell: `Start` with exclusive creation of its segment
(`Begins`), the ways a start fails, `Exit` (which removes the segment), `Crash`
(which does not), and the operator's `Cleared`.  The spinlock of a channel lies in
its segment, and a cell may die with it taken, in a put or in a get: `jammed`
remembers which segments' locks a dead cell holds.  Whoever comes to such a lock
never returns (`spins`): the owner in its turn (`TurnSpins`), a poster in its put.
A put is one step otherwise: `KFifo` shows that it may be.  `Enters` are the
channels that a cell may be in when it dies: its own in a get, and those of its
puts.  A `Post` opens the target's segment when it is not cached (`Target`); a
segment that was removed and is still cached takes packages that nobody reads.
`Turn` is the poll of the loop (one package and what the hub's sockets brought,
pushed into the ring in one go), `PassOn` the hub's forwarding and `Deliver` the
handling.  `seg`, `open` and `era` number the runs of a cell, which is how a stale
handle differs from a good one.

### Timer

State: the allocated items by address, the heap, the trigger array, the id
tree, the counter and the clock.  `Update` pops the due items with the code's
sifting; then, item by item, `FreeKilled`, `Postpone` (the delay), `Fire` and
`Return` (rearm or finish), with `Create` and `Kill` between `Fire` and
`Return`, as well as outside.  A freed address may be given out again.  The
loops of the heap and of the first part of the update are functions of their
number of rounds (`Rise`, `Sink`, `PopNext`), which is at most the number of
items.  `Awaited`, `ToServe` and `Called` say which alarms of `Alarms` a state
stands for: an item that lost its callback is none.

### SocketServer

State: `sock[s]` (state, role, id, `can_send`, `can_recv`, `recv_size` and the
write buffer list `wbl`, a sequence of the units each buffer has left), the two
lists, `fresh` (which active sockets carry the current `active_token`),
`alloc_id`.  `net[s]` is the kernel's side of a connection: units received,
end of stream, reset, room for sending, whether a send found too little room
(only then does an acknowledgement wake epoll), and whether an edge waits in
epoll.  `view`, `taken` and `queued` are history.

Listen, connect, send and close are the protocols' calls, between two polls
(`step = "app"`).  A poll is two steps: `PollEnter` (close what is in
`close_list`, check the round, `epoll_wait`, flags and activation) and one of the
`Serve` actions, the handlers, one action per outcome.  The kernel's actions
(`World`) come between any of them.  A read and a write in one handler are one
step: what happens between them has the effect of happening before or after.
epoll returns at most `MaxEvent` of the ready sockets in any order; a stale
edge that epoll finds not ready disappears.  The sockets of the kernel are
external, from tcp(7) and epoll(7): a reset after an end of stream makes a send
fail with EPIPE (`Kills`).

The protocols use only ids they hold, or whose CLOSE they were just told, and
may send while connecting (the comment at line 696).  Sends of one io vector are
the passing runs; `Vectored` is `jetnet_tcp_sendv_`, with the swapped arguments
of its call.  The owner, the addresses, the data read and UDP are left out.

### IoBuf

A byte is its number in its stream and a run of bytes in one piece of memory is
its first byte and its length, so that a copy of the wrong bytes shows.  Every
turn of every loop is a step: `ReadCopy`, `ReadDrop`, `PeekBuffer`, `GatherVec`,
`GatherNext`, `DropBuffer`, `DropPart` and the returns.  `ByteStream` is two
streams of which a read takes a prefix, a peek shows a part and a gather the
next bytes to send.

### The network service

A connection is a record (`Connection`); `Tcpsac`, `Tcppkg` and `Http` have one
operator per handler, from a connection to a connection, and `NetService` the
variable `conn` and the actions: the calls of the modules (`Listen`, `Connect`,
`Send`, `Close`) and the events of a poll (`PollConnect`, `PollAccept`,
`PollRecv`, `PollClose`, each followed by every protocol's own poll), the
flushing of write buffers and the passing of time.  `rbl` is what came and was
not parsed, in units of half a package (head, body) or of a piece of an http
message, and one `PollRecv` may have read any number of them.  `told` and `came`
are history, and every property is about these two.  The loops of the receive
handlers are turns (`RecvTurn`, `Turns`): each but the last takes a package or a
message from the list, so that the units in it, and one, are turns enough.

The pieces of an http message are those that http_parser tells apart by a
callback (fields, end of the headers, body, a chunk's size or end, a trailer, the
end of the message), and two for which it calls nothing back (`Silent`): a blank
line before the message, and a piece of a chunk's size or of the line end behind a
chunk.  These leave `parser_step` where it is and advance `current_offset`.  While
the step is `NONE`, before a message or behind a part of a long body, the next read
parses the whole list again, with the parser in the state in which it was left
(`Parsed`, `Reread`): the piece is counted twice, and a piece of a chunk's size may
be read as what it is, as digits of a longer size, or as an error (`Again`).  In a
chunk that was read longer everything that comes is body.  `twice` remembers that
something was parsed again.

Two places where the code reads memory for what it is not: the polls of
`tcppkg` and `http` take a socket to be around the protocol data that it only
points to (`PollLink`, with the role that is read there as a parameter), and
`jetnet_init_http_pr` leaves `field_num` uninitialised (`full`, either value).

### Huber

State: the tables `sid_map` and `peer_map` as sets, a `huber_socket_t` per peer
(`rec`), the timers that are set, the peers asked for in the last minute
(`recent`), the connections and the messages about them that wait in the
entity's queue (`inbox`).  One action per handler and outcome.  `huber.c` calls
`rb_erase` on a node that is in no tree (`ReconnectFails`); `Erase` then leaves
any entries in the tree, and `torn` remembers it.  A message for a peer is given
up on a comparison of the wrong field (`GivesUp`), as in the code.

## 3. Runs

| run | checks | result |
|---|---|---|
| `entity` | `TypeOK ActiveExact BlockedHasWait OneHolder ToldOnce`, `Mailbox` (with fairness), `AckReleases` | holds |
| `entity_no_timer` | `BlockEnds`: the time that `jcapi_wait` gives a wait ends it | violated: nobody calls the timers |
| `kfifo` | `TypeOK OneInside FitsBuffer`, `Channel`, `Drains` | holds |
| `cells` | `TypeOK InOrder FreshStart`, `Arrives` | holds |
| `timer` | `TypeOK OneHolder IdsResolve`, `Alarms` | holds |
| `ss` | `TypeOK ListsSound NoLostReadEdge LiveIds`, `Sockets` | holds |
| `ss_stream` | `StreamExact WriteReady NoLostWriteEdge`, `Flushed` (with fairness) | holds |
| `ss_sendv` | `StreamExact` with `jetnet_tcp_sendv` | violated: a partial send is repeated from its start |
| `iobuf` | `BufferInv`, `ByteStream` | holds |
| `net` | `TypeOK Delivered Framed Validated Accounted NoFreedLink`, `Session` | holds |
| `tcppkg_valid` | `ValidInTime` | violated: the poll looks at memory that is not the socket |
| `huber` | `OneLink Tracked` | holds |

Seven more properties are stated in the modules and are known not to hold of the
code as it is; no run checks them, as none of them contradicts a statement of
the repository as sharply as the three above:
`Entity.WaitGivesAck` (a put-off ack reaches the wait's callback as the delivery
envelope), `Entity.NothingLeaks` (an ack kept by a trigger is lost with its
entity), `KFifo.PutReturns` (a dead writer keeps the lock for ever),
`SocketServer.EofNoticed` (an end of stream that comes with data is lost),
`SocketServer.Survives` (SIGPIPE), `Huber.HealthySends` (the comparison of the
wrong field) and `NetService.MessageTold` (a blank line that comes in a read of its
own before an http message is parsed, and counted, twice: `current_offset` is then
more than the list holds, and the connection is closed with the whole message behind
the line undelivered; `jetnet_http.c:329`).

Bounds.  *Entities*: two entities, one of them blocked while the other runs, are
what the scheduling conditions compare; three messages are an ack, its duplicate
and an ordinary message; two waits let one entity be blocked on one while the
other is resolved.  Three waits, with one peer (408223 states), were checked once
with the same result.  *Ring*: packages of 7 and 9 bytes in 16 give every
alignment, and an empty ring, one that is full to the byte and one with no room
for the package at hand; counters that wrap at 32 stand for those that wrap at
2^32 (the size divides both); four puts wrap the ring and the counters, two
writers contend.  *Cells*: the hub and one more cell, either of them started
again, so that a handle can be stale and a segment left over; a channel of one
package, so that it is full; a ring of two slots that a turn of three messages
makes grow while it is wrapped; one cell dies with a lock taken.  Two larger
instances were checked once with the same result: both cells started again (615721
states), and, for safety, two posts of each cell and one message from another
machine (4.65 million).  *Timers*: four items are the least heap whose pop
compares both children, and three kinds of timer (for ever, twice, delayed); two
ticks.  *Sockets*: `ss` has two slots (a listener and what it accepts, or two
connections) and opens three sockets, so that a slot is used again and an
allocation skips or fails; one message of two units goes out on a kernel buffer of
one, so a send is partial; two units are received by reads of one or two units,
full or short; one event per `epoll_wait` makes readiness wait in the kernel.
`ss_stream` sends two messages of two units on a kernel buffer of one with one
buffer per `writev`, so that each send leaves some of the list, and receives
nothing, which would only keep a socket busier.  Two larger instances of it were
run once with the same result: three messages of three units, a kernel buffer of
two, two buffers per send and two events (4 million states), and three messages
with three received units (7.5 million), both with two sockets opened.  *Buffers*:
five bytes in runs of at most two, three io vectors (an empty one among them),
batches of two: every loop turns, and both lists are cut inside a run.  *Network
service*: two sockets are a listener and what it accepts, and a client is looked
at alone (`MaxOwn`), as sockets do not touch each other's data; their owner sends
two packages, one in http (`MaxAnswer`), whose sends no property counts; six units
are a validation and two packages; in http they are a message and what follows, a
chunk whose size comes in two reads behind a part of a body of the limit, or blank
lines, parsed again, with a message behind them.  Seven pieces (1.1 million
states) were checked once, for an http server, with the same result.  *Huber*:
three connections to two peers and a caller, two messages each: a reconnect after
a failure while the other peer is connected.

`CHECK_DEADLOCK FALSE` is set in the `kfifo`, `cells`, `ss` and `huber` runs:
writers that have put what they may stop, and so does a cell that ended or that
spins, or a hub whose entity was destroyed.

Fairness.  A cell is one thread in an endless loop whose poll has a time-out, so
the loop, the poll and a callback's return are weakly fair; no fairness is assumed
of timers in `Entity`, as the loop does not call them.  In `KFifo` a process that
is alive takes its next step, and one that wants the spinlock gets it eventually
(the lock itself promises no order).  A peer acknowledges and a connect ends;
accept does not fail for ever for want of descriptors.  The last is an assumption,
not a fact: since `check_round` consults epoll only when the head of the list is
new, a listener in EMFILE, or a peer that always fills the reads, starves all
others (a hazard in `PROJECT.json`).  `NetService` assumes only that the loop
polls and that time goes by, `Cells` only the loop of a cell that runs, which a
lock that a dead cell holds stops for ever.  Nothing else is assumed; modules,
peers and the network need not do anything, and cells need not be started.

## 4. Proofs

What is proved holds for any sets of entities, peers, writers, any sizes and any
bounds; the assumptions are those of the modules' `ASSUME`s: that the bounds are
numbers, that the ring's size divides the range of its counters and no package
is empty or as long as that range (`KFifo`), and that an address does not both
listen as a hub and call (`Huber`).

`EntityProofs`, about `Entity`:

- `TypeCorrect`, `ActiveListExact`, `BlockedCanWake`, `HolderUnique`,
  `OutcomeUnique`: `Spec => []` of `TypeOK`, `ActiveExact` (the active list holds
  exactly the entities with something to handle that are not blocked),
  `BlockedHasWait`, `OneHolder`, `ToldOnce`.
- `ImplementsMailbox`: `Spec => Mail!SafeSpec`.

The inductive invariant is `SchedInv`: `TypeAndList` (types and a list without
repetitions), `Routed` (`ItemsSound`, `AcksRouted`), `BlockedHasWait` and
`ActiveExact`.  `ActiveExact` alone is not inductive: an ack that releases a
blocked entity puts it in the active list, and the code uses there the entity of
the *ack*, while it is the entity of the *item* that is released; only because
acks go to whoever sent the request (`Routed`) are they one entity.  The proof of
a step names the one entity it affects (`OneAffected`) and shows that it is in
the list exactly when it is ready.  `OneHolder` needs `OnlyArrived` (a message
that did not arrive yet is nowhere), `ToldOnce` needs `OneOutcome` (a wait with
an item, or with its outcome in a queue, was told nothing, and has only one of
the two).  The refinement needs both and `DeadEmpty` (an entity that was
destroyed has no messages and no block); its lemma `MailStep` has one case per
action, and says which step of `Mailbox`, or that none, it is.  This module and
the next begin with what the operations of `IntrusiveList` do to a list without
repetitions.

`SocketServerProofs`: `ListsStaySound`, `IdsStayLive`, `EventsImplemented`,
`ReadyIsListed`, `WritesNotForgotten`, `ReadsNotForgotten`: `Spec => []` of
`ListsSound`, `LiveIds`, `WriteReady`, `NoLostWriteEdge` and `NoLostReadEdge`, and
`Spec => EventsSpec`; `StreamsExact`, `SocketTypes`: `Spec => []` of `StreamExact`
(for `~Vectored`) and `TypeOK`.  There are three inductive invariants, each slot
by slot, so that a step has to be shown to keep what it says of the one slot it moves
(`OneSlot`, `OneEdges`).  `ServerInv` relates a slot (`Good`) to the lists, the
kernel and the ids: a free slot has no connection and is in no list, only broken
sockets are doomed, a live socket is the one its id finds.  It adds that nothing
is doomed while a socket is served, since `PollEnter` has just freed what was:
without it the broken socket that `ServeError` reports could have lost its id
already.  `EdgesInv` says what is owed to a connection (`Edges`).  The runs'
properties are not inductive: `NoLostWriteEdge` is about sockets with something to
send, but a message queued on a blocked socket needs the edge owed before it came;
and a socket that still connects may hold `can_recv` without being listed.  `DataInv` types
the state and says what a connection took and what its buffers hold (`Exact`): one
after the other they are the messages sent.  It lets a broken socket out, whose
bytes nobody will send, and `Vectored`, for which `ss_sendv` shows that it is false.
It rests on lemmas about what `FlattenSeq` makes of a list that a buffer is added
to or that a send cuts (`FlattenAppend`, `FlattenConcat`, `DroppedIs`): the library
defines it by a recursive function of the sequence's length, which is first shown
to exist (`JoinedExists`) and then followed, length by length.

`KFifoProofs`: `RingTypes`, `OnlyOneInside`, `FitsReceiveBuffer` (`Spec => []` of
`TypeOK`, `OneInside`, `FitsBuffer`) and `ChannelImplemented` (`Spec =>
ChannelSpec`: the bytes of the ring are a bounded FIFO of packages, for any size,
any range of the counters that it divides, any packages, writers and deaths).
`Inv` says of the ring that, unless a package is being written (`Settled`), the
counters differ by what the packages of `q` take and these lie in it one behind
the other from `out` on (`RingHolds`), and of a writer in the middle how much of
its package lies behind them (`Copying`); of the reader that what it says of the
oldest package is still so (`Oldest`: nobody else takes packages).  `Exclusive` is
`OneInside` writer by writer.  A dead writer inside leaves the lock taken and the
ring half written, and nobody looks at it again.  The lemmas are about the
remainder by the ring's size (`SlotMoves`, `Apart`), by the counters' range
(`CountersTell`, `WrapAgain`), and about what a copy stores and loads around the
end of the ring (`StoredIs`, `LoadedIs`, `StoredBehind`).  The length in four bytes
is proved to be read as it was written (`LengthRead`).

`CellsProofs`: `NewIsEmpty`, `PushAppends`, `PopTakesHead`: as long as head and tail
are slots, the ring of `Mq` is the queue `Items`, whatever is in it and however it
is wrapped when it grows.  `CellTypes`, `OrderOfPosting`, `NothingStale`: `Spec =>
[]` of `TypeOK`, `InOrder` and `FreshStart`, for any cells, runs, channels and
messages.  `Inv` says cell by cell that one that does not run holds nothing and
that a removed segment is empty (`Living`), that what a cell holds was meant for
its present run (`Known`), and that what was handled, what waits and what is in the
segment follow each other (`Line`).  Order needs one thing more, of two cells:
what the hub has still to pass on is newer than all it passed on (`ToCome`).  `Locks`
types the locks that dead cells hold and the cells that spin.  `PopTakesHead` is of a
ring that is not empty, as its callers ask first.

`TimerProofs`: `TimerTypes`, `ItemsHeldOnce`, `IdsFindTheirItems` (`Spec => []` of
`TypeOK`, `OneHolder`, `IdsResolve`) and `AlarmsKept` (`Spec => AlarmSpec`: an
update rings every alarm that is due, once, and no killed one, for any number of
items and any timings).  `Inv` has two parts, `Held` (heap and trigger array
hold the allocated items, each once, and no item of the heap expires before its
parent) and `Named` (ids are given out once, and the tree has those of the items
with a callback).  The heap's order is what makes an update find everything
that is due.  `RiseIs` and `SinkIs` say what one exchange of the sifting does to
a heap that is in order but for one place, and `SiftUpIs`, `SiftDownIs` and
`PopDueIs` follow the loops to their ends.

`IoBufProofs`: `BuffersExact` (`Spec => []BufferInv`) and `BuffersAreStreams`
(`Spec => StreamSpec`).  `BufferInv` is inductive as it stands: it relates the
local variables of every loop to what is left in the lists.  It falls into
`ReadHalf` and `WriteHalf`, which a step on the other list leaves alone
(`ReadFrame`, `WriteFrame`), so that each loop has only its own half to prove.
The refinement adds `AskedFor`: what a call was asked for stays as it was while
it turns.  A read takes its bytes out of the abstract stream at its return
(`Given`).

`NetServiceProofs`: `NetTypesHold`, `PackagesDelivered`, `MessagesFramed`,
`ConnectionsValidated`, `PackagesAccounted`, `NothingFreedLinked` (`Spec => []` of
`TypeOK`, `Delivered`, `Framed`, `Validated`, `Accounted`, `NoFreedLink`) and
`NetSessions` (`Spec => SessionSpec`), for any protocols, sockets, units and
reads.  The invariant (`NetInvariant`) is one of each connection, `PkgInv` or
`WebInv`, as no handler looks at two.  For tcpsac and tcppkg it says that what was
delivered and what waits in the read buffer make up what came (`Kept`), that what
waits begins with the head of a package (`Unparsed`), and that before a connection
is open its read buffer is all that came and nothing it sends has an owner
(`Early`): that is why the package which validates is the first that came, and why
the loop behind it loses nothing when it closes without naming packages.  For http
it says where the parser is in the read buffer (`Over`, whose `at` is that place)
and between two polls how far it may have come (`AtRest`).  As long as nothing was
parsed twice the place is `current_offset`, and the parser's counts are those of
the pieces before it (`Once`); from the first piece parsed twice on, the offset is
ahead of the place, and only that is kept: what is delivered still begins where
the last message ended, and takes nothing that is not in the list.  It needs to
know too which pieces may come behind a part of a body (`Flows`), for there the
list is parsed again in the middle of a message.  `Framed` says accordingly two
things: every message delivered is made of pieces that came and that no other
message has, always; and it is one whole message, or a part of the limit, where
nothing was parsed twice (`twice`).  That messages are whole, or delivered at all,
is not true of the code after such a piece (`MessageTold`).  A parser that delivered a
message has lost `should_keep_alive`, so no answer ever links a connection (`NeverLinked`): this is
why `NoFreedLink` holds, though `jetnet_http_close` unlinks nothing.  Each receive
handler is a loop: `SacTurn`, `PkgTurn` and `WebTurn` show that a turn keeps the
loop's invariant and shortens what is left, and `LoopRuns` and `LoopEnds` that so
many turns exist and are enough.  `Moves` says where the notices of a handler take
the session of the owner, so that each action is a step of `Session` or none.

`HuberProofs`: `NeverTwice` (`Spec => []OneLink`), from `LinkInv`: the open
connection of a peer is the one its `huber_socket_t` names, and there is none
while its timer is set.  It needs nothing of the trees, so that it holds also
after an `rb_erase` that tore them.  `NothingLost` (`Spec => []Tracked`) does need
them, and holds as `Tracked` says while nothing is torn.  `Tracking` relates tables
and queue: a connection that is open, or of which something waits to be told, is
found in `sid_map` (`Found`), what is in `sid_map` is open or its end is in the
queue (`Alive`), and nothing is told of a connection after its end (`LastWord`).

Every invariant that a passing run checks is proved (`StreamExact` for `~Vectored`,
as in its run), and so is the safety of every refinement.  Only model-checked is
liveness (`AckReleases`, `Drains`, `Arrives`, `Flushed`, the fairness of `Mailbox`),
which is out of the prover's reach.  The induction over data that some proofs need
(the rounds of a loop, the buffers of a list) is done without the library's
induction theorems, whose parameter is an operator: `Ascends` is induction for a
set of numbers, from the well-founded order of the naturals.

## 5. Not modelled

Vendored code, the example services, configuration, daemon and `main`,
conversions: they are sequential and keep no state the others depend on.
`daemon_init` is called by nobody.  The module loader is modelled only as what
makes a start fail.

UDP in `jetnet_ss.c`: nobody calls it, and it is unfinished: its poll handler is
empty, so that what it queues is never sent and what it closes never freed.

Left out of what is modelled: the growth of the timers' arrays (whose capacity
doubles at every firing), the buckets of the wait items' hash table, the owner
and the addresses of a socket, statistics, the text of packages and of http
messages (their pieces are modelled), http upgrades, `kfifo_raw_get` and
`spinlock_trylock`, which nobody calls.

The counters that ids are taken from are natural numbers in the modules, and do not
wrap: `alloc_id` of the socket server (an int, `jetnet_ss.c:248`, which past 2^31
gives out the id 0 for ever), the ids of timers and of waits, and the sequence ids.
What is shown of an id that outlives its socket, its timer or its wait is so for the
first 2^31 or 2^32 of them.  The ring's counters do wrap.

A slot of the socket server that is used again is seen by the protocols, whose ids
are live (`LiveIds`), but not by the owners: `NetService` and `Huber` give every
socket an id of its own.  `huber.c` closes ids whose end it was told (lines 156 and
250); there the code would close whatever socket has taken the slot.

## 6. Plan

1. The protocols over `SocketServer` itself instead of over `Sockets`, to see
   slot reuse and stale ids from the owners' side.
