---------------------------- MODULE SocketServer ----------------------------
(***************************************************************************)
(* The TCP part of the socket server of a cell (net/jetnet_ss.c) with the  *)
(* write buffer list of net/jetnet_iobuf.c.  The protocols above it call   *)
(* listen, connect, send and close between two calls of jetnet_ss_poll,    *)
(* each of which collects edge-triggered readiness from epoll when a round *)
(* is over, then serves one socket of the active list and reports at most  *)
(* one event.  The kernel and the peers act at any time between the system *)
(* calls.                                                                  *)
(*                                                                         *)
(* Bytes are units: what is sent is told apart, what is received counted.  *)
(***************************************************************************)
EXTENDS Integers, IntrusiveList

CONSTANTS
  MaxSocket,    \* MAX_SOCKET, the number of slots
  MaxEvent,     \* MAX_EVENT, what one epoll_wait returns at most
  IovPerSend,   \* IOVEC_NUM_PER_SEND
  MinRecv, MaxRecv,   \* MIN_RECV_SIZE and MAX_RECV_SIZE
  SndBuf,       \* the units the kernel buffers for a connection
  MsgLen,       \* the units of a message
  Vectored,     \* whether the protocols use jetnet_tcp_sendv
  AcceptErrors, \* "transient" and "fatal": how accept may fail
  MaxOpen,      \* bound: listens and connects stop at this id
  MaxMsg,       \* bound: messages sent
  MaxData,      \* bound: units the peers send
  MaxDial       \* bound: connections that come in

ASSUME SocketServerAssumption ==
  /\ {MaxSocket, MaxEvent, IovPerSend, MinRecv, SndBuf, MsgLen} \subseteq Nat \ {0}
  /\ MaxRecv \in Nat /\ MinRecv <= MaxRecv
  /\ Vectored \in BOOLEAN
  /\ AcceptErrors \subseteq {"transient", "fatal"}
  /\ {MaxOpen, MaxMsg, MaxData, MaxDial} \subseteq Nat

VARIABLES
  sock,         \* sock[s]: the socket object in slot s
  active, closing,  \* active_list and close_list
  fresh,        \* the active sockets whose active_token is that of the server
  alloc_id,     \* the next id
  net,          \* net[s]: the kernel's side of the connection of slot s
  step,         \* between polls, in one after epoll_wait, or crashed
  ev,           \* the event of the last poll
  view,         \* history: what the protocols know of the ids they hold
  taken,        \* history: taken[s], the units the kernel took
  queued,       \* history: queued[s], the messages the socket accepted
  sends, data, dials  \* what the bounds count

lists == <<active, closing, fresh>>
history == <<view, taken, queued>>
bounds == <<sends, data, dials>>
vars == <<sock, lists, alloc_id, net, step, ev, history, bounds>>

Slot == 0..MaxSocket - 1
SlotOf(id) == id % MaxSocket
Message == 1..MaxMsg
Units(m) == [i \in 1..MsgLen |-> <<m, i>>]

State == {"INVALID", "CONNECTING", "CLOSING", "CONNECTED", "LISTENING", "ERROR"}

\* jetnet_reset_socket.
Reset == [state |-> "INVALID", role |-> "UNKNOW", id |-> -1, can_send |-> FALSE,
          can_recv |-> FALSE, recv_size |-> MinRecv, wbl |-> <<>>]

\* No connection: the descriptor is closed.
NoNet == [conn |-> "none", rx |-> 0, fin |-> FALSE, reset |-> FALSE,
          room |-> 0, nospace |-> FALSE, edge |-> FALSE]

TypeOK ==
  /\ \A s \in Slot :
       /\ sock[s].state \in State
       /\ sock[s].role \in {"UNKNOW", "LISTENER", "CLIENT", "SERVER"}
       /\ sock[s].id \in Int
       /\ {sock[s].can_send, sock[s].can_recv} \subseteq BOOLEAN
       /\ sock[s].recv_size \in MinRecv..MaxRecv
       /\ \A i \in DOMAIN sock[s].wbl : sock[s].wbl[i] # <<>>
       /\ net[s].conn \in {"none", "pending", "up", "failed", "listen"}
       /\ net[s].room \in 0..SndBuf
       /\ net[s].rx \in Nat
  /\ IsInjective(active) /\ Range(active) \subseteq Slot
  /\ IsInjective(closing) /\ Range(closing) \subseteq Slot
  /\ fresh \subseteq Range(active)
  /\ alloc_id \in Nat
  /\ step \in {"app", "serve", "crashed"}

\* jetnet_ss_create.
Init ==
  /\ sock = [s \in Slot |-> Reset]
  /\ active = <<>> /\ closing = <<>> /\ fresh = {}
  /\ alloc_id = 0
  /\ net = [s \in Slot |-> NoNet]
  /\ step = "app"
  /\ ev = [type |-> "NONE", id |-> -1]
  /\ view = [id \in {} |-> ""]
  /\ taken = [s \in Slot |-> <<>>]
  /\ queued = [s \in Slot |-> <<>>]
  /\ sends = 0 /\ data = 0 /\ dials = 0

-----------------------------------------------------------------------------
(* The lists.  An operator named Op_Fault is Op with a fault seeded in it, *)
(* to show that a property detects that fault.                             *)

Least(a, b) == IF a < b THEN a ELSE b

Activate_Never(s) == UNCHANGED <<active, fresh>>

Activate_Twice(s) ==
  /\ active' = Append(active, s)
  /\ fresh' = fresh \cup {s}

\* jetnet_active and jetnet_deactive.
Activate(s) ==
  /\ active' = EnlistedTail(active, s)
  /\ fresh' = IF s \in Range(active) THEN fresh ELSE fresh \cup {s}

ForceClosed_KeepsCloseFlag(S) ==
  /\ sock' = [s \in Slot |-> IF s \in S THEN Reset ELSE sock[s]]
  /\ net' = [s \in Slot |-> IF s \in S THEN NoNet ELSE net[s]]
  /\ taken' = [s \in Slot |-> IF s \in S THEN <<>> ELSE taken[s]]
  /\ queued' = [s \in Slot |-> IF s \in S THEN <<>> ELSE queued[s]]
  /\ active' = DelistedAll(active, S)
  /\ fresh' = fresh \ S
  /\ UNCHANGED closing

\* jetnet_force_close of the slots S.
ForceClosed(S) ==
  /\ sock' = [s \in Slot |-> IF s \in S THEN Reset ELSE sock[s]]
  /\ net' = [s \in Slot |-> IF s \in S THEN NoNet ELSE net[s]]
  /\ taken' = [s \in Slot |-> IF s \in S THEN <<>> ELSE taken[s]]
  /\ queued' = [s \in Slot |-> IF s \in S THEN <<>> ELSE queued[s]]
  /\ active' = DelistedAll(active, S)
  /\ fresh' = fresh \ S
  /\ closing' = DelistedAll(closing, S)

\* jetnet_alloc_socket: the first of the next MaxSocket ids whose slot is
\* free, or none.
FreeIds == {id \in alloc_id..alloc_id + MaxSocket - 1 :
              sock[SlotOf(id)].state = "INVALID"}
NewId_BusySlot == alloc_id

NewId == CHOOSE id \in FreeIds : \A other \in FreeIds : id <= other

-----------------------------------------------------------------------------
(* The kernel and the peers.                                               *)

\* What epoll_wait says of a socket.
In(s) == net[s].rx > 0 \/ net[s].fin \/ net[s].reset \/ net[s].conn = "failed"
Out(s) == (net[s].conn = "up" /\ net[s].room > 0) \/ net[s].reset
            \/ net[s].conn = "failed"
Err(s) == net[s].fin \/ net[s].reset \/ net[s].conn = "failed"

\* A change of the connection of slot s that wakes epoll.
Kernel(s, n) ==
  /\ net' = [net EXCEPT ![s] = n]
  /\ UNCHANGED <<sock, lists, alloc_id, step, ev, history>>

Usable(s) == net[s].conn = "up" /\ ~net[s].reset

ConnectEnds(s) ==
  /\ net[s].conn = "pending"
  /\ \/ Kernel(s, [net[s] EXCEPT !.conn = "up", !.room = SndBuf, !.edge = TRUE])
     \/ Kernel(s, [net[s] EXCEPT !.conn = "failed", !.edge = TRUE])
  /\ UNCHANGED bounds

PeerSends(s) ==
  /\ Usable(s) /\ ~net[s].fin
  /\ data < MaxData
  /\ data' = data + 1
  /\ Kernel(s, [net[s] EXCEPT !.rx = @ + 1, !.edge = TRUE])
  /\ UNCHANGED <<sends, dials>>

PeerCloses(s) ==
  /\ Usable(s) /\ ~net[s].fin
  /\ Kernel(s, [net[s] EXCEPT !.fin = TRUE, !.edge = TRUE])
  /\ UNCHANGED bounds

PeerResets(s) ==
  /\ Usable(s)
  /\ Kernel(s, [net[s] EXCEPT !.reset = TRUE, !.edge = TRUE])
  /\ UNCHANGED bounds

\* The peer acknowledges what was sent.  The kernel wakes epoll only if a
\* send found too little room before.
PeerAcks(s) ==
  /\ Usable(s) /\ net[s].room < SndBuf
  /\ Kernel(s, [net[s] EXCEPT !.room = SndBuf, !.nospace = FALSE,
                              !.edge = @ \/ net[s].nospace])
  /\ UNCHANGED bounds

Dial(s) ==
  /\ net[s].conn = "listen"
  /\ dials < MaxDial
  /\ dials' = dials + 1
  /\ Kernel(s, [net[s] EXCEPT !.rx = @ + 1, !.edge = TRUE])
  /\ UNCHANGED <<sends, data>>

\* A send or writev of units on slot s: how many units the kernel takes, and
\* what becomes of the connection.
Sent(s, units) == Least(Len(units), net[s].room)
AfterSent(s, units) ==
  [net[s] EXCEPT !.room = @ - Sent(s, units),
                 !.nospace = @ \/ Sent(s, units) # Len(units)]
SendFails(s) == net[s].reset \/ net[s].conn = "failed"

\* The peer closed, then answered with a reset: EPIPE, and SIGPIPE with it.
Kills(s) == net[s].reset /\ net[s].fin

-----------------------------------------------------------------------------
(* The protocols, between two polls.                                       *)

Idle == step = "app" /\ UNCHANGED step

\* The ids the protocols use: those they hold, and one reported closed, which
\* the handler of the event closes once.
Known(id) ==
  \/ id \in DOMAIN view
  \/ ev = [type |-> "CLOSE", id |-> id] /\ sock[SlotOf(id)].id = id

\* A connection made, whose descriptor epoll watches from now on.
Up == [NoNet EXCEPT !.conn = "up", !.room = SndBuf, !.edge = TRUE]

Holds(id, phase) ==
  view' = [i \in DOMAIN view \cup {id} |-> IF i = id THEN phase ELSE view[i]]

\* The socket of a new id: its state, role and can_send, and the kernel's side.
NewSocket(id, state, role, canSend, kernel) ==
  /\ sock' = [sock EXCEPT ![SlotOf(id)] =
                [Reset EXCEPT !.id = id, !.state = state, !.role = role,
                              !.can_send = canSend]]
  /\ net' = [net EXCEPT ![SlotOf(id)] = kernel]

\* An id and its slot found, but no connection: the slot stays free.
Spent(id) ==
  /\ sock' = [sock EXCEPT ![SlotOf(id)].id = id]
  /\ UNCHANGED <<net, view>>

\* jetnet_tcp_listen and jetnet_tcp_connect begin with jetnet_alloc_socket.
Opening ==
  /\ Idle
  /\ alloc_id < MaxOpen
  /\ FreeIds # {}
  /\ alloc_id' = NewId + 1
  /\ UNCHANGED <<lists, ev, taken, queued, bounds>>

Listen ==
  /\ Opening
  /\ \/ /\ NewSocket(NewId, "LISTENING", "LISTENER", FALSE,
                     [NoNet EXCEPT !.conn = "listen"])
        /\ Holds(NewId, "listening")
     \/ Spent(NewId)

Connect ==
  /\ Opening
  /\ \/ /\ NewSocket(NewId, "CONNECTED", "CLIENT", TRUE, Up)
        /\ Holds(NewId, "open")
     \/ /\ NewSocket(NewId, "CONNECTING", "CLIENT", FALSE,
                     [NoNet EXCEPT !.conn = "pending"])
        /\ Holds(NewId, "connecting")
     \/ Spent(NewId)

\* jetnet_alloc_socket finds no free slot: only the next id moves.
OpenFull ==
  /\ Idle
  /\ alloc_id < MaxOpen
  /\ FreeIds = {}
  /\ alloc_id' = alloc_id + MaxSocket
  /\ UNCHANGED <<sock, lists, net, ev, history, bounds>>

\* jetnet_close_socket: what was not sent yet is sent first.
Close(id) ==
  LET s == SlotOf(id)
  IN  /\ Idle
      /\ Known(id)
      /\ sock[s].state # "INVALID"
      /\ IF sock[s].state = "CONNECTED" /\ sock[s].wbl # <<>>
         THEN /\ sock' = [sock EXCEPT ![s].state = "CLOSING"]
              /\ UNCHANGED <<lists, net, taken, queued>>
         ELSE ForceClosed({s})
      /\ view' = Restrict(view, DOMAIN view \ {id})
      /\ UNCHANGED <<alloc_id, ev, bounds>>

\* jetnet_tcp_send and jetnet_tcp_sendv refuse every other socket.
Accepts(s) ==
  /\ sock[s].role \in {"CLIENT", "SERVER"}
  /\ sock[s].state \in {"CONNECTED", "CONNECTING"}

\* The message of this call, counted.
Sending(id) ==
  /\ Idle
  /\ id \in DOMAIN view
  /\ Accepts(SlotOf(id))
  /\ sends < MaxMsg
  /\ sends' = sends + 1
  /\ UNCHANGED <<closing, alloc_id, ev, view, data, dials>>

Queued(s) == queued' = [queued EXCEPT ![s] = Append(@, sends + 1)]

\* The socket is blocked, or older messages wait: the message joins them.
SendLater(id) ==
  LET s == SlotOf(id)
  IN  /\ Sending(id)
      /\ ~sock[s].can_send \/ sock[s].wbl # <<>>
      /\ sock' = [sock EXCEPT ![s].wbl = Append(@, Units(sends + 1))]
      /\ Queued(s)
      /\ UNCHANGED <<active, fresh, net, taken>>

Direct(id) ==
  /\ Sending(id)
  /\ sock[SlotOf(id)].can_send /\ sock[SlotOf(id)].wbl = <<>>

Unsent_FromStart(s, m) == Units(m)

\* What jetnet_direct_send leaves to send.  The call of jetnet_direct_sendv
\* swaps its last two arguments, so that the offset is the error code, zero.
Unsent(s, m) ==
  IF Vectored THEN Units(m)
  ELSE SubSeq(Units(m), Sent(s, Units(m)) + 1, MsgLen)

SendNow(id) ==
  LET s == SlotOf(id)
      m == sends + 1
      full == Sent(s, Units(m)) < MsgLen
  IN  /\ Direct(id)
      /\ ~SendFails(s)
      /\ sock' = [sock EXCEPT ![s].can_send = ~full,
                              ![s].wbl = IF full THEN <<Unsent(s, m)>> ELSE <<>>]
      /\ net' = [net EXCEPT ![s] = AfterSent(s, Units(m))]
      /\ taken' = [taken EXCEPT ![s] = @ \o SubSeq(Units(m), 1, Sent(s, Units(m)))]
      /\ Queued(s)
      /\ UNCHANGED <<active, fresh>>

SendError(id) ==
  LET s == SlotOf(id)
  IN  /\ Direct(id)
      /\ SendFails(s) /\ ~Kills(s)
      /\ sock' = [sock EXCEPT ![s].state = "ERROR"]
      /\ Activate(s)
      /\ UNCHANGED <<net, taken, queued>>

\* SIGPIPE, which the cell does not ignore.
SendKilled(id) ==
  LET s == SlotOf(id)
  IN  /\ step = "app"
      /\ id \in DOMAIN view /\ Accepts(s) /\ sends < MaxMsg
      /\ sock[s].can_send /\ sock[s].wbl = <<>>
      /\ Kills(s)
      /\ step' = "crashed"
      /\ UNCHANGED <<sock, lists, alloc_id, net, ev, history, bounds>>

-----------------------------------------------------------------------------
(* jetnet_ss_poll: the sockets of close_list are closed; at the end of a   *)
(* round, epoll says which sockets wake up; then one socket is served.     *)

\* A socket epoll found ready, with the flags of its events.
Woken(s) ==
  [sock[s] EXCEPT !.can_recv = @ \/ In(s) \/ Err(s),
                  !.can_send = @ \/ Out(s) \/ (Err(s) /\ sock[s].role # "LISTENER")]

Wakes_ReadsOnly(sk) == sk.state = "CONNECTING" \/ sk.can_recv

\* Whether it joins the active list.
Wakes(sk) ==
  sk.state = "CONNECTING" \/ sk.can_recv \/ (sk.can_send /\ sk.wbl # <<>>)

\* jetnet_ss_check_round, once the list is what closing the doomed sockets
\* leaves of it.
RoundOver(list) == list = <<>> \/ Head(list) \in fresh

\* The orders in which epoll_wait can return MaxEvent of the ready sockets.
Returns(ready) ==
  LET all == SetToSeqs(ready)
  IN  {SubSeq(q, 1, Least(MaxEvent, Len(q))) : q \in all}

PollEnter ==
  LET kept == DelistedAll(active, Range(closing))
      ready == {s \in Slot \ Range(closing) : net[s].edge /\ (In(s) \/ Out(s))}
  IN  /\ step = "app" /\ step' = "serve"
      /\ ev' = [type |-> "NONE", id |-> -1]
      /\ UNCHANGED <<alloc_id, view, bounds>>
      /\ IF ~RoundOver(kept)
         THEN ForceClosed(Range(closing))
         ELSE \E q \in Returns(ready) :
                LET closed(s) == s \in Range(closing)
                    got(s) == s \in Range(q)
                IN  /\ sock' = [s \in Slot |-> IF closed(s) THEN Reset
                                                ELSE IF got(s) THEN Woken(s)
                                                ELSE sock[s]]
                    /\ net' = [s \in Slot |-> IF closed(s) THEN NoNet
                                 ELSE [net[s] EXCEPT !.edge = s \in ready /\ ~got(s)]]
                    /\ taken' = [s \in Slot |-> IF closed(s) THEN <<>> ELSE taken[s]]
                    /\ queued' = [s \in Slot |-> IF closed(s) THEN <<>> ELSE queued[s]]
                    /\ active' = kept \o DelistedAll(q,
                         Range(kept) \cup {s \in Slot : ~Wakes(sock'[s])})
                    /\ fresh' = IF q = <<>> THEN fresh \ Range(closing) ELSE {}
                    /\ closing' = <<>>

-----------------------------------------------------------------------------
(* jetnet_handle_socket_poll_event, on the head of the active list, which  *)
(* has moved to its tail.                                                  *)

Serving(s) ==
  /\ step = "serve"
  /\ active # <<>> /\ s = Head(active)
  /\ UNCHANGED <<sends, data>>

Rotated == Tail(active) \o <<Head(active)>>

Returned == step' = "app"
NoEvent == UNCHANGED <<ev, view>>
Reports(type, s) == ev' = [type |-> type, id |-> sock[s].id]

Stays(s) == active' = Rotated /\ UNCHANGED <<closing, fresh>>

\* jetnet_deactive of the socket just served.
Leaves(s) ==
  /\ active' = Tail(active)
  /\ fresh' = fresh \ {s}
  /\ UNCHANGED closing

StaysIf(stays, s) == IF stays THEN Stays(s) ELSE Leaves(s)

ReportsClose_Undoomed(s) ==
  /\ Reports("CLOSE", s)
  /\ view' = Restrict(view, DOMAIN view \ {sock[s].id})
  /\ active' = Rotated
  /\ UNCHANGED <<closing, fresh>>

\* A CLOSE event: the socket goes to close_list, and stays active.
ReportsClose(s) ==
  /\ Reports("CLOSE", s)
  /\ view' = Restrict(view, DOMAIN view \ {sock[s].id})
  /\ active' = Rotated
  /\ closing' = EnlistedTail(closing, s)
  /\ UNCHANGED fresh

ServeNothing ==
  /\ step = "serve" /\ active = <<>>
  /\ Returned /\ NoEvent
  /\ UNCHANGED <<sock, lists, alloc_id, net, taken, queued, bounds>>

ServeError(s) ==
  /\ Serving(s)
  /\ sock[s].state = "ERROR"
  /\ Returned
  /\ ReportsClose(s)
  /\ UNCHANGED <<sock, alloc_id, net, taken, queued, dials>>

\* jetnet_listener_handle_epoll_event, by what accept answers.  One that
\* fails for want of descriptors leaves the connection where it is.
AcceptRefused(s) ==
  /\ Serving(s)
  /\ sock[s].state = "LISTENING"
  /\ "transient" \in AcceptErrors
  /\ Returned /\ NoEvent
  /\ StaysIf(sock[s].can_recv, s)
  /\ UNCHANGED <<sock, alloc_id, net, taken, queued, dials>>

\* EAGAIN.
AcceptNone(s) ==
  /\ Serving(s)
  /\ sock[s].state = "LISTENING"
  /\ net[s].rx = 0
  /\ Returned /\ NoEvent
  /\ sock' = [sock EXCEPT ![s].can_recv = FALSE]
  /\ Leaves(s)
  /\ UNCHANGED <<alloc_id, net, taken, queued, dials>>

\* Any other error: the event names no socket, and jetnet_ss_poll follows it.
AcceptFails(s) ==
  /\ Serving(s)
  /\ sock[s].state = "LISTENING"
  /\ "fatal" \in AcceptErrors
  /\ step' = "crashed"
  /\ sock' = [sock EXCEPT ![s].state = "ERROR"]
  /\ Stays(s) /\ NoEvent
  /\ UNCHANGED <<alloc_id, net, taken, queued, dials>>

Accepting(s) ==
  /\ Serving(s)
  /\ sock[s].state = "LISTENING"
  /\ net[s].rx > 0
  /\ Returned
  /\ StaysIf(sock[s].can_recv, s)
  /\ UNCHANGED <<taken, queued, dials>>

\* A connection accepted, and closed again: its options cannot be set, no
\* slot is free, or epoll does not take it.
AcceptDrops(s) ==
  /\ Accepting(s)
  /\ NoEvent
  /\ net' = [net EXCEPT ![s].rx = @ - 1]
  /\ \/ UNCHANGED <<sock, alloc_id>>
     \/ FreeIds = {} /\ alloc_id' = alloc_id + MaxSocket /\ UNCHANGED sock
     \/ /\ FreeIds # {}
        /\ alloc_id' = NewId + 1
        /\ sock' = [sock EXCEPT ![SlotOf(NewId)].id = NewId]

Accept(s) ==
  /\ Accepting(s)
  /\ FreeIds # {}
  /\ alloc_id' = NewId + 1
  /\ sock' = [sock EXCEPT ![SlotOf(NewId)] =
                [Reset EXCEPT !.id = NewId, !.state = "CONNECTED",
                              !.role = "SERVER", !.can_send = TRUE]]
  /\ net' = [net EXCEPT ![s].rx = @ - 1, ![SlotOf(NewId)] = Up]
  /\ Holds(NewId, "open")
  /\ ev' = [type |-> "ACCEPT", id |-> NewId]

\* jetnet_connector_handle_epoll_event.
ServeConnector(s) ==
  /\ Serving(s)
  /\ sock[s].state = "CONNECTING"
  /\ Returned
  /\ IF net[s].conn = "failed" \/ net[s].reset
     THEN /\ sock' = [sock EXCEPT ![s].state = "ERROR"]
          /\ Stays(s)
          /\ Reports("REFUSED", s)
          /\ Holds(sock[s].id, "failed")
     ELSE IF ~sock[s].can_send
     THEN Leaves(s) /\ NoEvent /\ UNCHANGED sock
     ELSE /\ sock' = [sock EXCEPT ![s].state = "CONNECTED"]
          /\ StaysIf(sock[s].can_recv \/ sock[s].wbl # <<>>, s)
          /\ Reports("CONNECTED", s)
          /\ Holds(sock[s].id, "open")
  /\ UNCHANGED <<alloc_id, net, taken, queued, dials>>

-----------------------------------------------------------------------------
(* Reading and writing: what both handlers of a connection do.             *)

Reading(s) == sock[s].can_recv /\ net[s].rx > 0
Ended(s) == sock[s].can_recv /\ net[s].rx = 0 /\ (net[s].fin \/ net[s].reset)
ReadCount(s) == Least(net[s].rx, sock[s].recv_size)

\* GET_RECV_SIZE.
NextRecvSize(size, got) ==
  IF got >= size THEN Least(2 * size, MaxRecv)
  ELSE IF 2 * got < size THEN Max({MinRecv, size \div 2}) ELSE size

MoreToRead_Never(s) == FALSE

\* A read that fills its buffer may have left more; any other emptied the
\* connection.
MoreToRead(s) == Reading(s) /\ ReadCount(s) = sock[s].recv_size

\* jetnet_send_buffer_list: the first buffers of the list, in one call.
Writing(s) == sock[s].can_send /\ sock[s].wbl # <<>>
Batch(s) == FlattenSeq(SubSeq(sock[s].wbl, 1, Least(Len(sock[s].wbl), IovPerSend)))
Took(s) == IF Writing(s) THEN Sent(s, Batch(s)) ELSE 0

Dropped_WholeBuffers(wbl, k) ==
  LET length(i) == Len(FlattenSeq(SubSeq(wbl, 1, i)))
  IN  SubSeq(wbl, Max({i \in 0..Len(wbl) : length(i) <= k}) + 1, Len(wbl))

\* jetnet_wbl_drop: the list without its first k units.
Dropped(wbl, k) ==
  LET length(i) == Len(FlattenSeq(SubSeq(wbl, 1, i)))
      n == Max({i \in 0..Len(wbl) : length(i) <= k})
  IN  IF n = Len(wbl) THEN <<>>
      ELSE <<SubSeq(wbl[n + 1], k - length(n) + 1, Len(wbl[n + 1]))>>
             \o SubSeq(wbl, n + 2, Len(wbl))

StillWritable_IfEmptied(s) ==
  /\ sock[s].can_send
  /\ Writing(s) => Took(s) = Len(FlattenSeq(sock[s].wbl))

\* The socket stays writable when the kernel took the whole batch.
StillWritable(s) == sock[s].can_send /\ (Writing(s) => Took(s) = Len(Batch(s)))

\* The socket and the kernel after a read and a write.
Served(s) ==
  [sock[s] EXCEPT
     !.can_recv = MoreToRead(s),
     !.recv_size = IF Reading(s) THEN NextRecvSize(@, ReadCount(s)) ELSE @,
     !.can_send = StillWritable(s),
     !.wbl = Dropped(@, Took(s))]
KernelServed(s) ==
  [(IF Writing(s) THEN AfterSent(s, Batch(s)) ELSE net[s]) EXCEPT
     !.rx = IF Reading(s) THEN @ - ReadCount(s) ELSE @]

Transfers(s) ==
  /\ sock' = [sock EXCEPT ![s] = Served(s)]
  /\ net' = [net EXCEPT ![s] = KernelServed(s)]
  /\ taken' = [taken EXCEPT ![s] = @ \o SubSeq(Batch(s), 1, Took(s))]
  /\ UNCHANGED queued

Finished_ReadsOnly(sk) == ~sk.can_recv

\* Nothing to do before epoll says so.
Finished(sk) == ~sk.can_recv /\ (~sk.can_send \/ sk.wbl = <<>>)

\* jetnet_closing_handle_epoll_event.
Closes(s) ==
  \/ sock[s].wbl = <<>>
  \/ Writing(s) /\ SendFails(s)
  \/ Served(s).wbl = <<>>
  \/ Ended(s)

ServeClosing(s) ==
  /\ Serving(s)
  /\ sock[s].state = "CLOSING"
  /\ ~(Writing(s) /\ Kills(s))
  /\ Returned /\ NoEvent
  /\ IF Closes(s)
     THEN ForceClosed({s})
     ELSE Transfers(s) /\ StaysIf(~Finished(Served(s)), s)
  /\ UNCHANGED <<alloc_id, dials>>

\* jetnet_stream_handle_epoll_event: the read finds the end of the stream.
StreamEnds(s) ==
  /\ Serving(s)
  /\ sock[s].state = "CONNECTED"
  /\ Ended(s)
  /\ Returned
  /\ sock' = [sock EXCEPT ![s].state = "ERROR"]
  /\ ReportsClose(s)
  /\ UNCHANGED <<alloc_id, net, taken, queued, dials>>

\* The write fails, after a read whose data are reported first or without.
StreamBreaks(s) ==
  /\ Serving(s)
  /\ sock[s].state = "CONNECTED"
  /\ ~Ended(s) /\ Writing(s) /\ SendFails(s) /\ ~Kills(s)
  /\ Returned
  /\ sock' = [sock EXCEPT ![s] = [Served(s) EXCEPT
                !.state = "ERROR", !.can_send = TRUE, !.wbl = sock[s].wbl]]
  /\ IF Reading(s)
     THEN Reports("RECV", s) /\ Stays(s) /\ UNCHANGED view
     ELSE ReportsClose(s)
  /\ net' = [net EXCEPT ![s].rx = @ - (IF Reading(s) THEN ReadCount(s) ELSE 0)]
  /\ UNCHANGED <<alloc_id, taken, queued, dials>>

Stream(s) ==
  /\ Serving(s)
  /\ sock[s].state = "CONNECTED"
  /\ ~Ended(s) /\ ~(Writing(s) /\ SendFails(s))
  /\ Returned
  /\ Transfers(s)
  /\ StaysIf(~Finished(Served(s)), s)
  /\ IF Reading(s) THEN Reports("RECV", s) /\ UNCHANGED view ELSE NoEvent
  /\ UNCHANGED <<alloc_id, dials>>

\* SIGPIPE in jetnet_send_buffer_list.
ServeKilled(s) ==
  /\ Serving(s)
  /\ sock[s].state = "CLOSING" \/ (sock[s].state = "CONNECTED" /\ ~Ended(s))
  /\ Writing(s) /\ Kills(s)
  /\ step' = "crashed"
  /\ UNCHANGED <<sock, lists, alloc_id, net, ev, history, dials>>

-----------------------------------------------------------------------------

App ==
  \/ Listen \/ Connect \/ OpenFull
  \/ \E id \in 0..alloc_id - 1 :
       Close(id) \/ SendLater(id) \/ SendNow(id) \/ SendError(id) \/ SendKilled(id)

World ==
  \E s \in Slot :
    /\ step # "crashed"
    /\ \/ ConnectEnds(s) \/ PeerSends(s) \/ PeerCloses(s) \/ PeerResets(s)
       \/ PeerAcks(s) \/ Dial(s)

Serve ==
  \/ ServeNothing
  \/ \E s \in Slot :
       \/ ServeError(s)
       \/ AcceptRefused(s) \/ AcceptNone(s) \/ AcceptFails(s)
       \/ AcceptDrops(s) \/ Accept(s)
       \/ ServeConnector(s) \/ ServeClosing(s)
       \/ StreamEnds(s) \/ StreamBreaks(s) \/ Stream(s) \/ ServeKilled(s)

Next == App \/ World \/ PollEnter \/ Serve

Spec == Init /\ [][Next]_vars

\* The cell polls for ever, the network answers a connect and acknowledges
\* what it took, and accept does not fail for ever.
FairSpec ==
  /\ Spec
  /\ WF_vars(PollEnter) /\ WF_vars(Serve)
  /\ \A s \in Slot : WF_vars(ConnectEnds(s)) /\ WF_vars(PeerAcks(s))
  /\ \A s \in Slot : SF_vars(AcceptNone(s) \/ AcceptDrops(s) \/ Accept(s))

-----------------------------------------------------------------------------
(* What can go wrong, and does not.                                        *)

Connection(s) == sock[s].state \in {"CONNECTED", "CLOSING"}
Listed(s) == s \in Range(active)

\* What the kernel took of a connection, followed by what its write buffer
\* list still holds, is what was sent on it, in order: nothing lost, nothing
\* twice, however the sends were cut (jetnet_wbl_drop, jetnet_direct_send).
StreamExact ==
  \A s \in Slot :
    sock[s].state \notin {"INVALID", "ERROR"} =>
      taken[s] \o FlattenSeq(sock[s].wbl)
        = FlattenSeq([i \in DOMAIN queued[s] |-> Units(queued[s][i])])

ErrorStaysActive ==
  \A s \in Slot : sock[s].state = "ERROR" => Listed(s)
Unlinked ==
  /\ \A s \in Range(active) : sock[s].state # "INVALID"
  /\ \A s \in Range(closing) : sock[s].state = "ERROR"

\* A broken socket is served again, so that its CLOSE is reported, or its
\* CLOSE was reported and the next poll frees it ("we will report socket
\* close event in socket poll").  No list links a free slot ("state error in
\* poll"), and only a broken socket waits in close_list: jetnet_ss_poll frees
\* what it finds there.
ListsSound == ErrorStaysActive /\ Unlinked

\* A connection that could send at once is in the active list, as
\* jetnet_tcp_send relies on ("this situation,means the socket object has
\* been in active links").
WriteReady ==
  \A s \in Slot : Connection(s) /\ Writing(s) => Listed(s)

\* A connection that waits to send is not forgotten: the kernel owes it an
\* event, or has one for it, or epoll_wait returned one.
NoLostWriteEdge ==
  \A s \in Slot :
    Connection(s) /\ sock[s].wbl # <<>> /\ ~sock[s].can_send =>
      net[s].nospace \/ (net[s].edge /\ Out(s))

\* Data that came are read: the socket is to read them, or epoll says so.
NoLostReadEdge ==
  \A s \in Slot :
    Connection(s) /\ net[s].rx > 0 =>
      (sock[s].can_recv /\ Listed(s)) \/ net[s].edge

\* The same of the end of the stream ("we report close event and return").
EofNoticed ==
  \A s \in Slot :
    Connection(s) /\ net[s].fin =>
      (sock[s].can_recv /\ Listed(s)) \/ net[s].edge

\* The ids the protocols hold are those of the live sockets, each found by
\* its id: a slot is not given away while somebody knows its id.
LiveIds ==
  /\ DOMAIN view =
       {sock[s].id : s \in {t \in Slot :
          sock[t].state \notin {"INVALID", "CLOSING"} /\ t \notin Range(closing)}}
  /\ \A id \in DOMAIN view : sock[SlotOf(id)].id = id

\* A peer that goes away costs the cell its connection, which the next polls
\* report, and nothing more.
Survives == step # "crashed"

\* The events and ids are those of Sockets: a CLOSE is the last event of its
\* id, data come only on an open connection, an id is never used twice.
Abstract == INSTANCE Sockets WITH next <- alloc_id
EventsSpec == Abstract!SafeSpec

\* Whatever is sent is taken by the kernel, or its connection is given up.
Flushed ==
  \A s \in Slot :
    sock[s].wbl # <<>> ~> (sock[s].wbl = <<>> \/ step = "crashed")
=============================================================================
