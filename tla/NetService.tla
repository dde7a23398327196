----------------------------- MODULE NetService -----------------------------
(***************************************************************************)
(* The network service of a cell (net/jetnet_ns.c): the calls of the       *)
(* modules and the events of the socket server, dispatched to the three    *)
(* protocols.  The socket server is what module Sockets says it is: a      *)
(* connect ends or not, a connection that is open gets data and a close,   *)
(* and a socket that was closed nothing.  The peers send any packages, in  *)
(* any pieces.                                                             *)
(***************************************************************************)
EXTENDS Connection, FiniteSets, SequencesExt

CONSTANTS
  Proto,        \* the protocols in use
  MaxBody,      \* HTTP_MAX_BODY_LEN, in pieces
  MaxConn,      \* bound: sockets ever opened
  MaxOwn,       \* bound: those of them that the modules open
  MaxUnit,      \* bound: units (heads, bodies, http pieces) that come on each
  MaxSend,      \* bound: packages the owner sends on each
  MaxAnswer     \* bound: those of an http connection

ASSUME NetAssumption ==
  /\ Proto \subseteq {"tcpsac", "tcppkg", "http"}
  /\ MaxConn \in Nat /\ MaxOwn \in Nat /\ MaxUnit \in Nat
  /\ MaxSend \in Nat /\ MaxAnswer \in Nat

VARIABLE
  conn          \* the sockets by id; one that was closed keeps its history

vars == <<conn>>

Sac == INSTANCE Tcpsac
Pkg == INSTANCE Tcppkg
Web == INSTANCE Http

Init == conn = [id \in {} |-> 0]

Fresh == Cardinality(DOMAIN conn)
With(c) == [id \in DOMAIN conn \cup {Fresh} |-> IF id = Fresh THEN c ELSE conn[id]]
Opens(c) ==
  /\ Fresh < MaxConn
  /\ Cardinality({id \in DOMAIN conn : conn[id].role # "server"}) < MaxOwn
  /\ conn' = With(c)
Open(id) == conn[id].up
Is(id, proto) == conn[id].proto = proto

-----------------------------------------------------------------------------
(* The calls of the modules, between two polls.                            *)

\* jetnet_net_listen.
Listen(p) ==
  Opens(CASE p = "tcpsac" -> Sac!Listen
          [] p = "tcppkg" -> Pkg!Listen
          [] p = "http" -> Web!Listen)

\* jetnet_net_connect: the connection is made at once or asked for.
Connect(p) ==
  \E atonce \in BOOLEAN, out \in Outcome, full \in BOOLEAN :
    /\ p # "http" => ~full
    /\ ~(p = "tcppkg" /\ atonce) => out = "sent"
    /\ Opens(CASE p = "tcpsac" -> Sac!Connect(atonce)
               [] p = "tcppkg" -> Pkg!Connect(atonce, out)
               [] p = "http" -> Web!Connect(atonce, full))

\* The owner knows what it opened and what it was told of.
Knows(id) == conn[id].role # "server" \/ conn[id].told # <<>>

CanSend(c) ==
  CASE c.proto = "tcpsac" -> Sac!CanSend(c)
    [] c.proto = "tcppkg" -> Pkg!CanSend(c)
    [] c.proto = "http" -> Web!CanSend(c)

SendBy(c, k, out) ==
  CASE c.proto = "tcpsac" -> Sac!Send(c, k, out)
    [] c.proto = "tcppkg" -> Pkg!Send(c, k, out)
    [] c.proto = "http" -> Web!Send(c, k, out)

\* jetnet_net_send: the package is refused, written or kept.
Send(id) ==
  LET k == conn[id].sent + 1 IN
  /\ Open(id) /\ Knows(id) /\ k <= MaxSend /\ (Is(id, "http") => k <= MaxAnswer)
  /\ \E out \in Outcome, seq \in {0, k} :
       /\ MaySend(conn[id], out)
       /\ conn' = [conn EXCEPT ![id] = [SendBy(@, seq, out) EXCEPT !.sent = k]]

\* jetnet_net_close, once or again: the first is the last word.
Close(id) ==
  /\ Open(id) /\ Knows(id)
  /\ conn' = [conn EXCEPT ![id] =
       [(CASE Is(id, "tcpsac") -> Sac!Close(@)
           [] Is(id, "tcppkg") -> Pkg!Close(@)
           [] Is(id, "http") -> Web!Close(@)) EXCEPT !.bye = TRUE]]

-----------------------------------------------------------------------------
(* What comes from the network.                                            *)

\* The last chunk's size is nothing but zeros, which cannot be read longer.
LastChunk(c) == c.came[Len(c.came)].n # Web!Longer

HasCome(c, kind) == \E u \in ToSet(c.came) : u.kind = kind

\* The pieces of an http message that may follow a piece; a body that ends
\* with the connection is a response's, and has no other end.
NextPieces(c, kind) ==
  LET heads == IF c.role = "client" THEN {"headers", "headerstoeof"} ELSE {"headers"}
      chunks == {"chunkpart", "chunk"}
  IN
     {"bad"} \cup
     CASE kind \in {"none", "blank"} -> {"blank", "fields"} \cup heads
       [] kind = "end" -> {"fields"}
       [] kind = "fields" -> heads
       [] kind = "headers" -> {"body", "end"} \cup chunks
       [] kind = "headerstoeof" -> {"body"}
       [] kind = "chunkpart" -> chunks \cup
            (IF LastChunk(c) THEN {"trailer", "end"} ELSE {})
       [] kind = "chunk" -> {"body", "trailer", "end"} \cup chunks
       [] kind = "trailer" -> {"trailer", "end"}
       [] kind = "body" ->
            {"body"} \cup (IF HasCome(c, "headerstoeof") THEN {} ELSE {"end"})
                     \cup (IF HasCome(c, "chunk") THEN {"trailer"} \cup chunks ELSE {})
       [] OTHER -> {}

\* What a piece of a chunk's size may be when it is read again, which is behind
\* a part of a body only.
Again == {Web!Same, Web!Longer, Web!Wrong}

\* The units that may come next: the rest of a package, or a new one.
NextUnits(c) ==
  LET u == IF c.came = <<>> THEN [kind |-> "none", part |-> 0, n |-> 0]
                            ELSE c.came[Len(c.came)]
  IN IF c.proto = "http"
     THEN {v \in [kind : NextPieces(c, u.kind), part : {1}, n : Again] :
             v.kind # "chunkpart" \/ ~HasCome(c, "body") => v.n = Web!Same}
     ELSE IF u.part = 1 THEN {[u EXCEPT !.part = 2]}
     ELSE {[kind |-> k, part |-> 1, n |-> u.n + 1] :
             k \in IF c.proto = "tcpsac" THEN Sac!Kinds ELSE Pkg!Kinds}

\* jetnet_rbl_append: what one poll may have read.
Reads(c) ==
  LET More(d) == IF Len(d.came) >= MaxUnit THEN {}
                 ELSE {[d EXCEPT !.rbl = Append(@, u), !.came = Append(@, u)] :
                         u \in NextUnits(d)}
      after[k \in 0 .. MaxUnit] ==
        IF k = 0 THEN {c} ELSE UNION {More(d) : d \in after[k - 1]}
  IN UNION {after[k] : k \in 1 .. MaxUnit}

Received(c, d, out) ==
  LET fresh == SubSeq(d.rbl, Len(c.rbl) + 1, Len(d.rbl)) IN
  CASE c.proto = "tcpsac" /\ c.role = "client" -> Sac!HandleClientRecv(d)
    [] c.proto = "tcpsac" /\ c.role = "server" -> Sac!HandleServerRecv(d)
    [] c.proto = "tcppkg" /\ c.role = "client" -> Pkg!HandleClientRecv(d)
    [] c.proto = "tcppkg" /\ c.role = "server" -> Pkg!HandleServerRecv(d, out)
    [] c.proto = "http" /\ c.role = "client" -> Web!HandleClientRecv(d, fresh)
    [] c.proto = "http" /\ c.role = "server" -> Web!HandleServerRecv(d, fresh)

Closed(c) ==
  CASE c.proto = "tcpsac" /\ c.role = "listener" -> Sac!HandleListenerClose(c)
    [] c.proto = "tcpsac" /\ c.role = "client" -> Sac!HandleClientClose(c)
    [] c.proto = "tcpsac" /\ c.role = "server" -> Sac!HandleServerClose(c)
    [] c.proto = "tcppkg" /\ c.role = "listener" -> Pkg!HandleListenerClose(c)
    [] c.proto = "tcppkg" /\ c.role = "client" -> Pkg!HandleClientClose(c)
    [] c.proto = "tcppkg" /\ c.role = "server" -> Pkg!HandleServerClose(c)
    [] c.proto = "http" /\ c.role = "listener" -> Web!HandleListenerClose(c)
    [] c.proto = "http" /\ c.role = "client" -> Web!HandleClientClose(c)
    [] c.proto = "http" /\ c.role = "server" -> Web!HandleServerClose(c)

\* The end of jetnet_net_poll: every protocol's poll.
Polled(c) ==
  CASE c.proto = "tcppkg" -> Pkg!Poll(c)
    [] c.proto = "http" -> Web!Poll(c)
    [] OTHER -> c
PollsAll(f) == conn' = [id \in DOMAIN f |-> Polled(f[id])]

PollNothing == PollsAll(conn)

PollConnect(id) ==
  /\ Open(id) /\ conn[id].st = "CONNECTING"
  /\ \E ok \in BOOLEAN, out \in Outcome :
       /\ ~(Is(id, "tcppkg") /\ ok) => out = "sent"
       /\ PollsAll([conn EXCEPT ![id] =
            CASE Is(id, "tcpsac") -> Sac!HandleConnect(@, ok)
              [] Is(id, "tcppkg") -> Pkg!HandleConnect(@, ok, out)
              [] Is(id, "http") -> Web!HandleConnect(@, ok)])

\* An accepted socket belongs to its listener's protocol.
PollAccept(id) ==
  /\ Open(id) /\ conn[id].role = "listener"
  /\ Fresh < MaxConn
  /\ \E full \in BOOLEAN :
       /\ ~Is(id, "http") => ~full
       /\ PollsAll(With(
            CASE Is(id, "tcpsac") -> Sac!HandleAccept
              [] Is(id, "tcppkg") -> Pkg!HandleAccept
              [] Is(id, "http") -> Web!HandleAccept(full)))

PollRecv(id) ==
  /\ Open(id) /\ conn[id].role # "listener" /\ conn[id].st # "CONNECTING"
  /\ \E d \in Reads(conn[id]), out \in Outcome :
       /\ conn[id].st # "CONNECTED" => out = "sent"
       /\ MaySend(conn[id], out)
       /\ PollsAll([conn EXCEPT ![id] = Received(@, d, out)])

PollClose(id) ==
  /\ Open(id)
  /\ PollsAll([conn EXCEPT ![id] = Closed(@)])

\* The socket server empties a write buffer list.
Flush(id) ==
  /\ Open(id) /\ conn[id].wbl # <<>>
  /\ conn' = [conn EXCEPT ![id].wbl = Tail(@)]

\* MAX_TCPPKG_VALID_TIME, or HTTP_DEFAULT_ALIVE_TIME, goes by.
Expire(id) ==
  /\ Open(id) /\ ~conn[id].old
  /\ conn[id].st = "CONNECTED" \/ conn[id].linked
  /\ conn' = [conn EXCEPT ![id].old = TRUE]

NetPoll ==
  \/ PollNothing
  \/ \E id \in DOMAIN conn :
       PollConnect(id) \/ PollAccept(id) \/ PollRecv(id) \/ PollClose(id)

Next ==
  \/ \E p \in Proto : Listen(p) \/ Connect(p)
  \/ \E id \in DOMAIN conn : Send(id) \/ Close(id) \/ Flush(id) \/ Expire(id)
  \/ NetPoll

Spec == Init /\ [][Next]_vars

\* The loop polls for ever, and time goes by; the peers owe nothing.
FairSpec ==
  /\ Spec
  /\ WF_vars(PollNothing)
  /\ \A id \in 0 .. MaxConn - 1 : WF_vars(id \in DOMAIN conn /\ Expire(id))

-----------------------------------------------------------------------------
(* Properties.                                                             *)

States == {"LISTEN", "CONNECTING", "VALIDING", "CONNECTED", "TRANS", "CLOSE"}
Notices == {"CONNECT", "FAIL", "ACCEPT", "RECV", "UNREACH", "CLOSE"}

\* Every socket is of a protocol and a role, in one of that protocol's states,
\* has only notices and units the code knows, and is up until it is closed.
TypeOK ==
  /\ DOMAIN conn = 0 .. Fresh - 1
  /\ \A id \in DOMAIN conn : LET c == conn[id] IN
       /\ c.proto \in Proto /\ c.role \in {"listener", "client", "server"}
       /\ c.st \in States /\ c.up = (c.st # "CLOSE")
       /\ c.st \in {"VALIDING", "CONNECTED"} => c.proto = "tcppkg"
       /\ \A m \in ToSet(c.told) : m.t \in Notices /\ m.n \in Nat
       /\ \A k \in ToSet(c.wbl) : k \in 0 .. MaxSend
       /\ c.linked \in BOOLEAN /\ c.bye \in BOOLEAN

Told(c, t) == Chosen(c.told, [t : {t}, n : Nat])
Got(c) == Told(c, "RECV")
Whole(c) == Chosen(c.came, [kind : {"app"}, part : {2}, n : Nat])
Numbers(s) == [i \in DOMAIN s |-> s[i].n]

\* The owner of a tcpsac or tcppkg connection gets every application package
\* that came whole, once and in the order sent, however the packages were cut
\* into reads: while the connection is open none is left waiting for another
\* read, not even one behind the package that validated the connection
\* (jetnet_*_handle_*_recv, jetnet_*_recv_pkg).
Delivered ==
  \A id \in DOMAIN conn : LET c == conn[id] IN c.proto # "http" =>
    /\ IsPrefix(Numbers(Got(c)), Numbers(Whole(c)))
    /\ c.st = "TRANS" => Len(Got(c)) = Len(Whole(c))

\* The units that the first k messages of an http connection took.
Taken(c, k) ==
  LET taken[i \in 0 .. k] == IF i = 0 THEN 0 ELSE taken[i - 1] + Got(c)[i].n
  IN taken[k]

Bodies(s) == Len(Chosen(s, [kind : {"body"}, part : Nat, n : Nat]))

\* An http message that is delivered is made of pieces that came, each in one
\* message at most.  Where nothing was parsed twice it is whole: it ends with the
\* message's last piece, a body of the limit, or the stream, and nothing of what
\* follows is in it (current_offset and its resets against the read buffers,
\* over the loops of jetnet_http_handle_*_recv).
Framed ==
  \A id \in DOMAIN conn : LET c == conn[id] IN c.proto = "http" =>
    \A k \in DOMAIN Got(c) :
      LET to == Taken(c, k)
          message == SubSeq(c.came, Taken(c, k - 1) + 1, to)
      IN /\ to <= Len(c.came) /\ message # <<>>
         /\ c.pr.twice \/
              /\ \A i \in 1 .. Len(message) - 1 : message[i].kind # "end"
              /\ \/ message[Len(message)].kind = "end"
                 \/ Bodies(message) >= MaxBody
                 \/ c.st = "CLOSE" /\ k = Len(Got(c))

\* "succeed,has get an message" (jetnet_http.c:315): a message that came whole
\* and without an error is delivered, if its fields have room.
MessageTold ==
  \A id \in DOMAIN conn : LET c == conn[id] IN
    /\ c.proto = "http" /\ ~c.pr.full /\ ~c.bye
    /\ \E u \in ToSet(c.came) : u.kind = "end"
    /\ \A u \in ToSet(c.came) : u.kind # "bad"
    => Got(c) # <<>>

\* A tcppkg connection is not used, nor told of as open, before its peer's half
\* of the validation has come: a server's VALID_REQ, a client's VALID_ACK.
Validated ==
  \A id \in DOMAIN conn : LET c == conn[id] IN
    c.proto = "tcppkg" /\ (c.st = "TRANS" \/ \E m \in ToSet(c.told) :
                             m.t \in {"CONNECT", "ACCEPT", "RECV"})
    => /\ Len(c.came) >= 2
       /\ c.came[2].kind = IF c.role = "server" THEN "req" ELSE "ack"

Owned(s) == Chosen(s, Nat \ {0})

\* When a tcpsac or tcppkg connection breaks, its owner is told of every package
\* it gave an owner that did not go out, in order, before the close, whatever
\* ended the connection and in whichever state (jetnet_*_notify_unreachable is
\* not called on every path that closes).
Accounted ==
  \A id \in DOMAIN conn : LET c == conn[id] IN
    c.proto # "http" /\ c.st = "CLOSE" /\ ~c.bye =>
      Numbers(Told(c, "UNREACH")) = Owned(c.wbl)

\* link_list and respone_link_list hold no connection that was closed, whose
\* protocol data is freed: jetnet_http_close and the handlers close without
\* taking the data out of its list.
NoFreedLink == \A id \in DOMAIN conn : conn[id].linked => conn[id].up

Phase(c) ==
  CASE c.st = "LISTEN" -> "listening"
    [] c.st \in {"CONNECTING", "VALIDING"} -> "asked"
    [] c.st = "CONNECTED" -> "offered"
    [] c.st = "TRANS" -> "open"
    [] c.st = "CLOSE" -> "over"

S == INSTANCE Session WITH
       phase <- [id \in DOMAIN conn |-> Phase(conn[id])],
       log <- [id \in DOMAIN conn |-> conn[id].told],
       hung <- {id \in DOMAIN conn : conn[id].bye},
       quiet <- {id \in DOMAIN conn : Is(id, "http")}

\* What the owner of a connection is told is a session: an open or a failure
\* first, one close at most and last, the unreachable packages before it, and
\* nothing behind its own jetnet_net_close, whatever the network does.
SessionSpec == S!SafeSpec

\* "the max time for client to valid" (jetnet_tcppkg.c:23-24): a client that does
\* not send its VALID_REQ does not keep its connection.
ValidInTime ==
  \A id \in 0 .. MaxConn - 1 :
    (id \in DOMAIN conn /\ conn[id].st = "CONNECTED")
      ~> (id \in DOMAIN conn /\ conn[id].st # "CONNECTED")
=============================================================================
