------------------------------- MODULE Huber --------------------------------
(***************************************************************************)
(* The hub's entity (service/huber.c): it keeps one tcpsac connection to   *)
(* every machine that its cells post to, and makes a lost one again when a *)
(* timer rings.  The network service and the timers are their interfaces   *)
(* here: a connection is asked for, up or gone, and what befalls it is     *)
(* told by a message that waits in the entity's queue.  What comes over a  *)
(* connection is posted on, which module Cells models (PassOn).            *)
(***************************************************************************)
EXTENDS Naturals, Sequences, FiniteSets

CONSTANTS
  Peer,         \* the hubs of other machines, by the address they listen on
  Caller,       \* addresses that connections come from
  MaxId,        \* bound: connections ever made
  MaxAsk        \* bound: messages for each peer

ASSUME HuberAssumption ==
  /\ Peer \cap Caller = {}
  /\ MaxId \in Nat /\ MaxAsk \in Nat

\* The enumerations of huber.c: both are kept in fields of type int.
DISCONNECTED == 0
CONNECTING == 1
CONNECTED == 2
HEALTH_OK == 0
HEALTH_UNKNOW == 1
HEALTH_FAIL == 2

VARIABLES
  stage,        \* up, ended, or crashed in the destruction of the entity
  listening,    \* listen_sock_id names a socket
  conn,         \* the connections ever made: the other end, and its state
  inbox,        \* messages of the network service for the entity
  rec,          \* the huber_socket_t of each peer that has one
  sidMap,       \* the peers whose huber_socket_t is in sid_map
  peerMap,      \* the addresses in peer_map
  timer,        \* the peers whose reconnect timer is set
  recent,       \* the peers asked for within HUBER_STOP_RECONN_TIME
  torn,         \* history: rb_erase was called on a node outside the tree
  asked,        \* history: messages to send to each peer
  sent          \* history: those a connection that is up was given

net == <<conn, inbox>>
maps == <<rec, sidMap, peerMap>>
vars == <<stage, listening, conn, inbox, rec, sidMap, peerMap, timer, recent,
          torn, asked, sent>>

\* huber_init; when the listen fails the module is not there at all.
Init ==
  /\ stage = "up" /\ listening = TRUE
  /\ conn = <<>> /\ inbox = <<>>
  /\ rec = [p \in {} |-> 0] /\ sidMap = {} /\ peerMap = {}
  /\ timer = {} /\ recent = {} /\ torn = FALSE
  /\ asked = [p \in Peer |-> 0] /\ sent = [p \in Peer |-> 0]

Known == DOMAIN rec
Open(id) == conn[id].st # "gone"
Shut(id) == [conn EXCEPT ![id].st = "gone"]

\* huber_find_by_sid, as a set of at most one.
FindBySid(id) == {p \in sidMap : rec[p].id = id}

\* huber_insert_by_peer; huber_find_by_peer finds what is in peerMap, and for a
\* peer that is a known one.
EnterPeer(a) == peerMap' = peerMap \cup {a}

\* What net_connect and is_connected say: a connection, made at once or not.
NewConn(p, st) == Append(conn, [peer |-> p, st |-> st])
NewId == Len(conn) + 1
CanConnect == Len(conn) < MaxId

-----------------------------------------------------------------------------
(* The handlers.                                                           *)

\* rb_erase of a node that is in no tree follows what is left of its links:
\* any entries may fall out of the tree or come back into it.
Erase(p) ==
  IF p \in sidMap THEN sidMap' = sidMap \ {p} /\ UNCHANGED torn
                  ELSE sidMap' \in SUBSET Known /\ torn' = TRUE

\* huber_hanclle_socket_fail, whose socket is closed already, and whose timer
\* rings once.
SocketFail(p) ==
  /\ Erase(p)
  /\ rec' = [rec EXCEPT ![p].state = DISCONNECTED, ![p].health = HEALTH_FAIL]
  /\ timer' = IF p \in recent THEN timer \cup {p} ELSE timer \ {p}

Healthy(r) == [r EXCEPT !.state = CONNECTED, !.health = HEALTH_OK]

HandleConn(note) ==
  IF FindBySid(note.id) = {}
  THEN conn' = Shut(note.id) /\ UNCHANGED <<rec, sidMap, timer, torn>>
  ELSE \E p \in FindBySid(note.id) :
         \/ /\ note.ok
            /\ rec' = [rec EXCEPT ![p] = Healthy(@)]
            /\ UNCHANGED <<conn, sidMap, timer, torn>>
         \/ ~note.ok /\ conn' = Shut(note.id) /\ SocketFail(p)

\* An accepted socket is entered by its address only; a second one of the same
\* address is not entered.
HandleAccept(note) ==
  /\ EnterPeer(conn[note.id].peer)
  /\ UNCHANGED <<conn, rec, sidMap, timer, torn>>

HandleClose(note) ==
  /\ conn' = Shut(note.id)
  /\ IF FindBySid(note.id) = {} THEN UNCHANGED <<rec, sidMap, timer, torn>>
     ELSE \E p \in FindBySid(note.id) : SocketFail(p)

\* The close of the listener: it is made again, which may fail.
HandleUnlisten ==
  /\ listening' \in BOOLEAN
  /\ UNCHANGED <<conn, maps, timer, torn>>

\* The entity gets the next message of the network service.
Handle ==
  /\ stage = "up" /\ inbox # <<>>
  /\ inbox' = Tail(inbox)
  /\ LET note == Head(inbox) IN
     \/ note.t = "CONNECT" /\ HandleConn(note) /\ UNCHANGED <<peerMap, listening>>
     \/ note.t = "ACCEPT" /\ HandleAccept(note) /\ UNCHANGED listening
     \/ note.t = "CLOSE" /\ HandleClose(note) /\ UNCHANGED <<peerMap, listening>>
     \/ note.t = "UNLISTEN" /\ HandleUnlisten
  /\ UNCHANGED <<stage, recent, asked, sent>>

\* Mutant of Rung: the timer repeats, as with repeat = 0.
Rung_Repeats(p) == timer

\* The reconnect timer of p rings and is gone.
Rung(p) == timer \ {p}

\* Mutant of Reentered: huber_insert_by_sid forgotten.
Reentered_Not(p) == sidMap

Reentered(p) == sidMap \cup {p}

\* huber_reconnect_timer_cb.
Reconnect(p) ==
  /\ stage = "up" /\ p \in timer /\ CanConnect
  /\ \E st \in {"asked", "up"} :
       /\ conn' = NewConn(p, st)
       /\ rec' = [rec EXCEPT ![p] =
            LET r == [@ EXCEPT !.id = NewId] IN IF st = "up" THEN Healthy(r) ELSE r]
  /\ sidMap' = Reentered(p)
  /\ timer' = Rung(p)
  /\ UNCHANGED <<stage, listening, inbox, peerMap, recent, torn, asked, sent>>

\* The same when net_connect fails at once.
ReconnectFails(p) ==
  /\ stage = "up" /\ p \in timer
  /\ SocketFail(p)
  /\ UNCHANGED <<stage, listening, net, peerMap, recent, asked, sent>>

\* huber_handle_send_msg's test of hs->state, and what net_send does then: a
\* connection that is not up takes nothing.
GivesUp(r) == r.state = HEALTH_FAIL
Sends(r) == ~GivesUp(r) /\ conn[r.id].st = "up"

Count(f, p, yes) == IF yes THEN [f EXCEPT ![p] = @ + 1] ELSE f

\* huber_handle_send_msg for a peer that has a huber_socket_t.
SendMsg(p) ==
  /\ stage = "up" /\ p \in Known /\ asked[p] < MaxAsk
  /\ asked' = Count(asked, p, TRUE)
  /\ recent' = recent \cup {p}
  /\ sent' = Count(sent, p, Sends(rec[p]))
  /\ UNCHANGED <<stage, listening, net, maps, timer, torn>>

\* And for one that has none: a connection is made, or the message given up.
\* The state is CONNECTED or the connection is not up: nothing is sent.
SendFirst(p) ==
  /\ stage = "up" /\ p \notin Known /\ asked[p] < MaxAsk
  /\ asked' = Count(asked, p, TRUE)
  /\ \/ UNCHANGED <<conn, rec, sidMap, peerMap, recent>>
     \/ /\ CanConnect
        /\ \E st \in {"asked", "up"} :
             /\ conn' = NewConn(p, st)
             /\ LET r == [id |-> NewId, state |-> CONNECTING, health |-> HEALTH_UNKNOW]
                IN rec' = [q \in Known \cup {p} |->
                             IF q # p THEN rec[q]
                             ELSE IF st = "up" THEN Healthy(r) ELSE r]
        /\ sidMap' = sidMap \cup {p}
        /\ EnterPeer(p)
        /\ recent' = recent \cup {p}
  /\ UNCHANGED <<stage, listening, inbox, timer, torn, sent>>

\* huber_udfree_func_t, when the entity is destroyed: what is in sid_map is
\* closed and freed; for anything left in peer_map the second walk computes the
\* address of a huber_socket_t from the wrong node, and frees that.
Destroy ==
  /\ stage = "up"
  /\ conn' = [i \in DOMAIN conn |->
       IF \E p \in sidMap : rec[p].id = i THEN Shut(i)[i] ELSE conn[i]]
  /\ timer' = timer \ sidMap
  /\ stage' = IF peerMap \subseteq sidMap THEN "ended" ELSE "crashed"
  /\ listening' = (listening /\ stage' = "crashed")
  /\ UNCHANGED <<inbox, maps, recent, torn, asked, sent>>

-----------------------------------------------------------------------------
(* The network service and the clock.                                      *)

Tells(note) ==
  /\ stage = "up"
  /\ inbox' = Append(inbox, note)
  /\ UNCHANGED <<stage, maps, timer, recent, torn, asked, sent>>

Succeeds(id) ==
  /\ conn[id].st = "asked"
  /\ conn' = [conn EXCEPT ![id].st = "up"]
  /\ UNCHANGED listening
  /\ Tells([t |-> "CONNECT", id |-> id, ok |-> TRUE])

Refused(id) ==
  /\ conn[id].st = "asked" /\ conn' = Shut(id) /\ UNCHANGED listening
  /\ Tells([t |-> "CONNECT", id |-> id, ok |-> FALSE])

Breaks(id) ==
  /\ conn[id].st = "up" /\ conn' = Shut(id) /\ UNCHANGED listening
  /\ Tells([t |-> "CLOSE", id |-> id])

Comes(a) ==
  /\ listening /\ CanConnect
  /\ conn' = NewConn(a, "up") /\ UNCHANGED listening
  /\ Tells([t |-> "ACCEPT", id |-> NewId])

ListenerBreaks ==
  /\ listening /\ listening' = FALSE
  /\ UNCHANGED conn
  /\ Tells([t |-> "UNLISTEN", id |-> 0])

\* HUBER_STOP_RECONN_TIME passes since the last message for p.
Quiet(p) ==
  /\ p \in recent /\ recent' = recent \ {p}
  /\ UNCHANGED <<stage, listening, net, maps, timer, torn, asked, sent>>

Next ==
  \/ Handle \/ Destroy \/ ListenerBreaks
  \/ \E p \in Peer :
       Reconnect(p) \/ ReconnectFails(p) \/ SendMsg(p) \/ SendFirst(p) \/ Quiet(p)
  \/ \E id \in DOMAIN conn : Succeeds(id) \/ Refused(id) \/ Breaks(id)
  \/ \E a \in Caller : Comes(a)

Spec == Init /\ [][Next]_vars

-----------------------------------------------------------------------------
Links(p) == {id \in DOMAIN conn : conn[id].peer = p /\ Open(id)}
Awaited(id) == \E i \in DOMAIN inbox : inbox[i].id = id

\* However connects, failures, closes, timers and messages interleave, a peer has
\* never more than one connection under way, and none while its reconnect timer
\* is set: the hub does not connect twice (huber_handle_send_msg, line 276, and
\* huber_hanclle_socket_fail, line 168, are the only places that start one).
OneLink ==
  \A p \in Peer : Cardinality(Links(p)) + Cardinality(timer \cap {p}) <= 1

\* As long as rb_erase was given only nodes in the tree, the hub knows each of
\* its connections: what is or will be told of it finds its peer, and a peer
\* whose connection is over waits for its timer or was left alone for a minute
\* when it ended.
Tracked ==
  stage = "up" /\ ~torn =>
    /\ \A p \in Peer : \A id \in DOMAIN conn :
         conn[id].peer = p /\ (Open(id) \/ Awaited(id)) => FindBySid(id) = {p}
    /\ \A p \in Known :
         p \notin sidMap <=> Links(p) = {} /\ ~Awaited(rec[p].id)
    /\ timer \subseteq Known \ sidMap

\* A message for a peer whose connection is up, and known to be healthy, is given
\* to the connection: huber.c tells "the socket connection state" (line 42) from
\* "the socket health state" (line 43), and gives up a message on HUBER_HEALTH_FAIL.
HealthySends ==
  [][\A p \in Known :
       asked'[p] # asked[p] /\ rec[p].health = HEALTH_OK /\ conn[rec[p].id].st = "up"
         => sent'[p] = sent[p] + 1]_vars
=============================================================================
