----------------------------- MODULE HuberProofs -----------------------------
(***************************************************************************)
(* Proofs about module Huber, for any peers, callers and numbers of        *)
(* connections and messages: the hub never connects to a peer twice,       *)
(* whatever rb_erase does to its trees, and loses sight of no connection   *)
(* as long as rb_erase is given only what is in them.                      *)
(***************************************************************************)
EXTENDS Huber, FiniteSetTheorems, SequenceTheorems, TLAPS

\* The invariant of OneLink needs nothing of the trees.  A connection to a peer
\* that is not gone is the one whose id its huber_socket_t has; and while the
\* timer of a peer is set, there is none.
Conns == [peer : Peer \cup Caller, st : {"asked", "up", "gone"}]

ConnTypes ==
  /\ conn \in Seq(Conns)
  /\ Known \subseteq Peer /\ timer \subseteq Known /\ sidMap \subseteq Known

OnlyItsOwn ==
  /\ \A id \in DOMAIN conn :
       conn[id].peer \in Peer /\ Open(id)
         => /\ conn[id].peer \in Known /\ rec[conn[id].peer].id = id
            /\ conn[id].peer \notin timer

LinkInv == ConnTypes /\ OnlyItsOwn

\* No connection yet.
LEMMA LinkInit == Init => LinkInv
  BY DEF Init, LinkInv, ConnTypes, OnlyItsOwn, Known

\* A connection that is shut stays in its place, gone; the others are as before.
LEMMA ShutIs ==
  ASSUME conn \in Seq(Conns), NEW id
  PROVE  /\ Shut(id) \in Seq(Conns) /\ DOMAIN Shut(id) = DOMAIN conn
         /\ \A i \in DOMAIN conn : Shut(id)[i].peer = conn[i].peer
         /\ \A i \in DOMAIN conn : i # id => Shut(id)[i] = conn[i]
         /\ id \in DOMAIN conn => Shut(id)[id].st = "gone"
<1>1. conn \in [1 .. Len(conn) -> Conns] /\ Len(conn) \in Nat
      /\ DOMAIN conn = 1 .. Len(conn)
  OBVIOUS
<1>2. ASSUME NEW i \in 1 .. Len(conn)
      PROVE  [conn[i] EXCEPT !.st = "gone"] \in Conns
  BY <1>1 DEF Conns
<1>3. Shut(id) \in [1 .. Len(conn) -> Conns]
  BY <1>1, <1>2 DEF Shut
<1>4. Shut(id) \in Seq(Conns)
  BY <1>1, <1>3
<1>5. ASSUME NEW i \in DOMAIN conn
      PROVE  /\ Shut(id)[i].peer = conn[i].peer
             /\ i # id => Shut(id)[i] = conn[i]
             /\ i = id => Shut(id)[i].st = "gone"
  <2>1. conn[i] \in Conns
    BY <1>1
  <2>2. CASE i = id
    BY <2>1, <2>2 DEF Shut, Conns
  <2>3. CASE i # id
    BY <2>3 DEF Shut
  <2>4. QED
    BY <2>2, <2>3
<1>6. QED
  BY <1>1, <1>3, <1>4, <1>5

\* A connection that is made comes behind the others.
LEMMA NewIs ==
  ASSUME conn \in Seq(Conns), NEW a \in Peer \cup Caller, NEW st \in {"asked", "up"}
  PROVE  /\ NewConn(a, st) \in Seq(Conns)
         /\ NewId \notin DOMAIN conn
         /\ DOMAIN NewConn(a, st) = DOMAIN conn \cup {NewId}
         /\ \A i \in DOMAIN conn : NewConn(a, st)[i] = conn[i]
         /\ NewConn(a, st)[NewId] = [peer |-> a, st |-> st]
<1>1. [peer |-> a, st |-> st] \in Conns
  BY DEF Conns
<1>2. QED
  BY <1>1 DEF NewConn, NewId

\* The steps that close some connections and set no timer.
LEMMA Closed ==
  ASSUME LinkInv, conn' \in Seq(Conns), DOMAIN conn' = DOMAIN conn,
         \A i \in DOMAIN conn : /\ conn'[i].peer = conn[i].peer
                                /\ conn[i].st = "gone" => conn'[i].st = "gone",
         DOMAIN rec' = Known, \A p \in Known : rec'[p].id = rec[p].id,
         timer' \subseteq timer, sidMap' \subseteq Known
  PROVE  LinkInv'
  BY DEF LinkInv, ConnTypes, OnlyItsOwn, Open, Known

\* The failure of the socket of p, whose connection is shut, may set its timer.
LEMMA Failed ==
  ASSUME LinkInv, NEW p \in Known, SocketFail(p), conn' = Shut(rec[p].id)
  PROVE  LinkInv'
<1> DEFINE id == rec[p].id
<1>1. /\ conn' \in Seq(Conns) /\ DOMAIN conn' = DOMAIN conn
      /\ \A i \in DOMAIN conn : conn'[i].peer = conn[i].peer
      /\ \A i \in DOMAIN conn : i # id => conn'[i] = conn[i]
      /\ id \in DOMAIN conn => conn'[id].st = "gone"
  BY ShutIs DEF LinkInv, ConnTypes
<1>2. /\ DOMAIN rec' = Known /\ \A q \in Known : rec'[q].id = rec[q].id
      /\ timer' \subseteq timer \cup {p} /\ sidMap' \subseteq Known
  BY DEF LinkInv, ConnTypes, SocketFail, Erase, Known
<1>3. \A i \in DOMAIN conn : conn[i].peer = p /\ Open(i) => i = id
  BY DEF LinkInv, ConnTypes, OnlyItsOwn
<1>4. ConnTypes'
  BY <1>1, <1>2 DEF LinkInv, ConnTypes, Known
<1>5. OnlyItsOwn'
  <2> SUFFICES ASSUME NEW i \in DOMAIN conn', conn'[i].peer \in Peer, conn'[i].st # "gone"
               PROVE  /\ conn'[i].peer \in Known' /\ rec'[conn'[i].peer].id = i
                      /\ conn'[i].peer \notin timer'
    BY DEF OnlyItsOwn, Open
  <2>1. i \in DOMAIN conn /\ i # id /\ conn'[i] = conn[i]
    BY <1>1
  <2>2. /\ conn[i].peer \in Known /\ rec[conn[i].peer].id = i /\ conn[i].peer \notin timer
    BY <2>1 DEF LinkInv, OnlyItsOwn, Open
  <2>3. conn[i].peer # p
    BY <2>1, <2>2
  <2>4. QED
    BY <1>2, <2>1, <2>2, <2>3 DEF Known
<1>6. QED
  BY <1>4, <1>5 DEF LinkInv

\* The connection that is made for p, when its timer rang or it had none.
LEMMA Made ==
  ASSUME LinkInv, NEW p \in Peer, NEW st \in {"asked", "up"}, conn' = NewConn(p, st),
         p \in timer \/ p \notin Known, timer' = timer \ {p},
         DOMAIN rec' = Known \cup {p}, rec'[p].id = NewId,
         \A q \in Known : q # p => rec'[q] = rec[q],
         sidMap' = sidMap \cup {p}
  PROVE  LinkInv'
<1>1. /\ conn' \in Seq(Conns) /\ NewId \notin DOMAIN conn
      /\ DOMAIN conn' = DOMAIN conn \cup {NewId}
      /\ \A i \in DOMAIN conn : conn'[i] = conn[i]
      /\ conn'[NewId] = [peer |-> p, st |-> st]
  BY NewIs DEF LinkInv, ConnTypes
<1>2. ConnTypes'
  BY <1>1 DEF LinkInv, ConnTypes, Known
<1>3. ASSUME NEW i \in DOMAIN conn', conn'[i].peer \in Peer, conn'[i].st # "gone"
      PROVE  /\ conn'[i].peer \in Known' /\ rec'[conn'[i].peer].id = i
             /\ conn'[i].peer \notin timer'
  <2>1. CASE i = NewId
    BY <1>1, <2>1 DEF Known
  <2>2. CASE i # NewId
    <3>1. i \in DOMAIN conn /\ conn'[i] = conn[i]
      BY <1>1, <2>2
    <3>2. /\ conn[i].peer \in Known /\ rec[conn[i].peer].id = i
          /\ conn[i].peer \notin timer
      BY <1>3, <3>1 DEF LinkInv, OnlyItsOwn, Open
    <3>3. conn[i].peer # p
      BY <3>2
    <3>4. QED
      BY <3>1, <3>2, <3>3 DEF Known
  <2>3. QED
    BY <2>1, <2>2
<1>4. OnlyItsOwn'
  BY <1>3 DEF OnlyItsOwn, Open
<1>5. QED
  BY <1>2, <1>4 DEF LinkInv

\* Every step keeps it.
LEMMA LinkNext == LinkInv /\ [Next]_vars => LinkInv'
<1> SUFFICES ASSUME LinkInv, [Next]_vars PROVE LinkInv'
  OBVIOUS
<1>c. conn \in Seq(Conns) /\ Known \subseteq Peer /\ timer \subseteq Known /\ sidMap \subseteq Known
  BY DEF LinkInv, ConnTypes
\* Shut is a case of Closed.
<1>s. ASSUME NEW id, conn' = Shut(id), DOMAIN rec' = Known,
             \A p \in Known : rec'[p].id = rec[p].id, timer' \subseteq timer,
             UNCHANGED sidMap
      PROVE  LinkInv'
  <2>1. /\ conn' \in Seq(Conns) /\ DOMAIN conn' = DOMAIN conn
        /\ \A i \in DOMAIN conn : /\ conn'[i].peer = conn[i].peer
                                  /\ conn[i].st = "gone" => conn'[i].st = "gone"
    BY <1>c, <1>s, ShutIs
  <2>2. QED
    BY <1>c, <1>s, <2>1, Closed
<1>u. ASSUME UNCHANGED <<conn, timer, sidMap>>, DOMAIN rec' = Known,
             \A p \in Known : rec'[p].id = rec[p].id
      PROVE  LinkInv'
  BY <1>c, <1>u, Closed
<1>1. CASE Handle
  <2> DEFINE note == Head(inbox)
  <2>1. CASE HandleConn(note)
    <3>1. CASE FindBySid(note.id) = {}
      BY <1>s, <2>1, <3>1 DEF HandleConn, Known
    <3>2. CASE FindBySid(note.id) # {}
      <4>1. PICK p \in FindBySid(note.id) :
              \/ /\ note.ok
                 /\ rec' = [rec EXCEPT ![p] = Healthy(@)]
                 /\ UNCHANGED <<conn, sidMap, timer, torn>>
              \/ ~note.ok /\ conn' = Shut(note.id) /\ SocketFail(p)
        BY <2>1, <3>2 DEF HandleConn
      <4>2. CASE rec' = [rec EXCEPT ![p] = Healthy(@)] /\ UNCHANGED <<conn, timer, sidMap>>
        <5>1. DOMAIN rec' = Known /\ \A q \in Known : rec'[q].id = rec[q].id
          BY <4>2 DEF Known, Healthy
        <5>2. QED
          BY <1>u, <4>2, <5>1
      <4>3. CASE conn' = Shut(note.id) /\ SocketFail(p)
        <5>1. rec[p].id = note.id
          BY DEF FindBySid
        <5>2. p \in Known
          BY <1>c DEF FindBySid
        <5>3. QED
          BY <4>3, <5>1, <5>2, Failed
      <4>4. QED
        BY <4>1, <4>2, <4>3
    <3>3. QED
      BY <3>1, <3>2
  <2>2. CASE HandleAccept(note) \/ HandleUnlisten
    BY <1>u, <2>2 DEF HandleAccept, HandleUnlisten, maps, Known
  <2>3. CASE HandleClose(note)
    <3>1. CASE FindBySid(note.id) = {}
      BY <1>s, <2>3, <3>1 DEF HandleClose, Known
    <3>2. CASE FindBySid(note.id) # {}
      <4>1. PICK p \in FindBySid(note.id) : conn' = Shut(note.id) /\ SocketFail(p)
        BY <2>3, <3>2 DEF HandleClose
      <4>2. rec[p].id = note.id /\ p \in Known
        BY <1>c DEF FindBySid
      <4>3. QED
        BY <4>1, <4>2, Failed
    <3>3. QED
      BY <3>1, <3>2
  <2>4. QED
    BY <1>1, <2>1, <2>2, <2>3 DEF Handle
<1>2. CASE Destroy
  <2>1. /\ conn' \in Seq(Conns) /\ DOMAIN conn' = DOMAIN conn
        /\ \A i \in DOMAIN conn : /\ conn'[i].peer = conn[i].peer
                                  /\ conn[i].st = "gone" => conn'[i].st = "gone"
    <3>1. conn' = [i \in DOMAIN conn |->
            IF \E p \in sidMap : rec[p].id = i THEN Shut(i)[i] ELSE conn[i]]
      BY <1>2 DEF Destroy
    <3>2. conn \in [1 .. Len(conn) -> Conns] /\ Len(conn) \in Nat
          /\ DOMAIN conn = 1 .. Len(conn)
      BY <1>c
    <3>3. ASSUME NEW i \in 1 .. Len(conn)
          PROVE  /\ Shut(i)[i] \in Conns /\ Shut(i)[i].peer = conn[i].peer
                 /\ Shut(i)[i].st = "gone"
      <4>1. /\ Shut(i) \in Seq(Conns) /\ DOMAIN Shut(i) = DOMAIN conn
            /\ Shut(i)[i].peer = conn[i].peer /\ Shut(i)[i].st = "gone"
        BY <1>c, <3>2, ShutIs
      <4>2. Shut(i)[i] \in Conns
        BY <3>2, <4>1
      <4>3. QED
        BY <4>1, <4>2
    <3>4. conn' \in [1 .. Len(conn) -> Conns]
      BY <3>1, <3>2, <3>3
    <3>5. conn' \in Seq(Conns)
      BY <3>2, <3>4
    <3>6. QED
      BY <3>1, <3>2, <3>3, <3>5
  <2>2. UNCHANGED <<rec, sidMap>> /\ timer' \subseteq timer
    BY <1>2 DEF Destroy, maps
  <2>3. QED
    BY <1>c, <2>1, <2>2, Closed DEF Known
<1>3. CASE ListenerBreaks
  BY <1>u, <1>3 DEF ListenerBreaks, Tells, maps, Known
<1>4. ASSUME NEW p \in Peer, Reconnect(p)
      PROVE  LinkInv'
  <2>1. PICK st \in {"asked", "up"} :
          /\ conn' = NewConn(p, st)
          /\ rec' = [rec EXCEPT ![p] =
               LET r == [@ EXCEPT !.id = NewId] IN IF st = "up" THEN Healthy(r) ELSE r]
    BY <1>4 DEF Reconnect
  <2>2. p \in timer /\ timer' = timer \ {p} /\ sidMap' = sidMap \cup {p} /\ p \in Known
    BY <1>c, <1>4 DEF Reconnect, Rung, Reentered
  <2>3. /\ DOMAIN rec' = Known \cup {p} /\ rec'[p].id = NewId
        /\ \A q \in Known : q # p => rec'[q] = rec[q]
    BY <2>1, <2>2 DEF Known, Healthy
  <2>4. QED
    BY <2>1, <2>2, <2>3, Made
<1>5. ASSUME NEW p \in Peer, ReconnectFails(p)
      PROVE  LinkInv'
  <2>1. p \in timer /\ p \in Known /\ SocketFail(p) /\ conn' = conn
    BY <1>c, <1>5 DEF ReconnectFails, net
  <2>2. /\ DOMAIN rec' = Known /\ \A q \in Known : rec'[q].id = rec[q].id
        /\ timer' \subseteq timer /\ sidMap' \subseteq Known
    BY <1>c, <2>1 DEF SocketFail, Erase, Known
  <2>3. QED
    BY <1>c, <2>1, <2>2, Closed
<1>6. ASSUME NEW p \in Peer, SendMsg(p) \/ Quiet(p)
      PROVE  LinkInv'
  BY <1>u, <1>6 DEF SendMsg, Quiet, net, maps, Known
<1>7. ASSUME NEW p \in Peer, SendFirst(p)
      PROVE  LinkInv'
  <2>1. p \notin Known /\ timer' = timer
    BY <1>7 DEF SendFirst
  <2>2. CASE UNCHANGED <<conn, rec, sidMap>>
    BY <1>u, <2>1, <2>2 DEF Known
  <2>3. CASE ~UNCHANGED <<conn, rec, sidMap>>
    <3>1. sidMap' = sidMap \cup {p}
      BY <1>7, <2>3 DEF SendFirst
    <3>2. PICK st \in {"asked", "up"} :
            /\ conn' = NewConn(p, st)
            /\ LET r == [id |-> NewId, state |-> CONNECTING, health |-> HEALTH_UNKNOW]
               IN rec' = [q \in Known \cup {p} |->
                            IF q # p THEN rec[q]
                            ELSE IF st = "up" THEN Healthy(r) ELSE r]
      BY <1>7, <2>3 DEF SendFirst
    <3>3. /\ DOMAIN rec' = Known \cup {p} /\ rec'[p].id = NewId
          /\ \A q \in Known : q # p => rec'[q] = rec[q]
      BY <3>2 DEF Healthy
    <3>4. timer' = timer \ {p}
      BY <1>c, <2>1
    <3>5. QED
      BY <2>1, <3>1, <3>2, <3>3, <3>4, Made
  <2>4. QED
    BY <2>2, <2>3
<1>8. ASSUME NEW id \in DOMAIN conn, Refused(id) \/ Breaks(id)
      PROVE  LinkInv'
  BY <1>s, <1>8 DEF Refused, Breaks, Tells, maps, Known
<1>9. ASSUME NEW id \in DOMAIN conn, Succeeds(id)
      PROVE  LinkInv'
  <2>1. /\ conn[id].st = "asked" /\ conn' = [conn EXCEPT ![id].st = "up"]
        /\ UNCHANGED <<rec, sidMap, timer>>
    BY <1>9 DEF Succeeds, Tells, maps
  <2>2. conn \in [1 .. Len(conn) -> Conns] /\ Len(conn) \in Nat
        /\ DOMAIN conn = 1 .. Len(conn)
    BY <1>c
  <2>3. [conn[id] EXCEPT !.st = "up"] \in Conns
    BY <2>2 DEF Conns
  <2>4. conn' \in [1 .. Len(conn) -> Conns]
    BY <2>1, <2>2, <2>3
  <2>5. conn' \in Seq(Conns)
    BY <2>2, <2>4
  <2>6. \A i \in DOMAIN conn : /\ conn'[i].peer = conn[i].peer
                               /\ conn[i].st = "gone" => conn'[i].st = "gone"
    <3>1. \A i \in DOMAIN conn : conn[i] \in Conns
      BY <2>2
    <3>2. QED
      BY <2>1, <3>1 DEF Conns
  <2>7. QED
    BY <1>c, <2>1, <2>2, <2>4, <2>5, <2>6, Closed DEF Known
<1>10. ASSUME NEW a \in Caller, Comes(a)
       PROVE  LinkInv'
  <2>1. /\ conn' = NewConn(a, "up") /\ UNCHANGED <<rec, sidMap, timer>>
    BY <1>10 DEF Comes, Tells, maps
  <2>2. /\ conn' \in Seq(Conns) /\ NewId \notin DOMAIN conn
        /\ DOMAIN conn' = DOMAIN conn \cup {NewId}
        /\ \A i \in DOMAIN conn : conn'[i] = conn[i]
        /\ conn'[NewId] = [peer |-> a, st |-> "up"]
    BY <1>c, <2>1, NewIs
  <2>3. a \notin Peer
    BY HuberAssumption
  <2>4. ConnTypes'
    BY <1>c, <2>1, <2>2 DEF ConnTypes, Known
  <2>5. OnlyItsOwn'
    BY <2>1, <2>2, <2>3 DEF LinkInv, OnlyItsOwn, Open, Known
  <2>6. QED
    BY <2>4, <2>5 DEF LinkInv
<1>11. CASE UNCHANGED vars
  BY <1>u, <1>11 DEF vars, Known
<1>12. QED
  BY <1>1, <1>2, <1>3, <1>4, <1>5, <1>6, <1>7, <1>8, <1>9, <1>10, <1>11 DEF Next

\* With at most one id a peer, at most one connection.
LEMMA AtMostOne ==
  ASSUME LinkInv
  PROVE  OneLink
<1> SUFFICES ASSUME NEW p \in Peer
             PROVE  Cardinality(Links(p)) + Cardinality(timer \cap {p}) <= 1
  BY DEF OneLink
<1>1. /\ Cardinality({}) = 0
      /\ \A x : Cardinality({x}) = 1
  BY FS_EmptySet, FS_Singleton
<1>2. \A id \in Links(p) : id = rec[p].id /\ p \notin timer
  BY DEF LinkInv, OnlyItsOwn, Links
<1>a. /\ Links(p) = {} => Cardinality(Links(p)) = 0
      /\ \A x : Links(p) = {x} => Cardinality(Links(p)) = 1
  BY <1>1
<1>b. /\ timer \cap {p} = {} => Cardinality(timer \cap {p}) = 0
      /\ timer \cap {p} = {p} => Cardinality(timer \cap {p}) = 1
  BY <1>1
<1> DEFINE L == Cardinality(Links(p))
           T == Cardinality(timer \cap {p})
<1>3. CASE Links(p) = {}
  <2>1. timer \cap {p} = {} \/ timer \cap {p} = {p}
    OBVIOUS
  <2>2. L = 0 /\ (T = 0 \/ T = 1)
    BY <1>a, <1>b, <1>3, <2>1
  <2> HIDE DEF L, T
  <2>3. L + T <= 1
    BY <2>2
  <2>4. QED
    BY <2>3 DEF L, T
<1>4. CASE Links(p) # {}
  <2>1. Links(p) = {rec[p].id} /\ timer \cap {p} = {}
    BY <1>2, <1>4
  <2>2. L = 1 /\ T = 0
    BY <1>a, <1>b, <2>1
  <2> HIDE DEF L, T
  <2>3. L + T <= 1
    BY <2>2
  <2>4. QED
    BY <2>3 DEF L, T
<1>5. QED
  BY <1>3, <1>4

\* The hub never has two connections to a peer, nor one while its reconnect timer
\* is set (huber_handle_send_msg and huber_hanclle_socket_fail).
THEOREM NeverTwice == Spec => []OneLink
<1>1. QED
  BY LinkInit, LinkNext, AtMostOne, PTL DEF Spec

-----------------------------------------------------------------------------
(* The invariant of Tracked, which holds as long as rb_erase was given only *)
(* nodes in the tree.                                                       *)

\* What the network service tells: the connection was made or refused, came from
\* a caller, or broke; and that the listener broke.
Note ==
  [t : {"CONNECT"}, id : Nat \ {0}, ok : BOOLEAN]
    \cup [t : {"ACCEPT", "CLOSE"}, id : Nat \ {0}] \cup [t : {"UNLISTEN"}, id : {0}]

\* The last that is told of a connection.
Final(note) == note.t = "CLOSE" \/ (note.t = "CONNECT" /\ ~note.ok)
Ended(id) == \E i \in DOMAIN inbox : inbox[i].id = id /\ Final(inbox[i])

\* A connection whose end is told of is gone.
Told == \A i \in DOMAIN inbox : Final(inbox[i]) => ~Open(inbox[i].id)

\* Nothing is told of a connection after its end.
LastWord ==
  \A i, j \in DOMAIN inbox : i < j /\ Final(inbox[i]) => inbox[i].id # inbox[j].id

\* What is told is told of a connection that was made, or of the listener.
Within == \A i \in DOMAIN inbox : inbox[i].id \in {0} \cup DOMAIN conn

\* The huber_socket_t of a peer has the id of a connection to it.
Owned == \A p \in Known : rec[p].id \in DOMAIN conn /\ conn[rec[p].id].peer = p

\* A connection to a peer that is not gone, or of which there is something to be
\* told, is found in sid_map.
Found ==
  \A id \in DOMAIN conn :
    conn[id].peer \in Peer /\ (Open(id) \/ Awaited(id)) =>
      conn[id].peer \in sidMap /\ rec[conn[id].peer].id = id

\* What is in sid_map is a connection that is not gone, or will be told to be.
Alive == \A p \in sidMap : Open(rec[p].id) \/ Ended(rec[p].id)

TrackInv ==
  /\ inbox \in Seq(Note) /\ Told /\ LastWord /\ Within
  /\ Owned /\ Found /\ Alive
  /\ timer \cap sidMap = {}

Tracking == LinkInv /\ (stage = "up" /\ ~torn => TrackInv)

\* The entity takes the first message: if it was the end of a connection, there
\* is no more to be told of that.
LEMMA FirstRead ==
  ASSUME inbox \in Seq(Note), inbox # <<>>, LastWord, NEW note, note = Head(inbox),
         inbox' = Tail(inbox)
  PROVE  /\ inbox' \in Seq(Note) /\ LastWord' /\ note \in Note
         /\ Awaited(note.id) /\ (Final(note) => Ended(note.id) /\ ~Awaited(note.id)')
         /\ \A id : Awaited(id)' => Awaited(id)
         /\ \A id : Ended(id)' => Ended(id)
         /\ \A id : Ended(id) => Ended(id)' \/ (Final(note) /\ note.id = id)
         /\ \A i \in DOMAIN inbox' : \E j \in DOMAIN inbox : inbox'[i] = inbox[j]
<1>1. PICK n \in Nat : Len(inbox) = n + 1 /\ DOMAIN inbox = 1 .. n + 1
  <2>1. Len(inbox) \in Nat /\ Len(inbox) # 0 /\ DOMAIN inbox = 1 .. Len(inbox)
    OBVIOUS
  <2>2. Len(inbox) - 1 \in Nat /\ Len(inbox) = (Len(inbox) - 1) + 1
    BY <2>1
  <2>3. QED
    BY <2>1, <2>2
<1>2. /\ inbox' \in Seq(Note) /\ note \in Note /\ DOMAIN inbox' = 1 .. n
      /\ note = inbox[1] /\ \A i \in 1 .. n : inbox'[i] = inbox[i + 1]
  BY <1>1, HeadTailProperties
<1>3. /\ \A i \in 1 .. n : i + 1 \in 1 .. n + 1 /\ 1 < i + 1
      /\ \A i \in 1 .. n + 1 : i = 1 \/ (i - 1 \in 1 .. n /\ inbox'[i - 1] = inbox[i])
      /\ \A i, j \in 1 .. n : i < j => i + 1 < j + 1
      /\ 1 \in 1 .. n + 1
  BY <1>2
<1>4. LastWord'
  BY <1>1, <1>2, <1>3 DEF LastWord
<1>5. Awaited(note.id) /\ (Final(note) => Ended(note.id))
  BY <1>1, <1>2, <1>3 DEF Awaited, Ended
<1>6. Final(note) => ~Awaited(note.id)'
  BY <1>1, <1>2, <1>3 DEF Awaited, LastWord
<1>7. (\A id : Awaited(id)' => Awaited(id)) /\ \A id : Ended(id)' => Ended(id)
  BY <1>1, <1>2, <1>3 DEF Awaited, Ended
<1>8. \A id : Ended(id) => Ended(id)' \/ (Final(note) /\ note.id = id)
  BY <1>1, <1>2, <1>3 DEF Ended
<1>9. \A i \in DOMAIN inbox' : \E j \in DOMAIN inbox : inbox'[i] = inbox[j]
  BY <1>1, <1>2, <1>3
<1>10. QED
  BY <1>2, <1>4, <1>5, <1>6, <1>7, <1>8, <1>9

\* The network service tells one thing more, of a connection that has not ended.
LEMMA OneTold ==
  ASSUME inbox \in Seq(Note), LastWord, NEW note \in Note, ~Ended(note.id),
         inbox' = Append(inbox, note)
  PROVE  /\ inbox' \in Seq(Note) /\ LastWord'
         /\ \A id : Awaited(id)' <=> Awaited(id) \/ note.id = id
         /\ \A id : Ended(id)' <=> Ended(id) \/ (Final(note) /\ note.id = id)
         /\ \A i \in DOMAIN inbox' : \/ inbox'[i] = note
                                     \/ i \in DOMAIN inbox /\ inbox'[i] = inbox[i]
<1>1. PICK n \in Nat : Len(inbox) = n /\ DOMAIN inbox = 1 .. n
  OBVIOUS
<1>2. /\ inbox' \in Seq(Note) /\ DOMAIN inbox' = 1 .. n + 1
      /\ inbox'[n + 1] = note /\ \A i \in 1 .. n : inbox'[i] = inbox[i]
  BY <1>1
<1>3. /\ \A i \in 1 .. n : i \in 1 .. n + 1
      /\ \A i \in 1 .. n + 1 : i = n + 1 \/ i \in 1 .. n
      /\ n + 1 \in 1 .. n + 1
      /\ \A j \in 1 .. n + 1 : ~(n + 1 < j)
  OBVIOUS
<1>4. LastWord'
  <2> SUFFICES ASSUME NEW i \in 1 .. n + 1, NEW j \in 1 .. n + 1, i < j, Final(inbox'[i])
               PROVE  inbox'[i].id # inbox'[j].id
    BY <1>2 DEF LastWord
  <2>1. i \in 1 .. n /\ inbox'[i] = inbox[i]
    BY <1>2, <1>3
  <2>2. CASE j = n + 1
    BY <1>1, <1>2, <2>1, <2>2 DEF Ended
  <2>3. CASE j # n + 1
    BY <1>1, <1>2, <1>3, <2>1, <2>3 DEF LastWord
  <2>4. QED
    BY <2>2, <2>3
<1>5. \A id : Awaited(id)' <=> Awaited(id) \/ note.id = id
  BY <1>1, <1>2, <1>3 DEF Awaited
<1>6. \A id : Ended(id)' <=> Ended(id) \/ (Final(note) /\ note.id = id)
  BY <1>1, <1>2, <1>3 DEF Ended
<1>7. \A i \in DOMAIN inbox' : \/ inbox'[i] = note
                               \/ i \in DOMAIN inbox /\ inbox'[i] = inbox[i]
  BY <1>1, <1>2, <1>3
<1>8. QED
  BY <1>2, <1>4, <1>5, <1>6, <1>7

\* What the network service tells the entity first.
Reads(note) == inbox # <<>> /\ note = Head(inbox) /\ inbox' = Tail(inbox)

\* A message that ends nothing, or is told of a connection to no peer: perhaps
\* its connection is shut.
LEMMA Passed ==
  ASSUME LinkInv, TrackInv, NEW note, Reads(note),
         \/ conn' = conn /\ (Final(note) => FindBySid(note.id) = {})
         \/ conn' = Shut(note.id) /\ FindBySid(note.id) = {},
         Known' = Known, \A p \in Known : rec'[p].id = rec[p].id,
         UNCHANGED <<sidMap, timer>>
  PROVE  TrackInv'
<1>1. /\ inbox' \in Seq(Note) /\ LastWord' /\ note \in Note /\ Awaited(note.id)
      /\ \A id : Awaited(id)' => Awaited(id)
      /\ \A id : Ended(id) => Ended(id)' \/ (Final(note) /\ note.id = id)
      /\ \A i \in DOMAIN inbox' : \E j \in DOMAIN inbox : inbox'[i] = inbox[j]
  BY FirstRead DEF TrackInv, Reads
<1>2. /\ DOMAIN conn' = DOMAIN conn
      /\ \A i \in DOMAIN conn : /\ conn'[i].peer = conn[i].peer
                                /\ i # note.id => conn'[i] = conn[i]
                                /\ Open(i)' => Open(i)
  BY ShutIs DEF LinkInv, ConnTypes, Open
<1>3. \A p \in sidMap : p \in Known /\ p \in Peer
  BY DEF LinkInv, ConnTypes
\* No peer that is in sid_map is concerned.
<1>4. \A p \in sidMap : rec[p].id = note.id => conn' = conn /\ ~Final(note)
  BY DEF FindBySid
<1>5. Told' /\ Within'
  <2>1. ASSUME NEW i \in DOMAIN inbox'
        PROVE  /\ Final(inbox'[i]) => conn'[inbox'[i].id].st = "gone"
               /\ inbox'[i].id \in {0} \cup DOMAIN conn
    <3>1. PICK j \in DOMAIN inbox : inbox'[i] = inbox[j]
      BY <1>1
    <3>2. inbox[j].id \in {0} \cup DOMAIN conn /\ (Final(inbox[j]) => ~Open(inbox[j].id))
      BY DEF TrackInv, Told, Within
    <3>3. Final(inbox[j]) => inbox[j].id \in DOMAIN conn
      <4>1. inbox[j] \in Note
        BY DEF TrackInv
      <4>2. Final(inbox[j]) => inbox[j].id # 0
        BY <4>1 DEF Note, Final
      <4>3. QED
        BY <3>2, <4>2
    <3>4. Final(inbox[j]) => conn'[inbox[j].id].st = "gone"
      BY <1>2, <3>2, <3>3 DEF Open
    <3>5. QED
      BY <3>1, <3>2, <3>4
  <2>2. QED
    BY <1>2, <2>1 DEF Told, Within, Open
<1>6. Owned'
  BY <1>2 DEF TrackInv, Owned
<1>7. Found'
  BY <1>1, <1>2, <1>3 DEF TrackInv, Found
<1>8. Alive'
  <2> SUFFICES ASSUME NEW p \in sidMap, NEW id, id = rec[p].id
               PROVE  Open(id)' \/ Ended(id)'
    BY <1>3 DEF Alive
  <2>1. Open(id) \/ Ended(id)
    BY DEF TrackInv, Alive
  <2>2. CASE Ended(id)
    BY <1>1, <1>4, <2>2
  <2>3. CASE Open(id)
    <3>1. id \in DOMAIN conn
      BY <1>3 DEF TrackInv, Owned
    <3>2. conn'[id] = conn[id]
      BY <1>2, <1>4, <3>1
    <3>3. QED
      BY <2>3, <3>2 DEF Open
  <2>4. QED
    BY <2>1, <2>2, <2>3
<1>9. timer' \cap sidMap' = {}
  BY DEF TrackInv
<1>10. QED
  BY <1>1, <1>5, <1>6, <1>7, <1>8, <1>9 DEF TrackInv

\* The end of the connection to p is read: it is shut, and p leaves sid_map.
LEMMA LostOne ==
  ASSUME LinkInv, TrackInv, NEW note, Reads(note), Final(note),
         NEW p \in FindBySid(note.id), conn' = Shut(note.id), SocketFail(p), ~torn'
  PROVE  TrackInv'
<1>1. /\ inbox' \in Seq(Note) /\ LastWord' /\ note \in Note
      /\ ~Awaited(note.id)'
      /\ \A id : Awaited(id)' => Awaited(id)
      /\ \A id : Ended(id) => Ended(id)' \/ note.id = id
      /\ \A i \in DOMAIN inbox' : \E j \in DOMAIN inbox : inbox'[i] = inbox[j]
  BY FirstRead DEF TrackInv, Reads
<1>2. /\ DOMAIN conn' = DOMAIN conn
      /\ \A i \in DOMAIN conn : /\ conn'[i].peer = conn[i].peer
                                /\ i # note.id => conn'[i] = conn[i]
                                /\ i = note.id => conn'[i].st = "gone"
                                /\ Open(i)' => Open(i) /\ i # note.id
  BY ShutIs DEF LinkInv, ConnTypes, Open
<1>3. /\ p \in sidMap /\ rec[p].id = note.id
      /\ \A q \in sidMap : q \in Known /\ q \in Peer
  BY DEF FindBySid, LinkInv, ConnTypes
<1>4. /\ sidMap' = sidMap \ {p} /\ timer' \subseteq timer \cup {p}
      /\ Known' = Known /\ \A q \in Known : rec'[q].id = rec[q].id
  BY <1>3 DEF SocketFail, Erase, Known
<1>5. Told' /\ Within'
  <2>1. ASSUME NEW i \in DOMAIN inbox'
        PROVE  /\ Final(inbox'[i]) => conn'[inbox'[i].id].st = "gone"
               /\ inbox'[i].id \in {0} \cup DOMAIN conn
    <3>1. PICK j \in DOMAIN inbox : inbox'[i] = inbox[j]
      BY <1>1
    <3>2. inbox[j].id \in {0} \cup DOMAIN conn /\ (Final(inbox[j]) => ~Open(inbox[j].id))
      BY DEF TrackInv, Told, Within
    <3>3. Final(inbox[j]) => inbox[j].id \in DOMAIN conn
      <4>1. inbox[j] \in Note
        BY DEF TrackInv
      <4>2. Final(inbox[j]) => inbox[j].id # 0
        BY <4>1 DEF Note, Final
      <4>3. QED
        BY <3>2, <4>2
    <3>4. Final(inbox[j]) => conn'[inbox[j].id].st = "gone"
      BY <1>2, <3>2, <3>3 DEF Open
    <3>5. QED
      BY <3>1, <3>2, <3>4
  <2>2. QED
    BY <1>2, <2>1 DEF Told, Within, Open
<1>6. Owned'
  BY <1>2, <1>4 DEF TrackInv, Owned
<1>7. Found'
  <2> SUFFICES ASSUME NEW id \in DOMAIN conn, conn[id].peer \in Peer,
                      Open(id)' \/ Awaited(id)'
               PROVE  conn[id].peer \in sidMap' /\ rec'[conn[id].peer].id = id
    BY <1>2 DEF Found
  <2>1. id # note.id /\ (Open(id) \/ Awaited(id))
    BY <1>1, <1>2
  <2>2. conn[id].peer \in sidMap /\ rec[conn[id].peer].id = id
    BY <2>1 DEF TrackInv, Found
  <2>3. QED
    BY <1>3, <1>4, <2>1, <2>2
<1>8. Alive'
  <2> SUFFICES ASSUME NEW q \in sidMap, q # p, NEW id, id = rec[q].id
               PROVE  Open(id)' \/ Ended(id)'
    BY <1>3, <1>4 DEF Alive
  <2>1. Open(id) \/ Ended(id)
    BY DEF TrackInv, Alive
  <2>2. id # note.id /\ id \in DOMAIN conn
    BY <1>3 DEF TrackInv, Owned
  <2>3. QED
    BY <1>1, <1>2, <2>1, <2>2 DEF Open
<1>9. timer' \cap sidMap' = {}
  BY <1>4 DEF TrackInv
<1>10. QED
  BY <1>1, <1>5, <1>6, <1>7, <1>8, <1>9 DEF TrackInv

\* A connection is made for p, that is not in sid_map, or comes from a caller.
LEMMA MadeOne ==
  ASSUME LinkInv, TrackInv, NEW a \in Peer \cup Caller, NEW st \in {"asked", "up"},
         conn' = NewConn(a, st),
         \/ /\ a \in Peer \ sidMap /\ inbox' = inbox
            /\ Known' = Known \cup {a} /\ rec'[a].id = NewId
            /\ \A q \in Known : q # a => rec'[q] = rec[q]
            /\ sidMap' = sidMap \cup {a} /\ timer' = timer \ {a}
         \/ /\ a \in Caller /\ UNCHANGED <<rec, sidMap, timer>>
            /\ inbox' = Append(inbox, [t |-> "ACCEPT", id |-> NewId])
  PROVE  TrackInv'
<1>1. PICK new : new = NewId
  OBVIOUS
<1>2. /\ conn' \in Seq(Conns) /\ new \notin DOMAIN conn /\ new \in Nat \ {0}
      /\ DOMAIN conn' = DOMAIN conn \cup {new}
      /\ \A i \in DOMAIN conn : conn'[i] = conn[i]
      /\ conn'[new] = [peer |-> a, st |-> st]
  <2>1. conn \in Seq(Conns)
    BY DEF LinkInv, ConnTypes
  <2>2. NewId \in Nat \ {0}
    BY <2>1 DEF NewId
  <2>3. QED
    BY <1>1, <2>1, <2>2, NewIs
<1>3. /\ \A i \in DOMAIN conn : (Open(i)' <=> Open(i)) /\ i # new
      /\ Open(new)'
  BY <1>2 DEF Open
<1>4. ~Awaited(new) /\ ~Ended(new) /\ \A p \in Known : rec[p].id # new
  BY <1>2 DEF TrackInv, Within, Awaited, Ended, Owned
<1>5. \A i \in DOMAIN inbox :
        inbox[i] \in Note /\ (Final(inbox[i]) => inbox[i].id \in DOMAIN conn /\ inbox[i].id # 0)
  <2> SUFFICES ASSUME NEW i \in DOMAIN inbox
               PROVE  inbox[i] \in Note /\ (Final(inbox[i]) => inbox[i].id \in DOMAIN conn /\ inbox[i].id # 0)
    OBVIOUS
  <2>1. inbox[i] \in Note
    BY DEF TrackInv
  <2>2. Final(inbox[i]) => inbox[i].id # 0
    BY <2>1 DEF Note, Final
  <2>3. QED
    BY <2>1, <2>2 DEF TrackInv, Within
<1>6. CASE /\ a \in Peer \ sidMap /\ inbox' = inbox
           /\ Known' = Known \cup {a} /\ rec'[a].id = NewId
           /\ \A q \in Known : q # a => rec'[q] = rec[q]
           /\ sidMap' = sidMap \cup {a} /\ timer' = timer \ {a}
  <2>1. /\ inbox' \in Seq(Note) /\ LastWord'
        /\ \A id : Awaited(id)' <=> Awaited(id)
        /\ \A id : Ended(id)' <=> Ended(id)
    BY <1>6 DEF TrackInv, LastWord, Awaited, Ended
  <2>2. Told' /\ Within'
    BY <1>2, <1>3, <1>5, <1>6 DEF TrackInv, Told, Within, Open
  <2>3. Owned'
    <3> SUFFICES ASSUME NEW q \in Known \cup {a}
                 PROVE  rec'[q].id \in DOMAIN conn' /\ conn'[rec'[q].id].peer = q
      BY <1>6 DEF Owned
    <3>1. CASE q = a
      BY <1>1, <1>2, <1>6, <3>1
    <3>2. CASE q # a
      BY <1>2, <1>6, <3>2 DEF TrackInv, Owned
    <3>3. QED
      BY <3>1, <3>2
  <2>4. Found'
    <3> SUFFICES ASSUME NEW id \in DOMAIN conn', conn'[id].peer \in Peer,
                        Open(id)' \/ Awaited(id)'
                 PROVE  conn'[id].peer \in sidMap' /\ rec'[conn'[id].peer].id = id
      BY DEF Found
    <3>1. CASE id = new
      BY <1>1, <1>2, <1>6, <3>1
    <3>2. CASE id # new
      <4>1. id \in DOMAIN conn /\ conn'[id] = conn[id] /\ (Open(id) \/ Awaited(id))
        BY <1>2, <1>3, <2>1, <3>2
      <4>2. conn[id].peer \in sidMap /\ rec[conn[id].peer].id = id
        BY <4>1 DEF TrackInv, Found
      <4>3. conn[id].peer \in Known
        BY <4>2 DEF LinkInv, ConnTypes
      <4>4. QED
        BY <1>6, <4>1, <4>2, <4>3
    <3>3. QED
      BY <3>1, <3>2
  <2>5. Alive'
    <3> SUFFICES ASSUME NEW q \in sidMap \cup {a}, NEW id, id = rec'[q].id
                 PROVE  Open(id)' \/ Ended(id)'
      BY <1>6 DEF Alive
    <3>1. CASE q = a
      BY <1>1, <1>3, <1>6, <3>1
    <3>2. CASE q # a
      <4>1. q \in sidMap /\ q \in Known /\ id = rec[q].id
        BY <1>6, <3>2 DEF LinkInv, ConnTypes
      <4>2. id \in DOMAIN conn /\ (Open(id) \/ Ended(id))
        BY <4>1 DEF TrackInv, Alive, Owned
      <4>3. QED
        BY <1>3, <2>1, <4>2
    <3>3. QED
      BY <3>1, <3>2
  <2>6. timer' \cap sidMap' = {}
    BY <1>6 DEF TrackInv
  <2>7. QED
    BY <2>1, <2>2, <2>3, <2>4, <2>5, <2>6 DEF TrackInv
<1>7. CASE /\ a \in Caller /\ UNCHANGED <<rec, sidMap, timer>>
           /\ inbox' = Append(inbox, [t |-> "ACCEPT", id |-> NewId])
  <2>1. PICK note : note = [t |-> "ACCEPT", id |-> new]
    OBVIOUS
  <2>2. note \in Note /\ ~Final(note) /\ note.id = new
    BY <1>2, <2>1 DEF Note, Final
  <2>3. /\ inbox' \in Seq(Note) /\ LastWord'
        /\ \A id : Awaited(id)' <=> Awaited(id) \/ new = id
        /\ \A id : Ended(id)' <=> Ended(id)
        /\ \A i \in DOMAIN inbox' : \/ inbox'[i] = note
                                    \/ i \in DOMAIN inbox /\ inbox'[i] = inbox[i]
    BY <1>1, <1>4, <1>7, <2>1, <2>2, OneTold DEF TrackInv
  <2>4. Told' /\ Within'
    <3>1. ASSUME NEW i \in DOMAIN inbox'
          PROVE  /\ Final(inbox'[i]) => conn'[inbox'[i].id].st = "gone"
                 /\ inbox'[i].id \in {0} \cup DOMAIN conn'
      <4>1. CASE inbox'[i] = note
        BY <1>2, <2>2, <4>1
      <4>2. CASE i \in DOMAIN inbox /\ inbox'[i] = inbox[i]
        BY <1>2, <1>5, <4>2 DEF TrackInv, Told, Within, Open
      <4>3. QED
        BY <2>3, <4>1, <4>2
    <3>2. QED
      BY <3>1 DEF Told, Within, Open
  <2>5. Owned'
    BY <1>2, <1>7 DEF TrackInv, Owned, Known
  <2>6. Found'
    <3>1. a \notin Peer
      BY <1>7, HuberAssumption
    <3> SUFFICES ASSUME NEW id \in DOMAIN conn', conn'[id].peer \in Peer,
                        Open(id)' \/ Awaited(id)'
                 PROVE  conn'[id].peer \in sidMap /\ rec[conn'[id].peer].id = id
      BY <1>7 DEF Found
    <3>2. id \in DOMAIN conn /\ conn'[id] = conn[id] /\ (Open(id) \/ Awaited(id))
      BY <1>2, <1>3, <2>3, <3>1
    <3>3. QED
      BY <3>2 DEF TrackInv, Found
  <2>7. Alive'
    <3> SUFFICES ASSUME NEW q \in sidMap, NEW id, id = rec[q].id
                 PROVE  Open(id)' \/ Ended(id)'
      BY <1>7 DEF Alive
    <3>1. q \in Known
      BY DEF LinkInv, ConnTypes
    <3>2. id \in DOMAIN conn /\ (Open(id) \/ Ended(id))
      BY <3>1 DEF TrackInv, Alive, Owned
    <3>3. QED
      BY <1>3, <2>3, <3>2
  <2>8. timer' \cap sidMap' = {}
    BY <1>7 DEF TrackInv
  <2>9. QED
    BY <2>3, <2>4, <2>5, <2>6, <2>7, <2>8 DEF TrackInv
<1>8. QED
  BY <1>6, <1>7

\* The network service tells of a connection that is not gone: it is up now, or,
\* as the last that is told of it, gone.
LEMMA TellsOne ==
  ASSUME LinkInv, TrackInv, NEW id \in DOMAIN conn, Open(id), NEW note \in Note,
         note.id = id, inbox' = Append(inbox, note),
         NEW st \in {"up", "gone"}, conn' = [conn EXCEPT ![id].st = st],
         st = "up" <=> ~Final(note),
         UNCHANGED <<rec, sidMap, timer>>
  PROVE  TrackInv'
<1>1. /\ DOMAIN conn' = DOMAIN conn
      /\ \A i \in DOMAIN conn : /\ conn'[i].peer = conn[i].peer
                                /\ i # id => conn'[i] = conn[i]
                                /\ i = id => conn'[i].st = st
                                /\ Open(i)' => Open(i)
  <2>1. \A i \in DOMAIN conn : conn[i] \in Conns
    BY DEF LinkInv, ConnTypes
  <2>2. QED
    BY <2>1 DEF Conns, Open
<1>2. ~Ended(id)
  BY DEF TrackInv, Told, Ended
<1>3. /\ inbox' \in Seq(Note) /\ LastWord'
      /\ \A i : Awaited(i)' <=> Awaited(i) \/ id = i
      /\ \A i : Ended(i)' <=> Ended(i) \/ (Final(note) /\ id = i)
      /\ \A i \in DOMAIN inbox' : \/ inbox'[i] = note
                                  \/ i \in DOMAIN inbox /\ inbox'[i] = inbox[i]
  BY <1>2, OneTold DEF TrackInv
<1>4. \A q \in sidMap : q \in Known
  BY DEF LinkInv, ConnTypes
<1>5. Told' /\ Within'
  <2>1. ASSUME NEW i \in DOMAIN inbox'
        PROVE  /\ Final(inbox'[i]) => conn'[inbox'[i].id].st = "gone"
               /\ inbox'[i].id \in {0} \cup DOMAIN conn
    <3>1. CASE inbox'[i] = note
      BY <1>1, <3>1
    <3>2. CASE i \in DOMAIN inbox /\ inbox'[i] = inbox[i]
      <4>1. inbox[i].id \in {0} \cup DOMAIN conn /\ (Final(inbox[i]) => ~Open(inbox[i].id))
        BY <3>2 DEF TrackInv, Told, Within
      <4>2. inbox[i] \in Note
        BY <3>2 DEF TrackInv
      <4>3. Final(inbox[i]) => inbox[i].id # 0
        BY <4>2 DEF Note, Final
      <4>4. Final(inbox[i]) => conn'[inbox[i].id].st = "gone"
        BY <1>1, <4>1, <4>3 DEF Open
      <4>5. QED
        BY <3>2, <4>1, <4>4
    <3>3. QED
      BY <1>3, <3>1, <3>2
  <2>2. QED
    BY <1>1, <2>1 DEF Told, Within, Open
<1>6. Owned'
  BY <1>1 DEF TrackInv, Owned, Known
<1>7. Found'
  BY <1>1, <1>3 DEF TrackInv, Found
<1>8. Alive'
  <2> SUFFICES ASSUME NEW q \in sidMap, NEW i, i = rec[q].id
               PROVE  Open(i)' \/ Ended(i)'
    BY DEF Alive
  <2>1. i \in DOMAIN conn /\ (Open(i) \/ Ended(i))
    BY <1>4 DEF TrackInv, Alive, Owned
  <2>2. QED
    BY <1>1, <1>3, <2>1 DEF Open
<1>9. timer' \cap sidMap' = {}
  BY DEF TrackInv
<1>10. QED
  BY <1>3, <1>5, <1>6, <1>7, <1>8, <1>9 DEF TrackInv

\* And of the listener.
LEMMA TellsNone ==
  ASSUME LinkInv, TrackInv, inbox' = Append(inbox, [t |-> "UNLISTEN", id |-> 0]),
         UNCHANGED <<conn, rec, sidMap, timer>>
  PROVE  TrackInv'
<1>1. PICK note : note = [t |-> "UNLISTEN", id |-> 0]
  OBVIOUS
<1>2. note \in Note /\ ~Final(note) /\ note.id = 0
  BY <1>1 DEF Note, Final
<1>3. 0 \notin DOMAIN conn
  <2>1. conn \in Seq(Conns)
    BY DEF LinkInv, ConnTypes
  <2>2. DOMAIN conn = 1 .. Len(conn)
    BY <2>1
  <2>3. QED
    BY <2>2
<1>4. ~Ended(0)
  <2> SUFFICES ASSUME NEW i \in DOMAIN inbox, Final(inbox[i])
               PROVE  inbox[i].id # 0
    BY DEF Ended
  <2>1. inbox[i] \in Note
    BY DEF TrackInv
  <2>2. QED
    BY <2>1 DEF Note, Final
<1>5. /\ inbox' \in Seq(Note) /\ LastWord'
      /\ \A i : Awaited(i)' <=> Awaited(i) \/ i = 0
      /\ \A i : Ended(i)' <=> Ended(i)
      /\ \A i \in DOMAIN inbox' : \/ inbox'[i] = note
                                  \/ i \in DOMAIN inbox /\ inbox'[i] = inbox[i]
  BY <1>1, <1>2, <1>4, OneTold DEF TrackInv
<1>6. Told' /\ Within'
  BY <1>2, <1>5 DEF TrackInv, Told, Within, Open
<1>7. Owned'
  BY DEF TrackInv, Owned, Known
<1>8. Found'
  BY <1>3, <1>5 DEF TrackInv, Found, Open
<1>9. Alive'
  BY <1>5 DEF TrackInv, Alive, Open
<1>10. QED
  BY <1>5, <1>6, <1>7, <1>8, <1>9 DEF TrackInv

\* The entity's handlers.
LEMMA TrackHandle ==
  ASSUME LinkInv, TrackInv, Handle, ~torn'
  PROVE  TrackInv'
<1>1. PICK note : note = Head(inbox)
  OBVIOUS
<1>2. /\ Reads(note)
      /\ \/ note.t = "CONNECT" /\ HandleConn(note) /\ UNCHANGED <<peerMap, listening>>
         \/ note.t = "ACCEPT" /\ HandleAccept(note) /\ UNCHANGED listening
         \/ note.t = "CLOSE" /\ HandleClose(note) /\ UNCHANGED <<peerMap, listening>>
         \/ note.t = "UNLISTEN" /\ HandleUnlisten
  BY <1>1 DEF Handle, Reads
<1>3. CASE note.t = "CONNECT" /\ HandleConn(note)
  <2>1. CASE FindBySid(note.id) = {}
    BY <1>2, <1>3, <2>1, Passed DEF HandleConn, Known
  <2>2. CASE FindBySid(note.id) # {}
    <3>1. PICK p \in FindBySid(note.id) :
            \/ /\ note.ok
               /\ rec' = [rec EXCEPT ![p] = Healthy(@)]
               /\ UNCHANGED <<conn, sidMap, timer, torn>>
            \/ ~note.ok /\ conn' = Shut(note.id) /\ SocketFail(p)
      BY <1>3, <2>2 DEF HandleConn
    <3>2. CASE /\ note.ok /\ rec' = [rec EXCEPT ![p] = Healthy(@)]
               /\ UNCHANGED <<conn, sidMap, timer, torn>>
      <4>1. Known' = Known /\ \A q \in Known : rec'[q].id = rec[q].id
        BY <3>2 DEF Known, Healthy
      <4>2. ~Final(note)
        BY <1>3, <3>2 DEF Final
      <4>3. QED
        BY <1>2, <3>2, <4>1, <4>2, Passed
    <3>3. CASE ~note.ok /\ conn' = Shut(note.id) /\ SocketFail(p)
      <4>1. Final(note)
        BY <1>3, <3>3 DEF Final
      <4>2. QED
        BY <1>2, <3>3, <4>1, LostOne
    <3>4. QED
      BY <3>1, <3>2, <3>3
  <2>3. QED
    BY <2>1, <2>2
<1>4. CASE note.t = "CLOSE" /\ HandleClose(note)
  <2>1. CASE FindBySid(note.id) = {}
    BY <1>2, <1>4, <2>1, Passed DEF HandleClose, Known
  <2>2. CASE FindBySid(note.id) # {}
    <3>1. PICK p \in FindBySid(note.id) : conn' = Shut(note.id) /\ SocketFail(p)
      BY <1>4, <2>2 DEF HandleClose
    <3>2. Final(note)
      BY <1>4 DEF Final
    <3>3. QED
      BY <1>2, <3>1, <3>2, LostOne
  <2>3. QED
    BY <2>1, <2>2
<1>5. CASE \/ note.t = "ACCEPT" /\ HandleAccept(note)
           \/ note.t = "UNLISTEN" /\ HandleUnlisten
  <2>1. ~Final(note)
    BY <1>5 DEF Final
  <2>2. UNCHANGED <<conn, rec, sidMap, timer>>
    BY <1>5 DEF HandleAccept, HandleUnlisten, maps
  <2>3. QED
    BY <1>2, <2>1, <2>2, Passed DEF Known
<1>6. QED
  BY <1>2, <1>3, <1>4, <1>5

\* Every step keeps it, or was given a node outside the tree.
LEMMA TrackNext == Tracking /\ [Next]_vars => Tracking'
<1> SUFFICES ASSUME LinkInv, [Next]_vars, stage = "up" /\ ~torn => TrackInv,
                    stage' = "up", ~torn'
             PROVE  TrackInv'
  BY LinkNext DEF Tracking
<1>e. ASSUME UNCHANGED <<stage, torn>>
      PROVE  TrackInv
  BY <1>e
<1>u. ASSUME UNCHANGED <<conn, inbox, rec, sidMap, timer, stage, torn>>
      PROVE  TrackInv'
  BY <1>e, <1>u DEF TrackInv, Told, LastWord, Within, Owned, Found, Alive, Awaited, Ended,
                    Open, Known
<1>1. CASE Handle
  <2>1. stage = "up" /\ ~torn
    <3>1. torn' = torn \/ torn' = TRUE
      <4>1. \A p : SocketFail(p) => torn' = torn \/ torn' = TRUE
        BY DEF SocketFail, Erase
      <4>2. \A note : \/ HandleConn(note) \/ HandleAccept(note) \/ HandleClose(note)
                      \/ HandleUnlisten
                 => torn' = torn \/ torn' = TRUE
        BY <4>1 DEF HandleConn, HandleAccept, HandleClose, HandleUnlisten
      <4>3. QED
        BY <1>1, <4>2 DEF Handle
    <3>2. stage = "up"
      BY <1>1 DEF Handle
    <3>3. QED
      BY <3>1, <3>2
  <2>2. QED
    BY <1>1, <2>1, TrackHandle
<1>2. CASE Destroy
  BY <1>2 DEF Destroy
<1>3. CASE ListenerBreaks
  BY <1>e, <1>3, TellsNone DEF ListenerBreaks, Tells, maps
<1>4. ASSUME NEW p \in Peer, Reconnect(p)
      PROVE  TrackInv'
  <2>1. TrackInv /\ p \in timer /\ p \in Known /\ p \notin sidMap
    BY <1>e, <1>4 DEF Reconnect, TrackInv, LinkInv, ConnTypes
  <2>2. PICK st \in {"asked", "up"} :
          /\ conn' = NewConn(p, st)
          /\ rec' = [rec EXCEPT ![p] =
               LET r == [@ EXCEPT !.id = NewId] IN IF st = "up" THEN Healthy(r) ELSE r]
    BY <1>4 DEF Reconnect
  <2>3. /\ Known' = Known \cup {p} /\ rec'[p].id = NewId
        /\ \A q \in Known : q # p => rec'[q] = rec[q]
    BY <2>1, <2>2 DEF Known, Healthy
  <2>4. sidMap' = sidMap \cup {p} /\ timer' = timer \ {p} /\ inbox' = inbox
    BY <1>4 DEF Reconnect, Rung, Reentered
  <2>5. QED
    BY <2>1, <2>2, <2>3, <2>4, MadeOne
<1>5. ASSUME NEW p \in Peer, ReconnectFails(p)
      PROVE  TrackInv'
  <2>1. p \in timer /\ stage = "up" /\ Erase(p)
    BY <1>5 DEF ReconnectFails, SocketFail
  <2>2. p \in sidMap /\ torn' = torn
    BY <2>1 DEF Erase
  <2>3. TrackInv
    BY <2>1, <2>2
  <2>4. QED
    BY <2>1, <2>2, <2>3 DEF TrackInv
<1>6. ASSUME NEW p \in Peer, SendMsg(p) \/ Quiet(p)
      PROVE  TrackInv'
  BY <1>u, <1>6 DEF SendMsg, Quiet, net, maps
<1>7. ASSUME NEW p \in Peer, SendFirst(p)
      PROVE  TrackInv'
  <2>1. TrackInv /\ p \notin Known /\ timer' = timer /\ inbox' = inbox
    BY <1>e, <1>7 DEF SendFirst
  <2>2. CASE UNCHANGED <<conn, rec, sidMap>>
    BY <1>u, <1>7, <2>2 DEF SendFirst
  <2>3. CASE ~UNCHANGED <<conn, rec, sidMap>>
    <3>1. sidMap' = sidMap \cup {p}
      BY <1>7, <2>3 DEF SendFirst
    <3>2. PICK st \in {"asked", "up"} :
            /\ conn' = NewConn(p, st)
            /\ LET r == [id |-> NewId, state |-> CONNECTING, health |-> HEALTH_UNKNOW]
               IN rec' = [q \in Known \cup {p} |->
                            IF q # p THEN rec[q]
                            ELSE IF st = "up" THEN Healthy(r) ELSE r]
      BY <1>7, <2>3 DEF SendFirst
    <3>3. /\ Known' = Known \cup {p} /\ rec'[p].id = NewId
          /\ \A q \in Known : q # p => rec'[q] = rec[q]
      BY <3>2 DEF Healthy, Known
    <3>4. timer' = timer \ {p} /\ p \notin sidMap
      BY <2>1 DEF LinkInv, ConnTypes
    <3>5. QED
      BY <2>1, <3>1, <3>2, <3>3, <3>4, MadeOne
  <2>4. QED
    BY <2>2, <2>3
<1>8. ASSUME NEW id \in DOMAIN conn, Refused(id) \/ Breaks(id) \/ Succeeds(id)
      PROVE  TrackInv'
  <2>1. /\ TrackInv /\ Open(id) /\ UNCHANGED <<rec, sidMap, timer>>
        /\ \E note \in {[t |-> "CONNECT", id |-> id, ok |-> FALSE], [t |-> "CLOSE", id |-> id],
                        [t |-> "CONNECT", id |-> id, ok |-> TRUE]}, st \in {"up", "gone"} :
             /\ inbox' = Append(inbox, note)
             /\ conn' = [conn EXCEPT ![id].st = st]
             /\ st = "up" <=> note = [t |-> "CONNECT", id |-> id, ok |-> TRUE]
    BY <1>e, <1>8 DEF Refused, Breaks, Succeeds, Tells, Shut, Open, maps
  <2>2. id \in Nat \ {0}
    BY DEF LinkInv, ConnTypes
  <2>3. \A note \in {[t |-> "CONNECT", id |-> id, ok |-> FALSE], [t |-> "CLOSE", id |-> id],
                     [t |-> "CONNECT", id |-> id, ok |-> TRUE]} :
          /\ note \in Note /\ note.id = id
          /\ ~Final(note) <=> note = [t |-> "CONNECT", id |-> id, ok |-> TRUE]
    <3>1. PICK no, over, yes : /\ no = [t |-> "CONNECT", id |-> id, ok |-> FALSE]
                               /\ over = [t |-> "CLOSE", id |-> id]
                               /\ yes = [t |-> "CONNECT", id |-> id, ok |-> TRUE]
      OBVIOUS
    <3>2. no \in Note /\ over \in Note /\ yes \in Note
      BY <2>2, <3>1 DEF Note
    <3>3. Final(no) /\ Final(over) /\ ~Final(yes) /\ no # yes /\ over # yes
      BY <3>1 DEF Final
    <3>4. no.id = id /\ over.id = id /\ yes.id = id
      BY <3>1
    <3>5. QED
      BY <3>1, <3>2, <3>3, <3>4
  <2>4. QED
    BY <2>1, <2>3, TellsOne
<1>9. ASSUME NEW a \in Caller, Comes(a)
      PROVE  TrackInv'
  BY <1>e, <1>9, MadeOne DEF Comes, Tells, maps
<1>10. CASE UNCHANGED vars
  BY <1>u, <1>10 DEF vars
<1>11. QED
  BY <1>1, <1>2, <1>3, <1>4, <1>5, <1>6, <1>7, <1>8, <1>9, <1>10 DEF Next

\* Nothing to keep track of yet.
LEMMA TrackInit == Init => Tracking
<1> SUFFICES ASSUME Init
             PROVE  Tracking
  OBVIOUS
<1>1. inbox = <<>> /\ conn = <<>> /\ Known = {} /\ timer = {} /\ sidMap = {}
  BY DEF Init, Known
<1>2. inbox \in Seq(Note) /\ DOMAIN inbox = {} /\ DOMAIN conn = {}
  BY <1>1
<1>3. TrackInv
  BY <1>1, <1>2 DEF TrackInv, Told, LastWord, Within, Owned, Found, Alive
<1>4. QED
  BY <1>3, LinkInit DEF Tracking

\* An id in sid_map is one peer's, since the connection of that id is to it.
LEMMA TrackImplies ==
  ASSUME Tracking
  PROVE  Tracked
<1> SUFFICES ASSUME LinkInv, TrackInv
             PROVE  /\ \A p \in Peer : \A id \in DOMAIN conn :
                         conn[id].peer = p /\ (Open(id) \/ Awaited(id)) => FindBySid(id) = {p}
                    /\ \A p \in Known :
                         p \notin sidMap <=> Links(p) = {} /\ ~Awaited(rec[p].id)
                    /\ timer \subseteq Known \ sidMap
  BY DEF Tracking, Tracked
<1>1. sidMap \subseteq Known /\ Known \subseteq Peer /\ timer \subseteq Known
  BY DEF LinkInv, ConnTypes
<1>2. ASSUME NEW p \in Peer, NEW id \in DOMAIN conn, conn[id].peer = p, Open(id) \/ Awaited(id)
      PROVE  FindBySid(id) = {p}
  <2>1. p \in sidMap /\ rec[p].id = id
    BY <1>2 DEF TrackInv, Found
  <2>2. \A q \in sidMap : rec[q].id = id => q = p
    BY <1>1, <1>2 DEF TrackInv, Owned
  <2>3. QED
    BY <2>1, <2>2 DEF FindBySid
<1>3. ASSUME NEW p \in Known
      PROVE  p \notin sidMap <=> Links(p) = {} /\ ~Awaited(rec[p].id)
  <2>1. rec[p].id \in DOMAIN conn /\ conn[rec[p].id].peer = p
    BY DEF TrackInv, Owned
  <2>2. ASSUME p \in sidMap
        PROVE  Links(p) # {} \/ Awaited(rec[p].id)
    BY <2>1, <2>2 DEF TrackInv, Alive, Ended, Awaited, Links
  <2>3. ASSUME p \notin sidMap
        PROVE  Links(p) = {} /\ ~Awaited(rec[p].id)
    BY <1>1, <2>1, <2>3 DEF TrackInv, Found, Links
  <2>4. QED
    BY <2>2, <2>3
<1>4. QED
  BY <1>1, <1>2, <1>3 DEF TrackInv

\* As long as rb_erase was given only nodes in the tree, what is or will be told
\* of a connection finds its huber_socket_t (huber_find_by_sid), a peer is in
\* sid_map exactly while its connection is not known to be over, and the timer is
\* set only for a peer that is not.
THEOREM NothingLost == Spec => []Tracked
BY TrackInit, TrackNext, TrackImplies, PTL DEF Spec
=============================================================================
