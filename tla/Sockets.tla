------------------------------ MODULE Sockets ------------------------------
(***************************************************************************)
(* What the socket server promises to the protocols above it: which ids    *)
(* they may use and which events jetnet_ss_poll reports for an id, in      *)
(* which order (the cases, and the asserts, of jetnet_tcpsac_ev_handler).  *)
(* Nothing here of slots, of epoll or of the lists of the socket server.   *)
(***************************************************************************)
EXTENDS Integers, Functions

VARIABLES
  view,       \* view[id]: what the protocols know of each id they hold
  next,       \* no id from this one on was ever used
  ev          \* the event of the last poll

svars == <<view, next, ev>>

Quiet == [type |-> "NONE", id |-> -1]

SInit ==
  /\ view = [id \in {} |-> ""]
  /\ next = 0
  /\ ev = Quiet

Ends(id) == view' = Restrict(view, DOMAIN view \ {id})
Becomes(id, phase) == view' = [view EXCEPT ![id] = phase]
Begins(phase) ==
  /\ next' > next
  /\ view' = [id \in DOMAIN view \cup {next' - 1} |->
                IF id = next' - 1 THEN phase ELSE view[id]]

\* jetnet_tcp_listen and jetnet_tcp_connect give a new id or fail; an id can
\* be connected at once, and then no event says so.
Open ==
  /\ next' >= next
  /\ \/ Begins("listening") \/ Begins("connecting") \/ Begins("open")
     \/ UNCHANGED view
  /\ UNCHANGED ev

\* jetnet_close_socket: the id is not heard of again.
Close(id) == Ends(id) /\ UNCHANGED <<next, ev>>

\* jetnet_ss_poll begins.
Poll == ev' = Quiet /\ UNCHANGED <<view, next>>

Reports(type, id) == ev' = [type |-> type, id |-> id]

Accepted ==
  /\ Begins("open")
  /\ Reports("ACCEPT", next' - 1)

Missed == next' > next /\ UNCHANGED <<view, ev>>

Connected(id) ==
  /\ view[id] = "connecting"
  /\ \/ Becomes(id, "open") /\ Reports("CONNECTED", id)
     \/ Becomes(id, "failed") /\ Reports("REFUSED", id)
  /\ UNCHANGED next

\* "can't recv data in this socket role", nor before the connection is open.
Received(id) ==
  /\ view[id] = "open"
  /\ Reports("RECV", id)
  /\ UNCHANGED <<view, next>>

\* A CLOSE is the last event of its id.
Closed(id) ==
  /\ Ends(id)
  /\ Reports("CLOSE", id)
  /\ UNCHANGED next

SNext ==
  \/ Open \/ Poll \/ Accepted \/ Missed
  \/ \E id \in DOMAIN view :
       Close(id) \/ Connected(id) \/ Received(id) \/ Closed(id)

SafeSpec == SInit /\ [][SNext]_svars
=============================================================================
