----------------------------- MODULE Connection -----------------------------
(***************************************************************************)
(* What the three protocols share: a connection as its protocol sees it    *)
(* (the socket's buffers, role and ud of jetnet_base_socket_t), and what a *)
(* protocol does to it.  Each protocol is a module of operators from a     *)
(* connection to a connection; NetService has the variable.                *)
(*                                                                         *)
(* "told" is the history of the messages pushed for the connection's       *)
(* owner, and "came" that of what the peer sent.  A write buffer is the    *)
(* sequence id its owner gave it, or 0 when it has no owner to tell.  "old" *)
(* says that the time a linked connection is given is over.  A socket that *)
(* was closed keeps its lists, as a history.                               *)
(***************************************************************************)
EXTENDS Naturals, Sequences

\* The items of s that are in S.
Chosen(s, S) ==
  LET chosen[k \in 0 .. Len(s)] ==
        IF k = 0 THEN <<>>
        ELSE IF s[k] \in S THEN Append(chosen[k - 1], s[k]) ELSE chosen[k - 1]
  IN chosen[Len(s)]

\* The state of a loop after n turns.
Turns(Turn(_), s, n) ==
  LET after[k \in 0 .. n] == IF k = 0 THEN s ELSE Turn(after[k - 1]) IN after[n]

Note(t, n) == [t |-> t, n |-> n]

\* A socket and the data a protocol hangs on it; pr is its parser.
NewConnection(proto, role, st, pr) ==
  [proto |-> proto, role |-> role, st |-> st, pr |-> pr, linked |-> FALSE,
   rbl |-> <<>>, wbl |-> <<>>, told |-> <<>>, came |-> <<>>, sent |-> 0,
   up |-> TRUE, bye |-> FALSE, old |-> FALSE]

Tell(c, t, n) == [c EXCEPT !.told = Append(@, Note(t, n))]

\* jetnet_*_notify_unreachable: one notice for each buffer with an owner.
TellUnreachable(c) ==
  LET owned == Chosen(c.wbl, Nat \ {0}) IN
  [c EXCEPT !.told = @ \o [i \in DOMAIN owned |-> Note("UNREACH", owned[i])]]

\* Mutant of Shut: the socket is left open.
Shut_KeepsSocket(c) == [c EXCEPT !.st = "CLOSE"]

\* The protocol's close state and jetnet_close_socket.
Shut(c) == [c EXCEPT !.st = "CLOSE", !.up = FALSE]

\* The poll of a protocol's list: an entry whose time is over is closed, one
\* that is not a server's taken out.  "role" is what is read for its role.
PollLink(c, role) ==
  CASE ~c.linked -> c
    [] c.linked /\ role = "server" ->
         IF c.old THEN [Shut(c) EXCEPT !.linked = FALSE] ELSE c
    [] c.linked /\ role # "server" -> [c EXCEPT !.linked = FALSE]

\* The parser's data in the read buffer list is used up to unit k.
Consume(c, k) == [c EXCEPT !.rbl = SubSeq(@, k + 1, Len(@))]

\* jetnet_tcp_send and _sendv: written at once when nothing waits, or kept.
Outcome == {"sent", "queued", "failed"}
MaySend(c, out) == out = "sent" => c.wbl = <<>>
Write(c, k, out) == IF out = "queued" THEN [c EXCEPT !.wbl = Append(@, k)] ELSE c
=============================================================================
