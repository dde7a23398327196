-------------------------------- MODULE Http --------------------------------
(***************************************************************************)
(* The http protocol (net/jetnet_http.c) around http_parser.  A unit of    *)
(* the read buffer is a piece of a message: some of its headers, the end   *)
(* of the headers, of a message with a length or of one that ends with the *)
(* connection, a piece of body, the end of a chunk's size or of a chunk,   *)
(* a trailer, the end of the message, or an error.  For two pieces the     *)
(* parser calls nothing back: a blank line before the message, and a piece *)
(* of a chunk's size or of the line end behind a chunk.                    *)
(*                                                                         *)
(* "off" counts the units parsed, current_offset.  "twice" is a history:   *)
(* some unit was parsed a second time.                                     *)
(***************************************************************************)
EXTENDS Connection

CONSTANT MaxBody    \* HTTP_MAX_BODY_LEN, in pieces

\* field_num is not initialised by jetnet_init_http_pr: "full" says that the
\* memory held a number that leaves no room for a header field.
Parser0(full) == [step |-> "NONE", off |-> 0, body |-> 0, keep |-> FALSE,
                  paused |-> FALSE, toeof |-> FALSE, full |-> full,
                  size |-> "right", twice |-> FALSE]

\* What the second reading of a piece with no callback makes of it: the same
\* again, a chunk's size that is longer, an error.
Same == 0
Longer == 1
Wrong == 2
Silent == {"blank", "chunkpart"}

\* Mutant of Reset: current_offset is left.
Reset_KeepsOffset(c) ==
  [c EXCEPT !.pr = [@ EXCEPT !.step = "NONE", !.body = 0, !.keep = FALSE]]

\* Mutant of Reset: should_keep_alive is left.
Reset_KeepsAlive(c) ==
  [c EXCEPT !.pr = [@ EXCEPT !.step = "NONE", !.off = 0, !.body = 0]]

\* jetnet_http_parser_reset, which does not resume the parser.
Reset(c) == [c EXCEPT !.pr = [@ EXCEPT !.step = "NONE", !.off = 0, !.body = 0,
                                       !.keep = FALSE]]

\* The parser's callbacks, one piece at a time.  In a chunk whose size was read
\* longer, all that comes is body.
Piece(c, u) ==
  LET pr == [c.pr EXCEPT !.off = @ + 1] IN
  [c EXCEPT !.pr =
     IF u.kind = "body" \/ pr.size = "astray"
     THEN [pr EXCEPT !.step = "BODY", !.body = @ + 1]
     ELSE CASE u.kind \in Silent -> pr
            [] (u.kind = "fields" /\ ~pr.full) \/ u.kind = "trailer" ->
                 [pr EXCEPT !.step = "FIELD"]
            [] u.kind \in {"headers", "headerstoeof"} /\ ~(pr.step = "NONE" /\ pr.full) ->
                 [pr EXCEPT !.step = "HEADERS", !.keep = u.kind = "headers",
                            !.toeof = u.kind = "headerstoeof"]
            [] u.kind = "chunk" ->
                 [pr EXCEPT !.step = "CHUNK",
                            !.size = IF @ = "longer" THEN "astray" ELSE @]
            [] u.kind = "end" -> [pr EXCEPT !.step = "COMPLETE", !.paused = TRUE]
            [] OTHER -> [pr EXCEPT !.step = "ERROR"]]

\* The same piece again: the parser goes on behind it, and reads it there.
Reread(c, u) ==
  [c EXCEPT !.pr = [@ EXCEPT !.off = c.pr.off + 1, !.twice = TRUE,
                             !.step = IF u.n = Wrong THEN "ERROR" ELSE c.pr.step,
                             !.size = IF u.n = Longer THEN "longer" ELSE c.pr.size]]

\* http_parser_execute, of units of which the first "old" were parsed before:
\* nothing once it is paused, or after an error.
Execute(c, old, units) ==
  LET run[k \in 0 .. Len(units)] ==
        IF k = 0 THEN c
        ELSE IF run[k - 1].pr.paused \/ run[k - 1].pr.step = "ERROR" THEN run[k - 1]
        ELSE IF k <= old THEN Reread(run[k - 1], units[k])
        ELSE Piece(run[k - 1], units[k])
  IN run[Len(units)]

\* jetnet_http_parser: the units just read, or everything in the list while no
\* message has begun, what was read before too; an empty list is an error.
Parsed(c, fresh) ==
  CASE c.pr.step \in {"COMPLETE", "ERROR"} -> c
    [] c.pr.step = "NONE" -> Execute(c, Len(c.rbl) - Len(fresh), c.rbl)
    [] OTHER -> Execute(c, 0, fresh)
Broken(c, p) == p.pr.step = "ERROR" \/ (c.pr.step = "NONE" /\ c.rbl = <<>>)

NotifyConnect(c, ok) == Tell(c, IF ok THEN "CONNECT" ELSE "FAIL", 0)

\* The list holds what current_offset counts.
Held(c) == c.pr.off <= Len(c.rbl)

\* jetnet_gen_http_recv_msg, of the units parsed, and the reset behind it.
Deliver(c) == Reset(Consume(Tell(c, "RECV", c.pr.off), c.pr.off))

\* A part of a long body is delivered before its end.
Long(c) == c.pr.step \in {"HEADERS", "BODY", "CHUNK"} /\ c.pr.body >= MaxBody

\* An empty list behind a message: a server's loop ends, a client's parses it.
Ends(empty, c) == empty = "ends" /\ c.rbl = <<>>

\* A turn of the loop of the receive handlers; only the first parses the units
\* just read.
RecvTurn(s) ==
  LET p == Parsed(s.c, s.fresh)
      broken == Broken(s.c, p)
  IN CASE s.done -> s
       [] ~s.done /\ broken -> [s EXCEPT !.c = Shut(p), !.done = TRUE]
       [] ~s.done /\ ~broken /\ (p.pr.step = "COMPLETE" \/ Long(p)) /\ ~Held(p) ->
            [s EXCEPT !.c = Shut(p), !.done = TRUE]
       [] ~s.done /\ ~broken /\ p.pr.step = "COMPLETE" /\ Held(p) ->
            [s EXCEPT !.c = Deliver(p), !.fresh = <<>>,
                      !.done = Ends(s.empty, Deliver(p))]
       [] ~s.done /\ ~broken /\ Long(p) /\ Held(p) ->
            [s EXCEPT !.c = Deliver(p), !.done = TRUE]
       [] OTHER -> [s EXCEPT !.c = p, !.done = TRUE]

\* Every turn but the last takes a message from the list.
RecvLoop(c, fresh, empty) ==
  Turns(RecvTurn, [c |-> c, fresh |-> fresh, empty |-> empty, done |-> FALSE],
        Len(c.rbl) + 1).c

ClientLoop(c, fresh) == RecvLoop(c, fresh, "breaks")
ServerLoop(c, fresh) == RecvLoop(c, fresh, "ends")

HandleClientRecv(c, fresh) ==
  IF c.st = "TRANS" THEN ClientLoop(c, fresh) ELSE Shut(c)
HandleServerRecv(c, fresh) ==
  IF c.st = "TRANS" THEN ServerLoop(c, fresh) ELSE Shut(c)

\* The end of the stream ends a body that has no length.
HandleClientClose(c) ==
  CASE c.st = "CONNECTING" -> Shut(NotifyConnect(c, FALSE))
    [] c.st = "TRANS" /\ c.pr.step = "BODY" /\ c.pr.toeof /\ Held(c) -> Shut(Deliver(c))
    [] OTHER -> Shut(c)

HandleServerClose(c) == Shut(c)
HandleListenerClose(c) == Shut(c)

HandleConnect(c, ok) ==
  IF ok THEN NotifyConnect([c EXCEPT !.st = "TRANS"], TRUE)
        ELSE Shut(NotifyConnect(c, FALSE))

HandleAccept(full) == NewConnection("http", "server", "TRANS", Parser0(full))

\* jetnet_http_poll: as in Tcppkg the socket is not the one of the pd, and
\* its socket_r is the padding behind keep_alive, taken not to be
\* SOCKET_R_SERVER.
SeenRole == "none"
Poll(c) == PollLink(c, SeenRole)

Listen == NewConnection("http", "listener", "LISTEN", Parser0(FALSE))

Connect(atonce, full) ==
  NewConnection("http", "client", IF atonce THEN "TRANS" ELSE "CONNECTING",
                Parser0(full))

CanSend(c) == c.role # "listener" /\ c.st = "TRANS"

\* A server's answer links the connection while it is to be kept alive.
Linked(c) == c.linked \/ (c.role = "server" /\ c.pr.keep)

Send(c, k, out) ==
  IF CanSend(c) THEN Write([c EXCEPT !.linked = Linked(c)], k, out) ELSE c

Close(c) == Shut(c)
=============================================================================
