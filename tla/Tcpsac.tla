------------------------------- MODULE Tcpsac -------------------------------
(***************************************************************************)
(* The protocol between cells (net/jetnet_tcpsac.c): packages of a header  *)
(* and a body.  A unit of the read buffer is a package's header (part 1)   *)
(* or body (part 2); a header that has come in part is not there yet.      *)
(***************************************************************************)
EXTENDS Connection

Head0 == [step |-> "HEAD"]

Kinds == {"app", "bad"}

\* jetnet_tcpsac_parser: what it returns, and the step it leaves.
Parser(c) ==
  IF c.pr.step = "ERROR" THEN [ret |-> "bad", step |-> "ERROR"]
  ELSE IF c.pr.step = "HEAD" /\ c.rbl = <<>> THEN [ret |-> "more", step |-> "HEAD"]
  ELSE IF c.pr.step = "HEAD" /\ c.rbl[1].kind = "bad"
       THEN [ret |-> "bad", step |-> "ERROR"]
  ELSE IF Len(c.rbl) < 2 THEN [ret |-> "more", step |-> "BODY"]
  ELSE [ret |-> "package", step |-> "HEAD"]

NotifyUnreachable(c) == TellUnreachable(c)
NotifyClose(c) == Tell(c, "CLOSE", 0)
NotifyConnect(c, ok) == Tell(c, IF ok THEN "CONNECT" ELSE "FAIL", 0)
NotifyAccept(c) == Tell(c, "ACCEPT", 0)

\* jetnet_tcpsac_recv_pkg of a whole package.
Package(c) == Consume(Tell(c, "RECV", c.rbl[1].n), 2)

Lost(c) == Shut(NotifyClose(NotifyUnreachable(c)))

\* A turn of the loop of the receive handlers.
RecvTurn(s) ==
  LET p == Parser(s.c)
      parsed == [s.c EXCEPT !.pr.step = p.step]
  IN CASE s.done -> s
       [] ~s.done /\ p.ret = "more" -> [c |-> parsed, done |-> TRUE]
       [] ~s.done /\ p.ret = "bad" -> [c |-> Lost(parsed), done |-> TRUE]
       [] ~s.done /\ p.ret = "package" -> [c |-> Package(parsed), done |-> FALSE]

\* Every turn but the last takes a package from the list.
RecvLoop(c) == Turns(RecvTurn, [c |-> c, done |-> FALSE], Len(c.rbl) + 1).c

HandleClientRecv(c) == IF c.st = "TRANS" THEN RecvLoop(c) ELSE Shut(c)
HandleServerRecv(c) == IF c.st = "TRANS" THEN RecvLoop(c) ELSE Shut(c)

HandleClientClose(c) ==
  CASE c.st = "CONNECTING" -> Shut(NotifyConnect(c, FALSE))
    [] c.st = "TRANS" -> Lost(c)
    [] OTHER -> Shut(c)

HandleServerClose(c) == IF c.st = "TRANS" THEN Lost(c) ELSE Shut(c)

HandleListenerClose(c) == Shut(NotifyClose(c))

HandleConnect(c, ok) ==
  IF ok THEN NotifyConnect([c EXCEPT !.st = "TRANS", !.pr = Head0], TRUE)
        ELSE Shut(NotifyConnect(c, FALSE))

HandleAccept == NotifyAccept(NewConnection("tcpsac", "server", "TRANS", Head0))

Listen == NewConnection("tcpsac", "listener", "LISTEN", Head0)

\* A connect that succeeds at once is told by nothing but the API.
Connect(atonce) ==
  NewConnection("tcpsac", "client", IF atonce THEN "TRANS" ELSE "CONNECTING", Head0)

CanSend(c) == c.role # "listener" /\ c.st = "TRANS"

Send(c, k, out) == IF CanSend(c) THEN Write(c, k, out) ELSE c

Close(c) == Shut(c)
=============================================================================
