------------------------------- MODULE Tcppkg -------------------------------
(***************************************************************************)
(* The protocol towards clients (net/jetnet_tcppkg.c): packages as in      *)
(* Tcpsac, of the application or of the system.  A client that is          *)
(* connected sends a VALID_REQ and is open when the VALID_ACK comes; a     *)
(* server socket is told of when the VALID_REQ has come and was answered,  *)
(* and is linked in link_list until then.                                  *)
(***************************************************************************)
EXTENDS Connection

Head0 == [step |-> "HEAD"]

\* Application packages, the two commands, a system package that is neither,
\* and a header that does not parse.
Kinds == {"app", "req", "ack", "junk", "bad"}
MessageType(kind) == IF kind = "app" THEN "APP" ELSE "SYS"

Parser(c) ==
  IF c.pr.step = "ERROR" THEN [ret |-> "bad", step |-> "ERROR"]
  ELSE IF c.pr.step = "HEAD" /\ c.rbl = <<>> THEN [ret |-> "more", step |-> "HEAD"]
  ELSE IF c.pr.step = "HEAD" /\ c.rbl[1].kind = "bad"
       THEN [ret |-> "bad", step |-> "ERROR"]
  ELSE IF Len(c.rbl) < 2 THEN [ret |-> "more", step |-> "BODY"]
  ELSE [ret |-> "package", step |-> "HEAD"]

\* jetnet_tcppkg_recv_pkg: a package of the other type is an error.
RecvPkg(c, type) ==
  LET p == Parser(c) IN
  IF p.ret = "package" /\ MessageType(c.rbl[1].kind) # type
  THEN [ret |-> "bad", c |-> Consume([c EXCEPT !.pr.step = "ERROR"], 1)]
  ELSE IF p.ret = "package"
  THEN [ret |-> "package", got |-> c.rbl[1],
        c |-> Consume([c EXCEPT !.pr.step = "HEAD"], 2)]
  ELSE [ret |-> p.ret, c |-> [c EXCEPT !.pr.step = p.step]]

NotifyUnreachable(c) == TellUnreachable(c)
NotifyClose(c) == Tell(c, "CLOSE", 0)
NotifyConnect(c, ok) == Tell(c, IF ok THEN "CONNECT" ELSE "FAIL", 0)
NotifyAccept(c) == Tell(c, "ACCEPT", 0)
Unlink(c) == [c EXCEPT !.linked = FALSE]

Lost(c) == Shut(NotifyClose(NotifyUnreachable(c)))

\* A command has no owner, so its buffer is 0.
SendCommand(c, out) == Write(c, 0, out)

\* A turn of the loop of the receive handlers.  Behind a validation the loop
\* tells of no unreachable package when it meets an error.
RecvTurn(s) ==
  LET p == RecvPkg(s.c, "APP")
      broken == IF s.unreachable THEN Lost(p.c) ELSE Shut(NotifyClose(p.c))
  IN CASE s.done -> s
       [] ~s.done /\ p.ret = "more" -> [s EXCEPT !.c = p.c, !.done = TRUE]
       [] ~s.done /\ p.ret = "bad" -> [s EXCEPT !.c = broken, !.done = TRUE]
       [] ~s.done /\ p.ret = "package" -> [s EXCEPT !.c = Tell(p.c, "RECV", p.got.n)]

\* Every turn but the last takes a package from the list.
RecvLoop(c, unreachable) ==
  Turns(RecvTurn, [c |-> c, unreachable |-> unreachable, done |-> FALSE],
        Len(c.rbl) + 1).c

\* Mutant of AfterValidation: what came with the validation is left there.
AfterValidation_Waits(c) == c

AfterValidation(c) == RecvLoop(c, FALSE)

\* jetnet_tcppkg_unpack_cmd.
Command(u) == IF u.kind \in {"req", "ack"} THEN u.kind ELSE "unknow"

ClientValiding(c) ==
  LET p == RecvPkg(c, "SYS") IN
  CASE p.ret = "more" -> p.c
    [] p.ret = "package" /\ Command(p.got) = "ack" ->
         AfterValidation(NotifyConnect([p.c EXCEPT !.st = "TRANS"], TRUE))
    [] OTHER -> Shut(NotifyConnect(p.c, FALSE))

HandleClientRecv(c) ==
  CASE c.st = "VALIDING" -> ClientValiding(c)
    [] c.st = "TRANS" -> RecvLoop(c, TRUE)
    [] OTHER -> Shut(c)

\* Mutant of HandleClientClose: validation is taken for a server's state.
HandleClientClose_ForgetsValiding(c) ==
  CASE c.st = "CONNECTING" -> Shut(NotifyConnect(c, FALSE))
    [] c.st = "TRANS" -> Lost(c)
    [] OTHER -> Shut(c)

HandleClientClose(c) ==
  CASE c.st \in {"CONNECTING", "VALIDING"} -> Shut(NotifyConnect(c, FALSE))
    [] c.st = "TRANS" -> Lost(c)
    [] OTHER -> Shut(c)

\* Mutant of ServerConnected: any system package will do.
ServerConnected_AnyCommand(c, out) ==
  LET p == RecvPkg(c, "SYS") IN
  CASE p.ret = "more" -> p.c
    [] p.ret = "package" /\ out # "failed" ->
         AfterValidation(
           NotifyAccept([Unlink(SendCommand(p.c, out)) EXCEPT !.st = "TRANS"]))
    [] OTHER -> Shut(Unlink(p.c))

ServerConnected(c, out) ==
  LET p == RecvPkg(c, "SYS") IN
  CASE p.ret = "more" -> p.c
    [] p.ret = "package" /\ Command(p.got) = "req" /\ out # "failed" ->
         AfterValidation(
           NotifyAccept([Unlink(SendCommand(p.c, out)) EXCEPT !.st = "TRANS"]))
    [] OTHER -> Shut(Unlink(p.c))

HandleServerRecv(c, out) ==
  CASE c.st = "CONNECTED" -> ServerConnected(c, out)
    [] c.st = "TRANS" -> RecvLoop(c, TRUE)
    [] OTHER -> Shut(c)

\* Mutant of HandleServerClose: the close is told, the packages are not.
HandleServerClose_DropsPackages(c) ==
  CASE c.st = "CONNECTED" -> Shut(Unlink(c))
    [] c.st = "TRANS" -> Shut(NotifyClose(c))
    [] OTHER -> Shut(c)

HandleServerClose(c) ==
  CASE c.st = "CONNECTED" -> Shut(Unlink(c))
    [] c.st = "TRANS" -> Lost(c)
    [] OTHER -> Shut(c)

HandleListenerClose(c) == Shut(NotifyClose(c))

HandleConnect(c, ok, out) ==
  IF ok /\ out # "failed"
  THEN SendCommand([c EXCEPT !.st = "VALIDING", !.pr = Head0], out)
  ELSE Shut(NotifyConnect(c, FALSE))

HandleAccept ==
  [NewConnection("tcppkg", "server", "CONNECTED", Head0) EXCEPT !.linked = TRUE]

\* jetnet_tcppkg_poll.  The socket it takes from a server_pd is not that
\* socket: ud is a pointer to server_pd, not a part of it.  Its socket_r is
\* the upper half of link_node.prev, an address, and never SOCKET_R_SERVER.
SeenRole == "none"
Poll(c) == PollLink(c, SeenRole)

Listen == NewConnection("tcppkg", "listener", "LISTEN", Head0)

Connect(atonce, out) ==
  LET c == NewConnection("tcppkg", "client", "CONNECTING", Head0) IN
  CASE ~atonce -> c
    [] atonce /\ out # "failed" -> SendCommand([c EXCEPT !.st = "VALIDING"], out)
    [] OTHER -> Shut(c)

CanSend(c) == c.role # "listener" /\ c.st = "TRANS"

Send(c, k, out) == IF CanSend(c) THEN Write(c, k, out) ELSE c

Close(c) == Shut(c)
=============================================================================
