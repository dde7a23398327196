SPECIFICATION Spec
CONSTANTS
  Proto = {"tcpsac", "tcppkg", "http"}
  MaxBody = 1
  MaxConn = 2
  MaxOwn = 1
  MaxUnit = 6
  MaxSend = 2
  MaxAnswer = 1
INVARIANTS TypeOK Delivered Framed Validated Accounted NoFreedLink
PROPERTY SessionSpec
