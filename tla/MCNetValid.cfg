SPECIFICATION FairSpec
CONSTANTS
  Proto = {"tcppkg"}
  MaxBody = 1
  MaxConn = 2
  MaxOwn = 1
  MaxUnit = 4
  MaxSend = 1
  MaxAnswer = 1
PROPERTY ValidInTime
