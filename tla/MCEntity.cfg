SPECIFICATION FairSpec
CONSTANTS
  Entity = {e1, e2}
  Peer = {p1, p2}
  MaxMsg = 3
  MaxWait = 2
  MaxSeq = 2
  TimersRun = TRUE
INVARIANTS TypeOK ActiveExact BlockedHasWait OneHolder ToldOnce
PROPERTIES MailboxSpec AckReleases
