SPECIFICATION FairSpec
CONSTANTS
  NoNode = NoNode
  Commands <- ValidCommands
  NoReq <- MCNoReq
  Evs <- MCEvs
  Rejected <- MCRejected
  EvCmdEnd <- MCCmdEnd
  Valid <- MCValid
  Books <- MCBooks
  Book0 <- MCBook0
  Apply <- MCApply
  BatchMax = 2
  MailboxSize = 2
  MaxCmds = 1
  StubSpan = 1
  MaxFaults = 0
  Faults = {}
CHECK_DEADLOCK FALSE
PROPERTY AckedIsReported
