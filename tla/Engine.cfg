SPECIFICATION Spec
CONSTANTS
  NoNode = NoNode
  Commands <- MostCommands
  NoReq <- MCNoReq
  Evs <- MCEvs
  Rejected <- MCRejected
  EvCmdEnd <- MCCmdEnd
  Valid <- MCValid
  Books <- MCBooks
  Book0 <- MCBook0
  Apply <- MCApply
  BatchMax = 2
  MailboxSize = 2
  MaxCmds = 3
  StubSpan = 1
  MaxFaults = 2
  Faults = {"stop", "crash", "torn", "io"}
CHECK_DEADLOCK FALSE
INVARIANTS
  ResultsAgree
  EventsHaveCommands
  NothingSkipped
  CompleteAtRest
  BookIsReplay
PROPERTIES
  PublishedInOrder
  ImplementsFeed
