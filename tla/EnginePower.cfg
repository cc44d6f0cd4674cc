SPECIFICATION FairSpec
CONSTANTS
  NoNode = NoNode
  Commands <- FewCommands
  NoReq <- MCNoReq
  Evs <- MCEvs
  Rejected <- MCRejected
  EvCmdEnd <- MCCmdEnd
  Valid <- MCValid
  Books <- OneBook
  Book0 <- MCBook0
  Apply <- Accepts
  BatchMax = 2
  MailboxSize = 1
  MaxCmds = 2
  StubSpan = 1
  MaxFaults = 2
  Faults = {"power", "torn"}
CHECK_DEADLOCK FALSE
INVARIANTS
  EventsHaveCommands
PROPERTIES
  LoggedIsAnswered
  BacklogIsPublished
