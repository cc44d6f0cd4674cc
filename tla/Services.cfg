SPECIFICATION FairSpec
CONSTANTS
  p1 = p1
  p2 = p2
  Procs = {p1, p2}
  Addr <- MCAddr
  NoOwner = NoOwner
  Idle = Idle
  Bootstrapped = {p2}
  MaxInflight = 1
  MaxFaults = 1
CHECK_DEADLOCK FALSE
INVARIANTS
  HandlersHaveDeps
  ServingIsRegistered
  ListIsCurrent
PROPERTIES
  DeadLeaves
