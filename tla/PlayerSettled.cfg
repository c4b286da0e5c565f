\* Two callers.
SPECIFICATION FairSpec
CONSTANTS
  Callers = {c1, c2}
  FirstReports = {"never", "unpaused"}
  NoPipe = 0
  MaxPlays = 2
  MaxCalls = 1
  MaxFaults = 1
  PipeSize = 1
  ReadAhead = 1
CHECK_DEADLOCK FALSE
INVARIANTS IdleState FileState PlayerInv DescriptorsClosed
PROPERTY StreamEnds
