\* One caller, the first value of "pause" was reported in time.
SPECIFICATION Spec
CONSTANTS
  Callers = {c1}
  FirstReports = {"unpaused"}
  NoPipe = 0
  MaxPlays = 1
  MaxCalls = 2
  MaxFaults = 0
  PipeSize = 1
  ReadAhead = 1
CHECK_DEADLOCK FALSE
INVARIANT StoppedMeansStopped
