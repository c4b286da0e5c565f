\* One thread, stopped at once.
SPECIFICATION FairSpec
CONSTANTS
  MaxStarts = 1
  MaxMessages = 0
CHECK_DEADLOCK FALSE
PROPERTY StopReturns
