\* Three threads one after the other.
SPECIFICATION FairSpec
CONSTANTS
  MaxStarts = 3
  MaxMessages = 2
CHECK_DEADLOCK FALSE
INVARIANTS OneStream SynchronizerInv
PROPERTIES QuietAfterStop StopReturnsUnlessHasty
