\* Two callers; a number within 0..100, one above, one that is no int.
SPECIFICATION Spec
CONSTANTS
  Callers = {c1, c2}
  Amounts = {30, 150, 300}
  FirstVolume = 50
  MaxInt = 200
  Garbage = {0, 77}
  MaxCalls = 2
  MaxFaults = 1
CHECK_DEADLOCK FALSE
INVARIANTS MeaningfulIsDone VolumeInv
PROPERTY DoneAsAsked
