\* One stream, two state changes, one change of volume or failing mpv property.
SPECIFICATION FairSpec
CONSTANTS
  s1 = s1
  Streams <- OneStream
  FirstVolume = 50
  Volumes <- SmallVolumes
  Timed = TRUE
  MaxChanges = 2
  MaxDisturbances = 1
  MaxWire = 1
CHECK_DEADLOCK FALSE
INVARIANTS CopyLagsByOne ReportedWasActual SafetyInv ClientKnowsStateUnlessFault ClientKnowsVolume
PROPERTIES FeedSpec ConvergesUnlessFault Terminates
