\* Two launchers, one command: whoever has begun comes to an end.
SPECIFICATION FairSpec
CONSTANTS
  Launchers = {l1, l2}
  Commands = {c1}
  Seeks = {}
  NoOne = NoOne
  DaemonTimeout = 1
  MaxCrashes = 1
  MaxFaults = 0
CHECK_DEADLOCK FALSE
PROPERTIES CommandEnds LaunchEnds
