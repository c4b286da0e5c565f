\* Two launchers: one daemon removes the other's socket file.
SPECIFICATION Spec
CONSTANTS
  Launchers = {l1, l2}
  Commands = {c1}
  Seeks = {}
  NoOne = NoOne
  DaemonTimeout = 1
  MaxCrashes = 0
  MaxFaults = 0
CHECK_DEADLOCK FALSE
PROPERTY MissingFileMeansNoDaemon
