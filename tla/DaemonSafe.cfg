\* Two launchers race; two commands, one of them a seek; a crash and a failing accept.
SPECIFICATION Spec
CONSTANTS
  Launchers = {l1, l2}
  Commands = {c1, c2}
  Seeks = {c2}
  NoOne = NoOne
  DaemonTimeout = 1
  MaxCrashes = 1
  MaxFaults = 1
SYMMETRY Symmetry
CHECK_DEADLOCK FALSE
INVARIANTS ServingIsAuthenticated StatusIsTrue NobodyForgotten StartedHasReached DaemonInv
