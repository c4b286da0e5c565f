\* Two daemons, three keys, a restart of the server and a fault.
SPECIFICATION FairSpec
CONSTANTS
  Clients = {c1, c2}
  Passphrases = {"old", "new"}
  Keys = {k1, k2, k3}
  NoKey = NoKey
  NoPass = "none"
  NoClient = NoClient
  MaxRestarts = 1
  MaxFaults = 1
CHECK_DEADLOCK FALSE
INVARIANTS AuthorisedKeys SessionLivesWithServer SessionsInv
PROPERTIES DeniedOnlyByRace AttemptEnds
