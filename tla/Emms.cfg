CONSTANTS
    MaxPlays    = 2
    MaxCommands = 3
    MaxFailures = 1
    MaxDaemons  = 2
SPECIFICATION FairSpec
INVARIANT EmmsInv
INVARIANT TimerInStep
PROPERTY SkipsOnlyWhatEnded
PROPERTY EndIsNoticed
