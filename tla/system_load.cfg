SPECIFICATION SystemFairSpec
CONSTANTS
    MountPoints = {m1}
    NoMount = NoMount
    MaxGen = 1
    WritersCounted = FALSE
    RmmodWhileMounted = FALSE
    MountDuringExit = FALSE
    Script <- TinyScript
    Users = {u1}
    Files = {u1}
    MaxDentry = 4
    SerialisedLookup = TRUE
    DefaultFopsOpen = FALSE
PROPERTY LoadDelivers
\* The model may stop: after MaxGen loads nothing has to happen any more.
CHECK_DEADLOCK FALSE
