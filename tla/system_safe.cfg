SPECIFICATION SystemFairSpec
CONSTANTS
    MountPoints = {m1, m2}
    NoMount = NoMount
    MaxGen = 2
    WritersCounted = TRUE
    RmmodWhileMounted = FALSE
    MountDuringExit = FALSE
    Script <- TinyScript
    Users = {u1}
    Files = {u1}
    MaxDentry = 4
    SerialisedLookup = TRUE
    DefaultFopsOpen = FALSE
INVARIANTS SystemTypeOK TreeRefs UsersStandFirm CreatedIsFound NoUseAfterUnload NoWriterOnReadOnly
PROPERTIES LoadEnds UnloadCompletes ImplementsModule
\* The model may stop: after MaxGen loads nothing has to happen any more.
CHECK_DEADLOCK FALSE
