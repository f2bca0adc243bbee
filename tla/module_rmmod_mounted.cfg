SPECIFICATION Spec
CONSTANTS
    MountPoints = {m1, m2}
    Files = {f1, f2}
    NoMount = NoMount
    MaxGen = 2
    WritersCounted = FALSE
    RmmodWhileMounted = TRUE
    MountDuringExit = FALSE
SYMMETRY MCSymmetry
INVARIANT ExitUnmounts
\* The model may stop: after MaxGen loads nothing has to happen any more.
CHECK_DEADLOCK FALSE
