SPECIFICATION Spec
CONSTANTS
    MountPoints = {m1, m2}
    Files = {f1, f2}
    NoMount = NoMount
    MaxGen = 2
    WritersCounted = FALSE
    RmmodWhileMounted = FALSE
    MountDuringExit = TRUE
SYMMETRY MCSymmetry
INVARIANT NoUseAfterUnload
\* The model may stop: after MaxGen loads nothing has to happen any more.
CHECK_DEADLOCK FALSE
