SPECIFICATION Spec
CONSTANTS
    MountPoints = {m1, m2, m3}
    Files = {f1, f2}
    NoMount = NoMount
    MaxGen = 2
    WritersCounted = FALSE
    RmmodWhileMounted = TRUE
    MountDuringExit = TRUE
SYMMETRY MCSymmetry
INVARIANTS TypeOK ActiveRefs RegisteredIsResident MountSeesTree
PROPERTY ImplementsSuperBlock
\* The model may stop: after MaxGen loads nothing has to happen any more.
CHECK_DEADLOCK FALSE
