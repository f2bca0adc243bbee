SPECIFICATION TreeSpec
CONSTANTS
    Script <- ShortScript
    Users = {u1, u2}
    MaxDentry = 6
    SerialisedLookup = FALSE
    DefaultFopsOpen = TRUE
SYMMETRY MCSymmetry
INVARIANTS TreeTypeOK RefsAccounted NoDanglingDentry InNoOtherFolder NlinkCounts
PROPERTIES CreatedStays OpensGetAufsOps
\* The model stops when the super block has been killed or aufs_init has died.
CHECK_DEADLOCK FALSE
