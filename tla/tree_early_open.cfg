SPECIFICATION TreeSpec
CONSTANTS
    Script <- AufsScript
    Users = {u1}
    MaxDentry = 10
    SerialisedLookup = FALSE
    DefaultFopsOpen = TRUE
INVARIANT OpenFilesUseAufsOps
\* The model stops when the super block has been killed or aufs_init has died.
CHECK_DEADLOCK FALSE
