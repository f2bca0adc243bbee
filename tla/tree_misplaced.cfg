SPECIFICATION TreeSpec
CONSTANTS
    Script <- AufsScript
    Users = {}
    MaxDentry = 9
    SerialisedLookup = FALSE
    DefaultFopsOpen = TRUE
INVARIANT FilesInTheirFolder
\* The model stops when the super block has been killed or aufs_init has died.
CHECK_DEADLOCK FALSE
