SPECIFICATION TreeFairSpec
CONSTANTS
    Script <- TinyScript
    Users = {u1, u2}
    MaxDentry = 5
    SerialisedLookup = TRUE
    DefaultFopsOpen = FALSE
INVARIANT OneDentryPerName
PROPERTIES CreationEnds FileOpsAssigned ImplementsDirectory
\* The model stops when the super block has been killed or aufs_init has died.
CHECK_DEADLOCK FALSE
