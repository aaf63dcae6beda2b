CONSTANTS
    Fields <- mcFields
    Messages <- mcMessages
    Versions <- mcVersions
    IdRange = 2
    MaxWrites = 2
    MaxNet = 4
    Env <- envFull
SPECIFICATION FairSpec
INVARIANTS OwnLabel StartOnce
PROPERTIES ReconnectsAfterLoss CloseCompletes DestroyFrees
CHECK_DEADLOCK FALSE
