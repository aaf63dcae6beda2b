CONSTANTS
    Fields <- mcFields
    Messages <- mcMessages
    Versions <- mcVersions
    IdRange = 3
    MaxWrites = 2
    MaxNet = 5
    Env <- envDisciplined
SPECIFICATION FairSpec
INVARIANTS LifecycleInv ReadyIsUsable NoAbort
PROPERTIES NoAutoDialWhenDisabled CloseIsFinal DestroyIsFinal ImplementsFairSession
CHECK_DEADLOCK FALSE
