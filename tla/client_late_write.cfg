CONSTANTS
    Fields <- mcFields
    Messages <- mcMessages
    Versions <- mcVersions
    IdRange = 2
    MaxWrites = 2
    MaxNet = 4
    Env <- envLateWrite
SPECIFICATION Spec
INVARIANTS ReadyIsUsable
CHECK_DEADLOCK FALSE
