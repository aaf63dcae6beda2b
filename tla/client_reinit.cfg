CONSTANTS
    Fields <- mcFields
    Messages <- mcMessages
    Versions <- mcVersions
    IdRange = 2
    MaxWrites = 2
    MaxNet = 2
    Env <- envReinit
SPECIFICATION Spec
INVARIANTS NoReinit
CHECK_DEADLOCK FALSE
