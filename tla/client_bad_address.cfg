CONSTANTS
    Fields <- mcFields
    Messages <- mcMessages
    Versions <- mcVersions
    IdRange = 2
    MaxWrites = 2
    MaxNet = 2
    Env <- envBadAddress
SPECIFICATION Spec
PROPERTIES NoAutoDialWhenDisabled
CHECK_DEADLOCK FALSE
