CONSTANTS
    Fields <- mcFields
    Messages <- mcMessages
    Versions <- mcVersions
    IdRange = 2
    MaxWrites = 2
    MaxNet = 7
    Env <- envCloseInRead
SPECIFICATION Spec
PROPERTIES CloseIsFinal
CHECK_DEADLOCK FALSE
