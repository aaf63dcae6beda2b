CONSTANTS
    Requests <- mcRequests
    Shapes <- mcShapes
    BufSize = 1024
    TagSize = 1024
    ListSize = 4096
    NumLen = 6
SPECIFICATION Spec
INVARIANTS WlenInBuf
CHECK_DEADLOCK FALSE
