CONSTANTS
    Requests <- mcRequests
    Shapes <- mcShapes
    BufSize = 1024
    TagSize = 1024
    ListSize = 4096
    NumLen = 6
SPECIFICATION Spec
INVARIANTS BufferInv FitsIntact InStep
CHECK_DEADLOCK FALSE
