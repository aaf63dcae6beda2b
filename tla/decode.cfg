CONSTANTS
    Packets <- mcPackets
    Shapes <- mcShapes
SPECIFICATION Spec
INVARIANTS TypeOK InStep EventIsInitialised FreesAll
CHECK_DEADLOCK FALSE
