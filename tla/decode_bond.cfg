CONSTANTS
    Packets <- mcPackets
    Shapes <- mcBondShapes
SPECIFICATION Spec
INVARIANT PacketFinished
CHECK_DEADLOCK FALSE
