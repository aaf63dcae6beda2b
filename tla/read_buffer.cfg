CONSTANTS
    BufSize = 4
    MAX_REQUEST_MESSAGE_SIZE = 2
    Packets <- mcPackets
    Lives <- mcLives
    Streams <- mcStreams
SPECIFICATION FairReceiveSpec
INVARIANTS BufferInv ExitsOnUnknown InStepWithBytes
PROPERTIES EventsAdvance OnlyLongTokensFail ImplementsFairTokens ImplementsFairEvents
CHECK_DEADLOCK FALSE
