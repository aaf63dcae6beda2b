CONSTANTS
    IntMax = 31
    MS = 2
    Delays <- mcDelays
    MaxReconnects = 9
SPECIFICATION Spec
PROPERTIES DelaysFit BackoffInBounds
CHECK_DEADLOCK FALSE
