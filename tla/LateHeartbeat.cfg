SPECIFICATION SessionSpec
CONSTANTS
    NoMessage = NoMessage
    MaxStarts = 1
    MaxLosses = 0
    MaxInFlight = 3
PROPERTIES
    StoppedNodeIsDisconnected
CHECK_DEADLOCK FALSE
