SPECIFICATION Spec
CONSTANTS
    User = {ann, bob}
    Nothing = Nothing
    NoResponse = NoResponse
    MaxPairs = 2
    MaxOutbox = 1
    MaxInbox = 2
    MaxRefusals = 0
    MaxStops = 0
SYMMETRY Symmetry
INVARIANTS MessageIsReadable
CHECK_DEADLOCK FALSE
