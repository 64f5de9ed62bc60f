SPECIFICATION FairSpec
CONSTANTS
    User = {ann}
    NoKey = NoKey
    NoResponse = NoResponse
    MaxPairs = 1
    MaxOutbox = 1
    MaxInbox = 1
    MaxRefusals = 1
    MaxStops = 0
PROPERTY ResponseIsRead
CHECK_DEADLOCK FALSE
