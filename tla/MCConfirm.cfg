SPECIFICATION FairSpec
CONSTANTS
    User = {ann, bob}
    NoKey = NoKey
    NoResponse = NoResponse
    MaxPairs = 2
    MaxOutbox = 1
    MaxInbox = 1
    MaxRefusals = 1
    MaxStops = 0
PROPERTY ExchangeIsConfirmed
CHECK_DEADLOCK FALSE
