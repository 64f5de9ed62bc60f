SPECIFICATION Spec
CONSTANTS
    User = {ann, bob}
    NoKey = NoKey
    NoResponse = NoResponse
    MaxPairs = 3
    MaxOutbox = 1
    MaxInbox = 1
    MaxRefusals = 1
    MaxStops = 0
SYMMETRY Symmetry
INVARIANTS ExchangeIsMutual
CHECK_DEADLOCK FALSE
