SPECIFICATION Spec
CONSTANTS
    User = {ann, bob}
    Nothing = Nothing
    NoResponse = NoResponse
    MaxPairs = 3
    MaxOutbox = 1
    MaxInbox = 2
    MaxRefusals = 0
    MaxStops = 2
SYMMETRY Symmetry
INVARIANTS TypeOK KeysFollow ShownAlmostAll LocksWereTold
PROPERTIES TakesTurns StuckForGood KeysMoveOn
CHECK_DEADLOCK FALSE
