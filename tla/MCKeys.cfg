SPECIFICATION Spec
CONSTANTS
    User = {ann, bob}
    NoKey = NoKey
    NoResponse = NoResponse
    MaxPairs = 3
    MaxOutbox = 1
    MaxInbox = 2
    MaxRefusals = 1
    MaxStops = 1
SYMMETRY Symmetry
INVARIANTS TypeOK KeysAgree
PROPERTIES HeldKeysAdvance AgreementBlocks OneSidedForGood
CHECK_DEADLOCK FALSE
