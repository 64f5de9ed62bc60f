SPECIFICATION Spec
CONSTANTS
    Conn = {c1, c2}
    OldIds = {annId, bobId}
    OldUsers <- AnnAndBob
    NoConn = NoConn
    NoId = NoId
    NoSession = NoSession
    NoRequest = NoRequest
    annId = annId  bobId = bobId
    ann = ann  bob = bob
    annMail = annMail  bobMail = bobMail
    secret = secret  other = other
    key = key
    Logins = {ann, bob}
    Emails = {annMail, bobMail}
    Passwords = {secret, other}
    Keys = {key}
    Requests <- FrameRequests
    SocketRoom = 1
    DbFaults = {"query"}
    MayCrash = FALSE
    MayLeave = TRUE
    MaxMessages = 1
SYMMETRY Symmetry
INVARIANTS NoCrossTalk StoredForAccounts
CHECK_DEADLOCK FALSE
