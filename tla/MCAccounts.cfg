SPECIFICATION Spec
CONSTANTS
    Conn = {c1, c2}
    OldIds = {annId, bobId}
    OldUsers <- Nobody
    NoConn = NoConn
    NoId = NoId
    NoSession = NoSession
    NoRequest = NoRequest
    annId = annId  bobId = bobId
    ann = ann  bob = bob
    annMail = annMail  bobMail = bobMail
    secret = secret  other = other
    key = key
    Logins = {ann, bob}
    Emails = {annMail, bobMail}
    Passwords = {secret, other}
    Keys = {key}
    Requests <- RegistrationRequests
    SocketRoom = 1
    DbFaults = {"query", "connect"}
    MayCrash = TRUE
    MayLeave = FALSE
    MaxMessages = 1
SYMMETRY Symmetry
INVARIANTS TypeOK AccountsDistinct
PROPERTY DirectoryKept
CHECK_DEADLOCK FALSE
