---------------------------- MODULE AccountRoutes ----------------------------
(***************************************************************************)
(* server/src/http/Registration and Login.  One object of each serves all  *)
(* connections: decryptedBody and Login::userID are members, shared by all *)
(* requests.  The handlers run on the strand, but every call to the        *)
(* database is a step of its own: the accept handler and the clients act   *)
(* between them.                                                           *)
(***************************************************************************)
EXTENDS TcpServer, Database

VARIABLES
    leftover,     \* per route: decryptedBody holds text no parse has cleared
    userData,     \* the id Registration::parseBody read, per connection
    loginUserID,  \* Login::userID
    presented     \* the logins a connection registered or gave the password of
                  \* (history: no code reads it)

accountVars == <<leftover, userData, loginUserID, presented>>

AccountRouteNames == {"/registration", "/login"}

User == [id : Ids, email : Emails, login : Logins,
         password : [hash : Passwords, salt : Ids]]

ASSUME OldUsersAssumption ==
    /\ OldUsers \subseteq User
    /\ \A u \in OldUsers : u.id \in OldIds
    /\ \A u, v \in OldUsers : u.login = v.login \/ u.email = v.email => u = v

AccountTypeOK ==
    /\ users \subseteq User
    /\ leftover \in [AccountRouteNames -> BOOLEAN]
    /\ userData \in [Conn -> Ids]
    /\ loginUserID \in Ids
    /\ presented \in [Conn -> SUBSET Logins]

AccountInit ==
    /\ leftover = [route \in AccountRouteNames |-> FALSE]
    /\ userData = [c \in Conn |-> NoId]
    /\ loginUserID = NoId
    /\ presented = [c \in Conn |-> {}]

\* Nothing of the server but the handler's own progress changes.
OnlyHandler == UNCHANGED <<up, acceptor, connections, connID, alive, unread, req>>

----------------------------------------------------------------------------
(* Both routes: decryptBody and parseBody *)

\* decrypt appends to decryptedBody, which only a successful json::parse clears:
\* text that is not JSON stays there, in front of all later bodies.
ParseFails(c) ==
    LET route == req[c].route
        body == req[c].body
    IN  \/ /\ body = "garbled"
           /\ Respond(c, "FAILED_TO_DECRYPT_BODY", NoSession)
           /\ UNCHANGED leftover
        \/ /\ body # "garbled"
           /\ body = "malformed" \/ leftover[route]
           /\ Respond(c, "FAILED_TO_PARSE_BODY", NoSession)
           /\ leftover' = [leftover EXCEPT ![route] = TRUE]
        \/ /\ body = "incomplete"
           /\ ~leftover[route]
           /\ Respond(c, "FAILED_TO_PARSE_BODY", NoSession)
           /\ UNCHANGED leftover

ParseSucceeds(c) ==
    /\ req[c].body = "good"
    /\ ~leftover[req[c].route]
    /\ UNCHANGED leftover

DatabaseFails(c) ==
    /\ QueryMayFail
    /\ Respond(c, "DATABASE_NOT_RESPONDING", NoSession)

----------------------------------------------------------------------------
(* Registration::handleRequest *)

\* getID is read here, while the accept handler may not have called setID yet.
RegBegin(c) ==
    /\ Begin(c, "/registration")
    /\ \/ /\ ParseFails(c)
          /\ UNCHANGED userData
       \/ /\ ParseSucceeds(c)
          /\ userData' = [userData EXCEPT ![c] = connID[c]]
          /\ Goto(c, "regEmail")
    /\ OnlyHandler
    /\ UNCHANGED <<dbVars, loginUserID, presented>>

\* The handler returns and its UserRegistrationData goes out of scope.
RegRespond(c, code, session) ==
    /\ Respond(c, code, session)
    /\ userData' = [userData EXCEPT ![c] = NoId]

RegFault(c) ==
    /\ QueryMayFail
    /\ RegRespond(c, "DATABASE_NOT_RESPONDING", NoSession)

RegCheckEmail(c) ==
    /\ At(c, "regEmail")
    /\ \/ RegFault(c)
       \/ /\ WithEmail(req[c].email) # {}
          /\ RegRespond(c, "USER_WITH_EMAIL_EXIST", NoSession)
       \/ /\ WithEmail(req[c].email) = {}
          /\ Goto(c, "regLogin")
          /\ UNCHANGED userData
    /\ OnlyHandler
    /\ UNCHANGED <<dbVars, leftover, loginUserID, presented>>

\* Variant: the result of checkIfLoginExistsInDatabase is not looked at.
RegLoginUnchecked(c) ==
    /\ At(c, "regLogin")
    /\ Goto(c, "regInsert")
    /\ OnlyHandler
    /\ UNCHANGED <<dbVars, accountVars>>

RegCheckLogin(c) ==
    /\ At(c, "regLogin")
    /\ \/ RegFault(c)
       \/ /\ WithLogin(req[c].login) # {}
          /\ RegRespond(c, "USER_WITH_LOGIN_EXIST", NoSession)
       \/ /\ WithLogin(req[c].login) = {}
          /\ Goto(c, "regInsert")
          /\ UNCHANGED userData
    /\ OnlyHandler
    /\ UNCHANGED <<dbVars, leftover, loginUserID, presented>>

NewUser(c) ==
    [id |-> userData[c], email |-> req[c].email, login |-> req[c].login,
     password |-> HashPassword(req[c].password, c)]

StoreUser(c) ==
    /\ users' = users \cup {NewUser(c)}
    /\ presented' = [presented EXCEPT ![c] = @ \cup {req[c].login}]

\* A commit that throws leaves in doubt whether the row is there.
RegInsert(c) ==
    /\ At(c, "regInsert")
    /\ \/ /\ StoreUser(c)
          /\ RegRespond(c, "OK", userData[c])
       \/ /\ RegFault(c)
          /\ StoreUser(c) \/ UNCHANGED <<users, presented>>
    /\ OnlyHandler
    /\ UNCHANGED <<messages, leftover, loginUserID>>

----------------------------------------------------------------------------
(* Login::handleRequest *)

LoginBegin(c) ==
    /\ Begin(c, "/login")
    /\ \/ ParseFails(c)
       \/ ParseSucceeds(c) /\ Goto(c, "loginLogin")
    /\ OnlyHandler
    /\ UNCHANGED <<dbVars, userData, loginUserID, presented>>

LoginCheckLogin(c) ==
    /\ At(c, "loginLogin")
    /\ \/ DatabaseFails(c)
       \/ /\ WithLogin(req[c].login) = {}
          /\ Respond(c, "WRONG_USER_LOGIN", NoSession)
       \/ /\ WithLogin(req[c].login) # {}
          /\ Goto(c, "loginPassword")
    /\ OnlyHandler
    /\ UNCHANGED <<dbVars, accountVars>>

\* Variant: the result of checkIfPasswordExistsInDatabase is not looked at.
LoginPasswordUnchecked(c) ==
    /\ At(c, "loginPassword")
    /\ \E u \in WithLogin(req[c].login) : loginUserID' = u.id
    /\ Goto(c, "loginRekey")
    /\ OnlyHandler
    /\ UNCHANGED <<dbVars, leftover, userData, presented>>

\* userID is set from the row before the password is compared.
LoginCheckPassword(c) ==
    /\ At(c, "loginPassword")
    /\ \/ /\ DatabaseFails(c)
          /\ UNCHANGED <<loginUserID, presented>>
       \/ \E u \in WithLogin(req[c].login) :
              /\ loginUserID' = u.id
              /\ \/ /\ PasswordsEqual(req[c].password, u.password)
                    /\ Goto(c, "loginRekey")
                    /\ presented' = [presented EXCEPT ![c] = @ \cup {u.login}]
                 \/ /\ ~PasswordsEqual(req[c].password, u.password)
                    /\ Respond(c, "WRONG_USER_PASSWORD", NoSession)
                    /\ UNCHANGED presented
    /\ OnlyHandler
    /\ UNCHANGED <<dbVars, leftover, userData>>

\* connections[userID] = clientConnection, then the entry under the connection's
\* own id is erased: when the two ids are one, the erasure wins.
Rekeyed(c) ==
    [connections EXCEPT ![loginUserID] = c, ![connID[c]] = NoConn]

\* Without an entry of its own the handler erases end(): EraseEnd below.  An
\* accept handler at its insertion races: the new entry may be lost.
LoginRekey(c) ==
    /\ At(c, "loginRekey")
    /\ connections[connID[c]] # NoConn
    /\ \/ connections' = Rekeyed(c)
       \/ /\ acceptor.step = "insert"
          /\ connections' = [connections EXCEPT ![connID[c]] = NoConn]
    /\ Respond(c, "OK", loginUserID)
    /\ UNCHANGED <<up, acceptor, connID, alive, unread, req, dbVars, accountVars>>

\* The connection has no entry left: its first login took it away.
EraseEnd(c) ==
    /\ At(c, "loginRekey")
    /\ connections[connID[c]] = NoConn

AccountNext(c) ==
    \/ RegBegin(c) \/ RegCheckEmail(c) \/ RegCheckLogin(c) \/ RegInsert(c)
    \/ LoginBegin(c) \/ LoginCheckLogin(c) \/ LoginCheckPassword(c) \/ LoginRekey(c)

\* A new process starts with new route objects.
ForgetAccountRoutes ==
    /\ leftover' = [route \in AccountRouteNames |-> FALSE]
    /\ userData' = [c \in Conn |-> NoId]
    /\ loginUserID' = NoId
    /\ UNCHANGED presented
=============================================================================
