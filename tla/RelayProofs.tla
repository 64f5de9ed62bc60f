----------------------------- MODULE RelayProofs -----------------------------
(***************************************************************************)
(* Theorems about what the handlers of MessengerServer keep in members of  *)
(* the route objects, which the requests of all connections share, and     *)
(* about the rows that the relay routes store.                             *)
(***************************************************************************)
EXTENDS MessengerServerProofs

RelayPoints == {"relaySender", "relayReceiver", "relayDeliver"}

\* Only the relay routes have these points.
OnRoute == \A c \in Conn : pc[c] \in RelayPoints => req[c].route \in RelayRouteNames

\* A frame that is about to be delivered is not to its own sender.
Apart ==
    \A c \in Conn :
        pc[c] = "relayDeliver" =>
            relay[req[c].route].senderLogin # relay[req[c].route].receiverLogin

SharedInv == RoutingInv /\ OnRoute /\ Apart /\ NoCrossTalk

----------------------------------------------------------------------------
(* The parts of NoCrossTalk and of what it needs, for one connection *)

AccountPart(c) ==
    /\ InAccountHandler(c) => ~leftover[req[c].route]
    /\ pc[c] = "loginRekey" =>
           \E u \in users : /\ u.id = loginUserID
                           /\ u.login = req[c].login
                           /\ PasswordsEqual(req[c].password, u.password)

RelayPart(c) ==
    /\ pc[c] \in RelayPoints =>
           LET m == relay[req[c].route]
           IN  /\ req[c].route \in RelayRouteNames
               /\ m.senderID = req[c].sender
               /\ m.receiverLogin = req[c].login
               /\ m.key = req[c].key
    /\ pc[c] \in {"relayReceiver", "relayDeliver"} =>
           \E u \in users : /\ u.id = relay[req[c].route].senderID
                           /\ u.login = relay[req[c].route].senderLogin
    /\ pc[c] = "relayDeliver" =>
           /\ \E u \in users : /\ u.id = relay[req[c].route].receiverID
                               /\ u.login = req[c].login
           /\ relay[req[c].route].senderLogin # relay[req[c].route].receiverLogin

AnswerPart(c) ==
    (pc[c] = "writing" /\ resp[c].code = "OK") =>
        \E u \in users : /\ u.id = resp[c].session
                        /\ req[c].route \in AccountRouteNames => u.login = req[c].login

Parts(c) == AccountPart(c) /\ RelayPart(c) /\ AnswerPart(c)

\* The invariant, connection by connection.
LEMMA SharedParts == SharedInv <=> RoutingInv /\ \A c \in Conn : Parts(c)
  BY DEF SharedInv, OnRoute, Apart, NoCrossTalk, RoutingInv, OwnIds, Parts, AccountPart, RelayPart,
         AnswerPart, RelayPoints

\* The same of the next state.
LEMMA SharedPartsNext == SharedInv' <=> (RoutingInv' /\ \A c \in Conn : Parts(c)')
  BY DEF SharedInv, OnRoute, Apart, NoCrossTalk, RoutingInv, OwnIds, Parts, AccountPart, RelayPart,
         AnswerPart, RelayPoints, InAccountHandler

\* While d is in its handler, another connection does not touch what d works on,
\* and nobody but d changes the request and the response of d.
LEMMA Elsewhere ==
  ASSUME SharedInv, NEW c \in Conn, TcpStep(c) \/ AccountStep(c) \/ RelayStep(c),
         NEW d \in Conn \ {c}
  PROVE  /\ pc'[d] = pc[d] /\ resp'[d] = resp[d] /\ req'[d] = req[d]
         /\ InHandler(d) => UNCHANGED <<users, leftover, loginUserID, relay>>
<1> USE DEF SharedInv, RoutingInv, TypeOK, TcpTypeOK
<1>1. pc'[d] = pc[d]
  BY StepOfHandlers
<1>2. CASE TcpStep(c)
  <2>1. UNCHANGED <<users, leftover, loginUserID, relay>>
    BY <1>2 DEF TcpStep, dbVars, accountVars
  <2>2. resp'[d] = resp[d] /\ req'[d] = req[d]
    BY <1>2 DEF TcpStep, AcceptStart, AcceptSetID, AcceptInsert, HelloDone, ReadError,
                ResponseSent, WriteDone, ClientReads, ClientLeaves, RouterRefuses,
                FetchUndecryptable, RequestRead, Respond, OnlyHandler
  <2>3. QED
    BY <1>1, <2>1, <2>2
<1>3. CASE AccountStep(c)
  <2>1. resp'[d] = resp[d] /\ req'[d] = req[d]
    BY <1>3 DEF AccountStep, AccountNext, RegBegin, RegCheckEmail, RegCheckLogin, RegInsert,
                RegFault, RegRespond, LoginBegin, LoginCheckLogin, LoginCheckPassword, LoginRekey,
                ParseFails, DatabaseFails, Goto, Respond, OnlyHandler
  <2>2. ~InHandler(d)
    BY <1>3 DEF AccountStep, AccountNext, RegBegin, RegCheckEmail, RegCheckLogin, RegInsert,
                LoginBegin, LoginCheckLogin, LoginCheckPassword, LoginRekey, Begin, StrandFree, At,
                OneHandler, InHandler, HandlerPoints
  <2>3. QED
    BY <1>1, <2>1, <2>2
<1>4. CASE RelayStep(c)
  <2>1. resp'[d] = resp[d] /\ req'[d] = req[d]
    BY <1>4 DEF RelayStep, RelayNext, RelayBegin, RelayCheckSender, RelayCheckReceiver,
                RelayDeliver, RelayFault, RelayUnchanged, Goto, Respond
  <2>2. ~InHandler(d)
    BY <1>4 DEF RelayStep, RelayNext, RelayBegin, RelayCheckSender, RelayCheckReceiver,
                RelayDeliver, Begin, StrandFree, Relaying, At, OneHandler, InHandler, HandlerPoints
  <2>3. QED
    BY <1>1, <2>1, <2>2
<1>5. QED
  BY <1>2, <1>3, <1>4

\* So the part of d is kept: accounts are only added.
LEMMA ElsewhereParts ==
  ASSUME SharedInv, NEW c \in Conn, TcpStep(c) \/ AccountStep(c) \/ RelayStep(c),
         NEW d \in Conn \ {c}
  PROVE  Parts(d)'
<1>1. Parts(d)
  BY SharedParts
<1>2. users \subseteq users'
  BY Growth DEF SharedInv, RoutingInv
<1>3. /\ pc'[d] = pc[d] /\ resp'[d] = resp[d] /\ req'[d] = req[d]
      /\ InHandler(d) => UNCHANGED <<users, leftover, loginUserID, relay>>
  BY Elsewhere
<1>4. CASE InHandler(d)
  BY <1>1, <1>3, <1>4
     DEF Parts, AccountPart, RelayPart, AnswerPart, InAccountHandler, InHandler, HandlerPoints
<1>5. CASE ~InHandler(d)
  BY <1>1, <1>2, <1>3, <1>5
     DEF Parts, AccountPart, RelayPart, AnswerPart, RelayPoints, InAccountHandler, InHandler,
         HandlerPoints
<1>6. QED
  BY <1>4, <1>5

----------------------------------------------------------------------------
(* Steps of a connection *)

\* Requests and responses on their way, and steps outside every handler.
LEMMA TcpParts ==
  ASSUME SharedInv, NEW c \in Conn, TcpStep(c)
  PROVE  Parts(c)'
<1> USE DEF SharedInv, RoutingInv, TypeOK, TcpTypeOK
<1>1. Parts(c)
  BY SharedParts
<1>2. UNCHANGED <<users, leftover, loginUserID, relay>>
  BY DEF TcpStep, dbVars, accountVars
<1>3. CASE pc'[c] = pc[c] /\ req'[c] = req[c] /\ resp'[c] = resp[c]
  BY <1>1, <1>2, <1>3
     DEF Parts, AccountPart, RelayPart, AnswerPart, RelayPoints, InAccountHandler
<1>4. CASE /\ pc'[c] \notin HandlerPoints
           /\ pc'[c] = "writing" => resp'[c].code # "OK"
  BY <1>4 DEF Parts, AccountPart, RelayPart, AnswerPart, RelayPoints, InAccountHandler,
              HandlerPoints
<1>5. \/ pc'[c] = pc[c] /\ req'[c] = req[c] /\ resp'[c] = resp[c]
      \/ /\ pc'[c] \notin HandlerPoints
         /\ pc'[c] = "writing" => resp'[c].code # "OK"
  BY DEF TcpStep, AcceptStart, AcceptSetID, AcceptInsert, HelloDone, ReadError, ResponseSent,
         WriteDone, ClientReads, ClientLeaves, RouterRefuses, FetchUndecryptable, RequestRead,
         Respond, OnlyHandler, HandlerPoints
<1>6. QED
  BY <1>3, <1>4, <1>5

\* Registration and login: the text left over is asked for before the first
\* SELECT, and the id the password was found under is the one answered with.
LEMMA AccountParts ==
  ASSUME SharedInv, NEW c \in Conn, AccountStep(c)
  PROVE  Parts(c)'
<1> USE DEF SharedInv, RoutingInv, TypeOK, TcpTypeOK, AccountTypeOK, OnlyHandler, At, Goto, Respond
<1> DEFINE Refused == pc'[c] = "writing" /\ resp'[c].code # "OK"
<1>1. Parts(c)
  BY SharedParts
<1>2. ASSUME Refused  PROVE Parts(c)'
  BY <1>2 DEF Parts, AccountPart, RelayPart, AnswerPart, RelayPoints, InAccountHandler
<1>3. CASE RegBegin(c)
  <2>1. \/ Refused
        \/ pc'[c] = "regEmail" /\ req'[c] = req[c] /\ ~leftover'[req[c].route]
    BY <1>3 DEF RegBegin, Begin, ParseFails, ParseSucceeds
  <2>2. QED
    BY <1>2, <2>1 DEF Parts, AccountPart, RelayPart, AnswerPart, RelayPoints
<1>4. CASE RegCheckEmail(c) \/ RegCheckLogin(c)
  <2>1. \/ Refused
        \/ pc'[c] \in {"regLogin", "regInsert"} /\ req'[c] = req[c] /\ leftover' = leftover
    BY <1>4 DEF RegCheckEmail, RegCheckLogin, RegFault, RegRespond, accountVars
  <2>2. ~leftover[req[c].route]
    BY <1>1, <1>4 DEF RegCheckEmail, RegCheckLogin, Parts, AccountPart, InAccountHandler
  <2>3. QED
    BY <1>2, <2>1, <2>2 DEF Parts, AccountPart, RelayPart, AnswerPart, RelayPoints
<1>5. CASE RegInsert(c)
  <2>1. \/ Refused
        \/ /\ pc'[c] = "writing" /\ req'[c] = req[c]
           /\ users' = users \cup {NewUser(c)}
           /\ resp'[c].session = userData[c]
    BY <1>5 DEF RegInsert, RegFault, RegRespond, StoreUser
  <2>2. NewUser(c).id = userData[c] /\ NewUser(c).login = req[c].login
    BY DEF NewUser
  <2>3. QED
    BY <1>2, <2>1, <2>2 DEF Parts, AccountPart, RelayPart, AnswerPart, RelayPoints, InAccountHandler
<1>6. CASE LoginBegin(c)
  <2>1. \/ Refused
        \/ pc'[c] = "loginLogin" /\ req'[c] = req[c] /\ ~leftover'[req[c].route]
    BY <1>6 DEF LoginBegin, Begin, ParseFails, ParseSucceeds
  <2>2. QED
    BY <1>2, <2>1 DEF Parts, AccountPart, RelayPart, AnswerPart, RelayPoints
<1>7. CASE LoginCheckLogin(c)
  <2>1. \/ Refused
        \/ pc'[c] = "loginPassword" /\ req'[c] = req[c] /\ leftover' = leftover
    BY <1>7 DEF LoginCheckLogin, DatabaseFails, accountVars
  <2>2. ~leftover[req[c].route]
    BY <1>1, <1>7 DEF LoginCheckLogin, Parts, AccountPart, InAccountHandler
  <2>3. QED
    BY <1>2, <2>1, <2>2 DEF Parts, AccountPart, RelayPart, AnswerPart, RelayPoints
<1>8. CASE LoginCheckPassword(c)
  <2>1. \/ Refused
        \/ /\ pc'[c] = "loginRekey" /\ req'[c] = req[c] /\ leftover' = leftover
           /\ users' = users
           /\ \E u \in users : /\ loginUserID' = u.id
                              /\ u.login = req[c].login
                              /\ PasswordsEqual(req[c].password, u.password)
    BY <1>8 DEF LoginCheckPassword, DatabaseFails, WithLogin, dbVars
  <2>2. ~leftover[req[c].route]
    BY <1>1, <1>8 DEF LoginCheckPassword, Parts, AccountPart, InAccountHandler
  <2>3. ASSUME ~Refused  PROVE AccountPart(c)'
    BY <2>1, <2>2, <2>3 DEF AccountPart, PasswordsEqual, HashPassword
  <2>4. QED
    BY <1>2, <2>1, <2>3 DEF Parts, RelayPart, AnswerPart, RelayPoints
<1>9. CASE LoginRekey(c)
  <2>1. pc'[c] = "writing" /\ req'[c] = req[c] /\ users' = users /\ resp'[c].session = loginUserID
    BY <1>9 DEF LoginRekey, dbVars
  <2>2. \E u \in users : u.id = loginUserID /\ u.login = req[c].login
    BY <1>1, <1>9 DEF LoginRekey, Parts, AccountPart
  <2>3. QED
    BY <2>1, <2>2 DEF Parts, AccountPart, RelayPart, AnswerPart, RelayPoints, InAccountHandler
<1>10. QED
  BY <1>3, <1>4, <1>5, <1>6, <1>7, <1>8, <1>9 DEF AccountStep, AccountNext

\* The relay routes: each call to the database fills in one more member, and the
\* two users are compared before the frame is delivered.
LEMMA RelayParts ==
  ASSUME SharedInv, NEW c \in Conn, RelayStep(c)
  PROVE  Parts(c)'
<1> USE DEF SharedInv, RoutingInv, TypeOK, TcpTypeOK, RelayTypeOK, At, Goto, Respond
<1> DEFINE Refused == pc'[c] = "writing" /\ resp'[c].code # "OK"
           route == req[c].route
<1>1. Parts(c)
  BY SharedParts
<1>2. users' = users /\ req' = req
  BY DEF RelayStep, RelayNext, RelayBegin, RelayCheckSender, RelayCheckReceiver, RelayDeliver,
         RelayUnchanged
<1>3. ASSUME Refused  PROVE Parts(c)'
  BY <1>3 DEF Parts, AccountPart, RelayPart, AnswerPart, RelayPoints, InAccountHandler
<1>4. CASE RelayBegin(c)
  <2>1. \/ Refused
        \/ /\ pc'[c] = "relaySender"
           /\ route \in RelayRouteNames
           /\ relay'[route].senderID = req[c].sender
           /\ relay'[route].receiverLogin = req[c].login
           /\ relay'[route].key = req[c].key
    BY <1>4 DEF RelayBegin, Begin
  <2>2. QED
    BY <1>2, <1>3, <2>1 DEF Parts, AccountPart, RelayPart, AnswerPart, InAccountHandler
<1>5. CASE RelayCheckSender(c)
  <2>1. /\ route \in RelayRouteNames
        /\ relay[route].senderID = req[c].sender
        /\ relay[route].receiverLogin = req[c].login
        /\ relay[route].key = req[c].key
    BY <1>1, <1>5 DEF RelayCheckSender, Relaying, Parts, RelayPart, RelayPoints
  <2>2. \/ RelayFault(c) \/ Respond(c, "WRONG_USER_ID", NoSession)
        \/ \E u \in WithId(relay[route].senderID) :
               /\ relay' = [relay EXCEPT ![route].senderLogin = u.login]
               /\ Goto(c, "relayReceiver")
    BY <1>5, Zenon DEF RelayCheckSender
  <2>3. CASE RelayFault(c) \/ Respond(c, "WRONG_USER_ID", NoSession)
    BY <1>3, <2>3 DEF RelayFault
  <2>4. ASSUME NEW u \in WithId(relay[route].senderID),
               relay' = [relay EXCEPT ![route].senderLogin = u.login],
               Goto(c, "relayReceiver")
        PROVE  Parts(c)'
    <3>1. /\ relay'[route].senderLogin = u.login
          /\ relay'[route].senderID = relay[route].senderID
          /\ relay'[route].receiverLogin = relay[route].receiverLogin
          /\ relay'[route].key = relay[route].key
      BY <2>1, <2>4
    <3>2. pc'[c] = "relayReceiver" /\ u \in users /\ u.id = relay[route].senderID
      BY <2>4 DEF WithId
    <3>3. RelayPart(c)'
      BY <1>2, <2>1, <3>1, <3>2 DEF RelayPart, RelayPoints
    <3>4. QED
      BY <3>2, <3>3 DEF Parts, AccountPart, AnswerPart, InAccountHandler
  <2>5. QED
    BY <2>2, <2>3, <2>4, Zenon
<1>6. CASE RelayCheckReceiver(c)
  <2>1. /\ route \in RelayRouteNames
        /\ relay[route].senderID = req[c].sender
        /\ relay[route].receiverLogin = req[c].login
        /\ relay[route].key = req[c].key
        /\ \E u \in users : u.id = relay[route].senderID /\ u.login = relay[route].senderLogin
    BY <1>1, <1>6 DEF RelayCheckReceiver, Relaying, Parts, RelayPart, RelayPoints
  <2>2. \/ RelayFault(c) \/ Respond(c, "WRONG_USER_ID", NoSession)
        \/ \E u \in WithLogin(relay[route].receiverLogin) :
               /\ relay' = [relay EXCEPT ![route].receiverID = u.id]
               /\ IF SameUser(relay'[route])
                  THEN Respond(c, "MESSAGING_WITH_YOURSELF", NoSession)
                  ELSE Goto(c, "relayDeliver")
    BY <1>6, Zenon DEF RelayCheckReceiver
  <2>3. CASE RelayFault(c) \/ Respond(c, "WRONG_USER_ID", NoSession)
    BY <1>3, <2>3 DEF RelayFault
  <2>4. ASSUME NEW u \in WithLogin(relay[route].receiverLogin),
               relay' = [relay EXCEPT ![route].receiverID = u.id],
               IF SameUser(relay'[route])
               THEN Respond(c, "MESSAGING_WITH_YOURSELF", NoSession)
               ELSE Goto(c, "relayDeliver")
        PROVE  Parts(c)'
    <3>1. /\ relay'[route].receiverID = u.id
          /\ relay'[route].senderID = relay[route].senderID
          /\ relay'[route].senderLogin = relay[route].senderLogin
          /\ relay'[route].receiverLogin = relay[route].receiverLogin
          /\ relay'[route].key = relay[route].key
      BY <2>1, <2>4
    <3>2. CASE SameUser(relay'[route])
      BY <1>3, <2>4, <3>2
    <3>3. CASE ~SameUser(relay'[route])
      <4>1. pc'[c] = "relayDeliver" /\ u \in users /\ u.login = relay[route].receiverLogin
        BY <2>4, <3>3 DEF WithLogin
      <4>2. relay'[route].senderLogin # relay'[route].receiverLogin
        BY <3>3 DEF SameUser
      <4>3. RelayPart(c)'
        BY <1>2, <2>1, <3>1, <4>1, <4>2 DEF RelayPart, RelayPoints
      <4>4. QED
        BY <4>1, <4>3 DEF Parts, AccountPart, AnswerPart, InAccountHandler
    <3>4. QED
      BY <3>2, <3>3
  <2>5. QED
    BY <2>2, <2>3, <2>4, Zenon
<1>7. CASE RelayDeliver(c)
  <2>1. pc'[c] = "writing" /\ resp'[c].session = relay[route].senderID
    BY <1>7 DEF RelayDeliver
  <2>2. /\ route \notin AccountRouteNames
        /\ \E u \in users : u.id = relay[route].senderID
    BY <1>1, <1>7 DEF RelayDeliver, Relaying, Parts, RelayPart, RelayPoints, AccountRouteNames,
                      RelayRouteNames
  <2>3. QED
    BY <1>2, <2>1, <2>2 DEF Parts, AccountPart, RelayPart, AnswerPart, RelayPoints, InAccountHandler
<1>8. QED
  BY <1>4, <1>5, <1>6, <1>7 DEF RelayStep, RelayNext

----------------------------------------------------------------------------
(* The invariant *)

\* Nothing is shared yet when the server starts.
LEMMA SharedInit == Init => SharedInv
<1> SUFFICES ASSUME Init  PROVE SharedInv
  OBVIOUS
<1>1. \A c \in Conn : pc[c] = "unaccepted"
  BY DEF Init, TcpInit
<1>2. \A c \in Conn : Parts(c)
  BY <1>1 DEF Parts, AccountPart, RelayPart, AnswerPart, RelayPoints, InAccountHandler
<1>3. QED
  BY <1>2, RoutingInit, SharedParts

\* Every step keeps the invariant of the shared members.
LEMMA SharedNext == SharedInv /\ [Next]_vars => SharedInv'
<1> SUFFICES ASSUME SharedInv, [Next]_vars  PROVE SharedInv'
  OBVIOUS
<1>1. RoutingInv'
  BY RoutingNext DEF SharedInv
<1>2. ASSUME NEW c \in Conn, TcpStep(c) \/ AccountStep(c) \/ RelayStep(c)
      PROVE  \A d \in Conn : Parts(d)'
  BY <1>2, ElsewhereParts, TcpParts, AccountParts, RelayParts
<1>3. CASE ProcessDies
  <2>1. \A c \in Conn : pc'[c] \in {"unaccepted", "closed"}
    BY <1>3 DEF ProcessDies, LoseConnections
  <2>2. QED
    BY <2>1, <1>1, SharedPartsNext
       DEF Parts, AccountPart, RelayPart, AnswerPart, RelayPoints, InAccountHandler
<1>4. CASE Restart \/ UNCHANGED vars
  <2>1. \A c \in Conn : Parts(c)
    BY SharedParts
  <2>2. UNCHANGED <<pc, req, resp, users, leftover, loginUserID, relay>>
    BY <1>4 DEF Restart, vars, tcpVars, dbVars, accountVars
  <2>3. \A c \in Conn : Parts(c)'
    BY <2>1, <2>2 DEF Parts, AccountPart, RelayPart, AnswerPart, InAccountHandler
  <2>4. QED
    BY <1>1, <2>3, SharedPartsNext
<1>5. QED
  BY <1>1, <1>2, <1>3, <1>4, SharedPartsNext DEF Next, Collapse, MayDie, Crash

\* The invariant of the shared members holds throughout.
LEMMA SharedAlways == Spec => []SharedInv
  BY SharedInit, SharedNext, PTL DEF Spec

\* A handler never acts on what another connection's request left in a member
\* that all requests share.
THEOREM NoCrossTalkAlways == Spec => []NoCrossTalk
  BY SharedAlways, PTL DEF SharedInv

----------------------------------------------------------------------------
(* Stored frames *)

\* A frame is stored with the accounts that two calls to the database found.
LEMMA StoredNext == SharedInv /\ StoredForAccounts /\ [Next]_vars => StoredForAccounts'
<1> SUFFICES ASSUME SharedInv, StoredForAccounts, [Next]_vars  PROVE StoredForAccounts'
  OBVIOUS
<1> USE DEF SharedInv, RoutingInv, TypeOK, RelayTypeOK
<1>1. ASSUME users \subseteq users', messages' = messages  PROVE StoredForAccounts'
  BY <1>1 DEF StoredForAccounts, WithLogin
<1>2. ASSUME NEW c \in Conn, RelayDeliver(c)  PROVE StoredForAccounts'
  <2>1. users' = users
    BY <1>2 DEF RelayDeliver, RelayUnchanged
  <2>2. CASE messages' = messages
    BY <1>1, <2>1, <2>2
  <2>3. CASE messages' = Append(messages, StoredRow(c))
    <3>1. Parts(c) /\ pc[c] = "relayDeliver"
      BY <1>2, SharedParts DEF RelayDeliver, Relaying, At
    <3>2. /\ StoredRow(c).sender # StoredRow(c).receiver
          /\ WithLogin(StoredRow(c).sender) # {}
          /\ WithLogin(StoredRow(c).receiver) # {}
      BY <3>1 DEF Parts, RelayPart, RelayPoints, StoredRow, WithLogin
    <3>3. /\ Len(messages') = Len(messages) + 1
          /\ \A i \in 1 .. Len(messages) : messages'[i] = messages[i]
          /\ messages'[Len(messages) + 1] = StoredRow(c)
      <4>1. StoredRow(c) \in Row
        BY <1>2 DEF RelayDeliver, StoredRow, MessageType, Row, Relaying
      <4>2. QED
        BY <2>3, <4>1
    <3>4. QED
      BY <2>1, <3>2, <3>3 DEF StoredForAccounts, WithLogin
  <2>4. QED
    BY <1>2, <2>2, <2>3 DEF RelayDeliver, Push, Store
<1>3. ASSUME NEW c \in Conn, TcpStep(c) \/ AccountStep(c) \/ RelayStep(c), ~RelayDeliver(c)
      PROVE  StoredForAccounts'
  <2>1. messages' = messages
    BY <1>3 DEF TcpStep, AccountStep, AccountNext, RelayStep, RelayNext, RegBegin, RegCheckEmail,
                RegCheckLogin, RegInsert, LoginBegin, LoginCheckLogin, LoginCheckPassword,
                LoginRekey, RelayBegin, RelayCheckSender, RelayCheckReceiver, dbVars
  <2>2. QED
    BY <1>1, <1>3, <2>1, Growth
<1>4. CASE ProcessDies \/ Restart \/ UNCHANGED vars
  BY <1>1, <1>4 DEF ProcessDies, Restart, vars, dbVars
<1>5. QED
  BY <1>2, <1>3, <1>4 DEF Next, Collapse, MayDie, Crash

\* What is stored for later delivery is between two different accounts.
THEOREM StoredForAccountsAlways == Spec => []StoredForAccounts
<1>1. Init => StoredForAccounts
  BY DEF Init, DbInit, StoredForAccounts
<1>2. QED
  BY <1>1, SharedAlways, StoredNext, PTL DEF Spec
=============================================================================
