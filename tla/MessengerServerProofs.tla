------------------------ MODULE MessengerServerProofs ------------------------
(***************************************************************************)
(* Theorems about MessengerServer, for every set of connections, requests  *)
(* and faults.                                                             *)
(***************************************************************************)
EXTENDS MessengerServer, TLAPS

----------------------------------------------------------------------------
(* Type correctness *)

\* The initial state has the types.
LEMMA TypeInit == Init => TypeOK
  BY ConnAssumption, OldUsersAssumption
     DEF Init, TcpInit, DbInit, AccountInit, RelayInit, TypeOK, TcpTypeOK,
         AccountTypeOK, RelayTypeOK, Ids, Points, HandlerPoints, IdleAcceptor,
         NoResponse, Response, Codes, EmptyRelay, Texts, Row

\* What a handler does to pc and resp: it goes on or it answers.
Moves(c) ==
    \/ \E p \in HandlerPoints : Goto(c, p)
    \/ \E code \in Codes, session \in Ids \cup {NoSession} : Respond(c, code, session)

\* The parts of the type invariant that such a step concerns.
MoveTypeOK ==
    /\ pc \in [Conn -> Points]
    /\ resp \in [Conn -> Response]
    /\ \A c \in Conn :
          pc[c] \in HandlerPoints \cup {"queued", "writing", "written"} => req[c] \in Request

\* A handler that goes on or answers keeps the types of pc and resp.
LEMMA MoveType ==
  ASSUME TcpTypeOK, NEW c \in Conn, pc[c] \in HandlerPoints \cup {"queued"},
         Moves(c), UNCHANGED req
  PROVE  MoveTypeOK'
<1>1. CASE \E p \in HandlerPoints : Goto(c, p)
  BY <1>1 DEF TcpTypeOK, MoveTypeOK, Goto, Points
<1>2. CASE \E code \in Codes, session \in Ids \cup {NoSession} : Respond(c, code, session)
  BY <1>2 DEF TcpTypeOK, MoveTypeOK, Respond, Points, Response
<1>3. QED
  BY <1>1, <1>2 DEF Moves

\* A handler that touches nothing else of the server.
LEMMA HandlerType ==
  ASSUME TcpTypeOK, NEW c \in Conn, pc[c] \in HandlerPoints \cup {"queued"},
         Moves(c), OnlyHandler
  PROVE  TcpTypeOK'
  BY MoveType DEF TcpTypeOK, MoveTypeOK, OnlyHandler

\* The steps of the connections keep the types.
LEMMA TypeTcp ==
  ASSUME TypeOK, NEW c \in Conn, TcpStep(c)
  PROVE  TypeOK'
<1> USE ConnAssumption DEF TcpTypeOK, Points, HandlerPoints
<1>1. TcpTypeOK
  BY DEF TypeOK
<1>2. AccountTypeOK' /\ RelayTypeOK'
  BY DEF TypeOK, TcpStep, AccountTypeOK, RelayTypeOK, dbVars, accountVars
<1>3. CASE AcceptStart(c)
  BY <1>1, <1>2, <1>3 DEF TypeOK, AcceptStart
<1>4. CASE AcceptSetID(c)
  BY <1>1, <1>2, <1>4 DEF TypeOK, AcceptSetID, Ids
<1>5. CASE AcceptInsert(c)
  BY <1>1, <1>2, <1>5 DEF TypeOK, AcceptInsert, IdleAcceptor, Ids
<1>6. CASE HelloDone(c)
  BY <1>1, <1>2, <1>6 DEF TypeOK, HelloDone
<1>7. CASE ReadError(c)
  BY <1>1, <1>2, <1>7 DEF TypeOK, ReadError
<1>8. CASE ResponseSent(c)
  BY <1>1, <1>2, <1>8 DEF TypeOK, ResponseSent
<1>9. CASE WriteDone(c)
  BY <1>1, <1>2, <1>9 DEF TypeOK, WriteDone, NoResponse, Response, Codes
<1>10. CASE ClientReads(c)
  BY <1>1, <1>2, <1>10 DEF TypeOK, ClientReads
<1>11. CASE ClientLeaves(c)
  BY <1>1, <1>2, <1>11 DEF TypeOK, ClientLeaves
<1>12. CASE RouterRefuses(c)
  BY <1>1, <1>2, <1>12, HandlerType DEF TypeOK, RouterRefuses, Begin, Moves, Codes
<1>13. CASE FetchUndecryptable(c)
  BY <1>1, <1>2, <1>13, HandlerType DEF TypeOK, FetchUndecryptable, Begin, Moves, Codes
<1>14. CASE \E r \in Requests : RequestRead(c, r)
  BY <1>1, <1>2, <1>14 DEF TypeOK, RequestRead
<1>15. QED
  BY <1>3, <1>4, <1>5, <1>6, <1>7, <1>8, <1>9, <1>10, <1>11, <1>12, <1>13, <1>14 DEF TcpStep

\* The types of the variables of the account routes, and of the others.
AccountStepType(c) ==
    /\ pc[c] \in HandlerPoints \cup {"queued"}
    /\ Moves(c)
    /\ AccountTypeOK'

\* The steps of the account routes keep the types.
LEMMA TypeAccount ==
  ASSUME TypeOK, NEW c \in Conn, AccountStep(c)
  PROVE  TypeOK'
<1> USE DEF TypeOK
<1>1. ASSUME RegBegin(c) \/ LoginBegin(c)  PROVE AccountStepType(c) /\ OnlyHandler
  BY <1>1 DEF AccountStepType, RegBegin, LoginBegin, Begin, ParseFails, ParseSucceeds,
              AccountRouteNames, Moves, HandlerPoints, Codes, AccountTypeOK, TcpTypeOK, dbVars
<1>2. ASSUME RegCheckEmail(c) \/ RegCheckLogin(c)  PROVE AccountStepType(c) /\ OnlyHandler
  BY <1>2 DEF AccountStepType, RegCheckEmail, RegCheckLogin, RegFault, RegRespond, At, Moves,
              HandlerPoints, Codes, AccountTypeOK, dbVars, Ids
<1>3. ASSUME RegInsert(c)  PROVE AccountStepType(c) /\ OnlyHandler
  <2>1. req[c] \in Request /\ userData[c] \in Ids
    BY <1>3 DEF RegInsert, At, TcpTypeOK, AccountTypeOK, HandlerPoints
  <2>2. NewUser(c) \in User
    BY <2>1 DEF NewUser, User, Request, HashPassword, Ids
  <2>3. users' \subseteq User /\ presented' \in [Conn -> SUBSET Logins]
    BY <1>3, <2>1, <2>2 DEF RegInsert, StoreUser, AccountTypeOK, Request
  <2>4. userData' \in [Conn -> Ids]
    BY <1>3 DEF RegInsert, RegRespond, RegFault, AccountTypeOK, Ids
  <2>5. pc[c] \in HandlerPoints /\ Moves(c)
    BY <1>3, <2>1 DEF RegInsert, RegRespond, RegFault, At, Moves, HandlerPoints, Codes
  <2>6. QED
    BY <1>3, <2>3, <2>4, <2>5 DEF AccountStepType, RegInsert, AccountTypeOK
<1>4. ASSUME LoginCheckLogin(c)  PROVE AccountStepType(c) /\ OnlyHandler
  BY <1>4 DEF AccountStepType, LoginCheckLogin, DatabaseFails, At, Moves, HandlerPoints, Codes,
              AccountTypeOK, dbVars, accountVars
<1>5. ASSUME LoginCheckPassword(c)  PROVE AccountStepType(c) /\ OnlyHandler
  <2>1. loginUserID' \in Ids /\ presented' \in [Conn -> SUBSET Logins]
    BY <1>5 DEF LoginCheckPassword, WithLogin, AccountTypeOK, User
  <2>2. pc[c] \in HandlerPoints /\ Moves(c)
    BY <1>5 DEF LoginCheckPassword, DatabaseFails, At, Moves, HandlerPoints, Codes
  <2>3. QED
    BY <1>5, <2>1, <2>2 DEF AccountStepType, LoginCheckPassword, AccountTypeOK, dbVars
<1>6. CASE LoginRekey(c)
  <2>1. MoveTypeOK'
    BY <1>6, MoveType DEF LoginRekey, At, Moves, HandlerPoints, Codes, AccountTypeOK
  <2>2. connections' \in [Ids -> Conn \cup {NoConn}]
    BY <1>6 DEF LoginRekey, Rekeyed, TcpTypeOK
  <2>3. QED
    BY <1>6, <2>1, <2>2
       DEF AccountStep, LoginRekey, TcpTypeOK, MoveTypeOK, AccountTypeOK, RelayTypeOK,
           dbVars, accountVars
<1>7. RelayTypeOK'
  BY DEF AccountStep, AccountNext, RelayTypeOK, RegBegin, RegCheckEmail, RegCheckLogin, RegInsert,
         LoginBegin, LoginCheckLogin, LoginCheckPassword, LoginRekey, dbVars
<1>8. QED
  BY <1>1, <1>2, <1>3, <1>4, <1>5, <1>6, <1>7, HandlerType
     DEF AccountStep, AccountNext, AccountStepType

\* The steps of the relay routes keep the types.
LEMMA TypeRelay ==
  ASSUME TypeOK, NEW c \in Conn, RelayStep(c)
  PROVE  TypeOK'
<1> USE DEF TypeOK
<1>1. AccountTypeOK'
  BY DEF RelayStep, RelayNext, RelayBegin, RelayCheckSender, RelayCheckReceiver, RelayDeliver,
         RelayUnchanged, AccountTypeOK, accountVars
<1>2. pc[c] \in HandlerPoints \cup {"queued"} /\ req[c] \in Request
  BY DEF RelayStep, RelayNext, RelayBegin, RelayCheckSender, RelayCheckReceiver, RelayDeliver,
         Begin, Relaying, At, HandlerPoints, TcpTypeOK
<1>3. Moves(c)
  BY DEF RelayStep, RelayNext, RelayBegin, RelayCheckSender, RelayCheckReceiver, RelayDeliver,
         RelayFault, Moves, HandlerPoints, Codes, RelayTypeOK, Relaying
<1>4. MoveTypeOK'
  BY <1>2, <1>3, MoveType
     DEF RelayStep, RelayNext, RelayBegin, RelayCheckSender, RelayCheckReceiver, RelayDeliver,
         RelayUnchanged
<1>5. CASE RelayBegin(c)
  <2>1. RelayTypeOK'
    BY <1>2, <1>5 DEF RelayBegin, RelayTypeOK, Request, Texts
  <2>2. QED
    BY <1>1, <1>4, <1>5, <2>1 DEF RelayBegin, RelayUnchanged, TcpTypeOK, MoveTypeOK
<1>6. CASE RelayCheckSender(c)
  <2>1. RelayTypeOK'
    <3>1. CASE UNCHANGED relay
      BY <1>6, <3>1 DEF RelayCheckSender, RelayTypeOK
    <3>2. CASE \E u \in users : relay' = [relay EXCEPT ![req[c].route].senderLogin = u.login]
      <4>1. PICK u \in users : relay' = [relay EXCEPT ![req[c].route].senderLogin = u.login]
        BY <3>2
      <4>2. u.login \in Texts(Logins)
        BY DEF AccountTypeOK, User, Texts
      <4>3. QED
        BY <1>6, <4>1, <4>2 DEF RelayCheckSender, RelayTypeOK, Relaying
    <3>3. QED
      BY <1>6, <3>1, <3>2 DEF RelayCheckSender, WithId
  <2>2. QED
    BY <1>1, <1>4, <1>6, <2>1 DEF RelayCheckSender, RelayUnchanged, TcpTypeOK, MoveTypeOK
<1>7. CASE RelayCheckReceiver(c)
  <2>1. RelayTypeOK'
    <3>1. CASE UNCHANGED relay
      BY <1>7, <3>1 DEF RelayCheckReceiver, RelayTypeOK
    <3>2. CASE \E u \in users : relay' = [relay EXCEPT ![req[c].route].receiverID = u.id]
      <4>1. PICK u \in users : relay' = [relay EXCEPT ![req[c].route].receiverID = u.id]
        BY <3>2
      <4>2. u.id \in Ids
        BY DEF AccountTypeOK, User
      <4>3. QED
        BY <1>7, <4>1, <4>2 DEF RelayCheckReceiver, RelayTypeOK, Relaying
    <3>3. QED
      BY <1>7, <3>1, <3>2 DEF RelayCheckReceiver, WithLogin
  <2>2. QED
    BY <1>1, <1>4, <1>7, <2>1 DEF RelayCheckReceiver, RelayUnchanged, TcpTypeOK, MoveTypeOK
<1>8. CASE RelayDeliver(c)
  <2>1. StoredRow(c) \in Row
    BY <1>8 DEF RelayDeliver, StoredRow, MessageType, Row, RelayTypeOK, Relaying
  <2>2. RelayTypeOK'
    BY <1>8, <2>1 DEF RelayDeliver, Push, Store, RelayTypeOK
  <2>3. unread' \in [Conn -> 0 .. SocketRoom]
    <3>1. CASE Push(c)
      <4>1. Receiver(c) \in Conn
        BY <1>8, <3>1 DEF Push, Found, Receiver, TcpTypeOK, RelayTypeOK, RelayDeliver, Relaying
      <4>2. QED
        BY <3>1, <4>1, ConnAssumption DEF Push, TcpTypeOK
    <3>2. CASE Store(c)
      BY <3>2 DEF Store, TcpTypeOK
    <3>3. QED
      BY <1>8, <3>1, <3>2 DEF RelayDeliver
  <2>4. QED
    BY <1>1, <1>4, <1>8, <2>2, <2>3 DEF RelayDeliver, RelayUnchanged, TcpTypeOK, MoveTypeOK
<1>9. QED
  BY <1>5, <1>6, <1>7, <1>8 DEF RelayStep, RelayNext

\* The death of the process and its restart keep the types.
LEMMA TypeProcess ==
  ASSUME TypeOK, ProcessDies \/ Restart
  PROVE  TypeOK'
<1> USE DEF TypeOK
<1>1. CASE ProcessDies
  <2>1. TcpTypeOK'
    <3>1. pc' \in [Conn -> Points] /\ \A c \in Conn : pc'[c] \in {"unaccepted", "closed"}
      BY <1>1 DEF ProcessDies, LoseConnections, Points
    <3>2. NoResponse \in Response
      BY DEF NoResponse, Response, Codes
    <3>3. resp' \in [Conn -> Response] /\ req' \in [Conn -> Request \cup {NoRequest}]
      BY <1>1, <3>2 DEF ProcessDies, LoseConnections
    <3>4. /\ connections' \in [Ids -> Conn \cup {NoConn}]
          /\ unread' \in [Conn -> 0 .. SocketRoom]
          /\ acceptor' \in [step : {"idle", "setID", "insert"}, conn : Conn \cup {NoConn}]
      BY <1>1, ConnAssumption DEF ProcessDies, LoseConnections, IdleAcceptor
    <3>5. QED
      BY <1>1, <3>1, <3>3, <3>4 DEF ProcessDies, LoseConnections, TcpTypeOK, HandlerPoints
  <2>2. AccountTypeOK'
    BY <1>1 DEF ProcessDies, ForgetAccountRoutes, AccountTypeOK, dbVars, Ids
  <2>3. RelayTypeOK'
    BY <1>1 DEF ProcessDies, ForgetRelayRoutes, RelayTypeOK, EmptyRelay, Texts, dbVars, Ids
  <2>4. QED
    BY <2>1, <2>2, <2>3
<1>2. CASE Restart
  BY <1>2 DEF Restart, TcpTypeOK, AccountTypeOK, RelayTypeOK, dbVars, accountVars
<1>3. QED
  BY <1>1, <1>2

\* A step that changes nothing.
LEMMA TypeStutter == TypeOK /\ UNCHANGED vars => TypeOK'
  BY DEF TypeOK, TcpTypeOK, AccountTypeOK, RelayTypeOK, vars, tcpVars, dbVars, accountVars

\* Every step keeps the types.
LEMMA TypeNext == TypeOK /\ [Next]_vars => TypeOK'
  BY TypeTcp, TypeAccount, TypeRelay, TypeProcess, TypeStutter
     DEF Next, Collapse, MayDie, Crash

\* The server keeps the types of its variables.
THEOREM TypeCorrect == Spec => []TypeOK
  BY TypeInit, TypeNext, PTL DEF Spec

----------------------------------------------------------------------------
(* The strand and the accounts *)

\* At most one handler is under way.
OneHandler == \A c, d \in Conn : InHandler(c) /\ InHandler(d) => c = d

\* What the handler of a registration has learned still holds: its two SELECTs
\* and its INSERT are three transactions, but no other handler came between.
Checked ==
    \A c \in Conn :
        /\ pc[c] \in {"regLogin", "regInsert"} => WithEmail(req[c].email) = {}
        /\ pc[c] = "regInsert" => WithLogin(req[c].login) = {}

AccountsInv == TypeOK /\ OneHandler /\ Checked /\ AccountsDistinct

\* How a step changes who is in a handler: nobody enters, or the handler of c
\* goes on or ends, or c enters while the strand is free.
LEMMA StepOfHandlers ==
  ASSUME TypeOK, NEW c \in Conn, TcpStep(c) \/ AccountStep(c) \/ RelayStep(c)
  PROVE  /\ \A d \in Conn \ {c} : pc'[d] = pc[d]
         /\ InHandler(c)' => InHandler(c) \/ \A d \in Conn : ~InHandler(d)
<1> USE DEF TypeOK, TcpTypeOK, InHandler
<1>1. CASE TcpStep(c)
  BY <1>1 DEF TcpStep, AcceptStart, AcceptSetID, AcceptInsert, HelloDone, ReadError, ResponseSent,
              WriteDone, ClientReads, ClientLeaves, RouterRefuses, FetchUndecryptable, RequestRead,
              Respond, HandlerPoints
<1>2. CASE AccountStep(c)
  <2>1. CASE RegBegin(c) \/ LoginBegin(c)
    BY <2>1 DEF RegBegin, LoginBegin, ParseFails, Begin, StrandFree, Goto, Respond, InHandler
  <2>2. CASE ~(RegBegin(c) \/ LoginBegin(c))
    BY <1>2, <2>2
       DEF AccountStep, AccountNext, RegCheckEmail, RegCheckLogin, RegInsert, RegFault, RegRespond,
           LoginCheckLogin, LoginCheckPassword, LoginRekey, DatabaseFails, At, Goto, Respond,
           HandlerPoints
  <2>3. QED
    BY <2>1, <2>2
<1>3. CASE RelayStep(c)
  BY <1>3 DEF RelayStep, RelayNext, RelayBegin, RelayCheckSender, RelayCheckReceiver, RelayDeliver,
              RelayFault, Begin, StrandFree, Relaying, At, Goto, Respond, HandlerPoints
<1>4. QED
  BY <1>1, <1>2, <1>3

\* The strand: no step puts a second handler beside one that runs.
LEMMA OneHandlerNext == TypeOK /\ OneHandler /\ [Next]_vars => OneHandler'
<1> SUFFICES ASSUME TypeOK, OneHandler, [Next]_vars  PROVE OneHandler'
  OBVIOUS
<1>1. ASSUME NEW c \in Conn, TcpStep(c) \/ AccountStep(c) \/ RelayStep(c)
      PROVE  OneHandler'
  BY <1>1, StepOfHandlers DEF OneHandler, InHandler
<1>2. CASE ProcessDies
  BY <1>2 DEF ProcessDies, LoseConnections, OneHandler, InHandler, HandlerPoints
<1>3. CASE Restart \/ UNCHANGED vars
  BY <1>3 DEF Restart, vars, tcpVars, OneHandler, InHandler
<1>4. QED
  BY <1>1, <1>2, <1>3 DEF Next, Collapse, MayDie, Crash

\* The steps that leave the table of users alone.
LEMMA UsersChange ==
  ASSUME NEW c \in Conn, TcpStep(c) \/ AccountStep(c) \/ RelayStep(c), ~RegInsert(c)
  PROVE  users' = users
  BY DEF TcpStep, AccountStep, AccountNext, RelayStep, RelayNext, RegBegin, RegCheckEmail,
         RegCheckLogin, LoginBegin, LoginCheckLogin, LoginCheckPassword, LoginRekey, RelayBegin,
         RelayCheckSender, RelayCheckReceiver, RelayDeliver, RelayUnchanged, dbVars

\* A handler's request stays as it was read until the response is written.
LEMMA RequestKept ==
  ASSUME TypeOK, NEW c \in Conn, TcpStep(c) \/ AccountStep(c) \/ RelayStep(c),
         NEW d \in Conn, InHandler(d) \/ pc[d] = "queued"
  PROVE  req'[d] = req[d]
<1> USE DEF TypeOK, TcpTypeOK, InHandler, HandlerPoints
<1>1. CASE TcpStep(c)
  BY <1>1 DEF TcpStep, AcceptStart, AcceptSetID, AcceptInsert, HelloDone, ReadError, ResponseSent,
              WriteDone, ClientReads, ClientLeaves, RouterRefuses, FetchUndecryptable, RequestRead,
              OnlyHandler
<1>2. CASE AccountStep(c) \/ RelayStep(c)
  BY <1>2 DEF AccountStep, AccountNext, RelayStep, RelayNext, RegBegin, RegCheckEmail,
              RegCheckLogin, RegInsert, LoginBegin, LoginCheckLogin, LoginCheckPassword, LoginRekey,
              RelayBegin, RelayCheckSender, RelayCheckReceiver, RelayDeliver, RelayUnchanged,
              OnlyHandler
<1>3. QED
  BY <1>1, <1>2

\* Registration checks, then inserts, and no two accounts come to share a login
\* or an address.
LEMMA AccountsNext == AccountsInv /\ [Next]_vars => AccountsInv'
<1> SUFFICES ASSUME AccountsInv, [Next]_vars  PROVE AccountsInv'
  OBVIOUS
<1>1. TypeOK' /\ OneHandler'
  BY TypeNext, OneHandlerNext DEF AccountsInv
<1>2. ASSUME NEW c \in Conn, RegInsert(c), AccountStep(c)
      PROVE  Checked' /\ AccountsDistinct'
  <2>1. \A d \in Conn : ~InHandler(d)'
    <3>1. InHandler(c) /\ ~InHandler(c)'
      BY <1>2 DEF RegInsert, RegRespond, RegFault, Respond, At, InHandler, HandlerPoints,
                  AccountsInv, TypeOK, TcpTypeOK
    <3>2. QED
      BY <1>2, <3>1, StepOfHandlers DEF AccountsInv, OneHandler, InHandler
  <2>2. Checked'
    BY <2>1 DEF Checked, InHandler, HandlerPoints
  <2>3. /\ WithEmail(req[c].email) = {}
        /\ WithLogin(req[c].login) = {}
    BY <1>2 DEF RegInsert, At, AccountsInv, Checked
  <2>4. users' = users \cup {NewUser(c)} \/ users' = users
    BY <1>2 DEF RegInsert, StoreUser
  <2>5. AccountsDistinct'
    BY <2>3, <2>4 DEF AccountsDistinct, AccountsInv, NewUser, WithEmail, WithLogin
  <2>6. QED
    BY <2>2, <2>5
<1>3. ASSUME NEW c \in Conn, TcpStep(c) \/ AccountStep(c) \/ RelayStep(c), ~RegInsert(c)
      PROVE  Checked' /\ AccountsDistinct'
  <2>1. users' = users
    BY <1>3, UsersChange
  <2>2. \A d \in Conn \ {c} : pc'[d] = pc[d]
    BY <1>3, StepOfHandlers DEF AccountsInv
  <2>3. \A d \in Conn : InHandler(d) => req'[d] = req[d]
    BY <1>3, RequestKept DEF AccountsInv
  <2>4. ASSUME pc'[c] = "regLogin", pc[c] # "regLogin"
        PROVE  pc[c] = "regEmail" /\ WithEmail(req[c].email) = {}
    BY <1>3, <2>4
       DEF AccountsInv, TypeOK, TcpTypeOK, TcpStep, AcceptStart, AcceptSetID, AcceptInsert,
           HelloDone, ReadError, ResponseSent, WriteDone, ClientReads, ClientLeaves, RouterRefuses,
           FetchUndecryptable, RequestRead, AccountStep, AccountNext, RelayStep, RelayNext,
           RegBegin, RegCheckEmail, RegCheckLogin, LoginBegin, LoginCheckLogin, LoginCheckPassword,
           LoginRekey, ParseFails, RegFault, RegRespond, DatabaseFails, RelayBegin,
           RelayCheckSender, RelayCheckReceiver, RelayDeliver, RelayFault, Goto, Respond, At
  <2>5. ASSUME pc'[c] = "regInsert", pc[c] # "regInsert"
        PROVE  pc[c] = "regLogin" /\ WithLogin(req[c].login) = {}
    BY <1>3, <2>5
       DEF AccountsInv, TypeOK, TcpTypeOK, TcpStep, AcceptStart, AcceptSetID, AcceptInsert,
           HelloDone, ReadError, ResponseSent, WriteDone, ClientReads, ClientLeaves, RouterRefuses,
           FetchUndecryptable, RequestRead, AccountStep, AccountNext, RelayStep, RelayNext,
           RegBegin, RegCheckEmail, RegCheckLogin, LoginBegin, LoginCheckLogin, LoginCheckPassword,
           LoginRekey, ParseFails, RegFault, RegRespond, DatabaseFails, RelayBegin,
           RelayCheckSender, RelayCheckReceiver, RelayDeliver, RelayFault, Goto, Respond, At
  <2>6. AccountsDistinct'
    BY <2>1 DEF AccountsInv, AccountsDistinct
  <2>7. Checked'
    BY <2>1, <2>2, <2>3, <2>4, <2>5
       DEF AccountsInv, Checked, InHandler, HandlerPoints, WithEmail, WithLogin
  <2>8. QED
    BY <2>6, <2>7
<1>4. CASE ProcessDies
  BY <1>1, <1>4 DEF ProcessDies, LoseConnections, Checked, AccountsDistinct, AccountsInv, dbVars
<1>5. CASE Restart \/ UNCHANGED vars
  BY <1>1, <1>5 DEF Restart, vars, tcpVars, dbVars, Checked, AccountsDistinct, AccountsInv,
                    WithEmail, WithLogin
<1>6. ASSUME NEW c \in Conn, TcpStep(c) \/ AccountStep(c) \/ RelayStep(c)
      PROVE  Checked' /\ AccountsDistinct'
  <2>1. RegInsert(c) => AccountStep(c)
    BY <1>6 DEF AccountStep, AccountNext, TcpStep, RelayStep, RelayNext, RegInsert, RelayBegin,
                RelayCheckSender, RelayCheckReceiver, RelayDeliver, Begin, Relaying, At
  <2>2. QED
    BY <1>2, <1>3, <1>6, <2>1
<1>7. QED
  BY <1>1, <1>4, <1>5, <1>6 DEF AccountsInv, Next, Collapse, MayDie, Crash

\* The invariant of the account routes holds when the server starts.
LEMMA AccountsInit == Init => AccountsInv
  BY TypeInit, OldUsersAssumption
     DEF Init, TcpInit, DbInit, AccountsInv, OneHandler, InHandler, HandlerPoints, Checked,
         AccountsDistinct

\* The invariant of the account routes holds throughout.
LEMMA AccountsAlways == Spec => []AccountsInv
  BY AccountsInit, AccountsNext, PTL DEF Spec

\* No two accounts share a login or an address.
THEOREM AccountsStayDistinct == Spec => []AccountsDistinct
  BY AccountsAlways, PTL DEF AccountsInv

----------------------------------------------------------------------------
(* The table of users implements the directory of accounts *)

\* Every step opens one account with a new login and a new address, or none.
LEMMA DirectoryStep == AccountsInv /\ [Next]_vars => [Directory!Next]_users
<1> SUFFICES ASSUME AccountsInv, [Next]_vars  PROVE [Directory!Next]_users
  OBVIOUS
<1>1. ASSUME NEW c \in Conn, RegInsert(c)  PROVE [Directory!Next]_users
  <2>1. /\ WithEmail(req[c].email) = {}
        /\ WithLogin(req[c].login) = {}
    BY <1>1 DEF RegInsert, At, AccountsInv, Checked
  <2>2. NewUser(c) \in User
    BY <1>1 DEF RegInsert, At, AccountsInv, TypeOK, TcpTypeOK, AccountTypeOK, HandlerPoints,
                NewUser, User, Request, HashPassword, Ids
  <2>3. CASE users' = users
    BY <2>3
  <2>4. CASE users' = users \cup {NewUser(c)}
    BY <2>1, <2>2, <2>4
       DEF Directory!Next, Directory!Open, NewUser, WithEmail, WithLogin
  <2>5. QED
    BY <1>1, <2>3, <2>4 DEF RegInsert, StoreUser
<1>2. ASSUME NEW c \in Conn, TcpStep(c) \/ AccountStep(c) \/ RelayStep(c)
      PROVE  [Directory!Next]_users
  BY <1>1, <1>2, UsersChange
<1>3. CASE ProcessDies \/ Restart \/ UNCHANGED vars
  BY <1>3 DEF ProcessDies, Restart, vars, dbVars
<1>4. QED
  BY <1>2, <1>3 DEF Next, Collapse, MayDie, Crash

\* The server, with its crashes, restarts and commits in doubt, implements the
\* directory of accounts.
THEOREM DirectoryImplemented == Spec => DirectoryKept
<1>1. Init => Directory!Init
  BY DEF Init, DbInit, Directory!Init
<1>2. QED
  BY <1>1, AccountsAlways, DirectoryStep, PTL DEF Spec, DirectoryKept, Directory!Spec

----------------------------------------------------------------------------
(* Routing *)

\* An account opened on a connection has that connection's id, or none.
OwnIds ==
    \A c \in Conn : connID[c] \in {c, NoId} /\ userData[c] \in {c, NoId}

\* The connection whose id an account has was the one that registered it.
Registrars == \A u \in users : u.id \in Conn => u.login \in presented[u.id]

\* An entry leads to the connection whose id is its key, or to one that gave the
\* password of an account with that id.
EntriesEarned ==
    \A i \in Ids :
        connections[i] \in Conn \ {i}
            => \E u \in WithId(i) : u.login \in presented[connections[i]]

\* The handler that is about to change the registry has checked the password of
\* an account whose id Login::userID still holds.
RekeyEarned ==
    \A c \in Conn :
        pc[c] = "loginRekey" => \E u \in WithId(loginUserID) : u.login \in presented[c]

RoutingInv ==
    TypeOK /\ OneHandler /\ OwnIds /\ Registrars /\ EntriesEarned /\ RekeyEarned

\* The invariant of the registry implies what the run checks.
LEMMA RoutingImplies == RoutingInv => RoutedToOwner
<1> SUFFICES ASSUME RoutingInv, NEW u \in users, WithId(u.id) = {u}, connections[u.id] # NoConn
             PROVE  u.login \in presented[connections[u.id]]
  BY DEF RoutedToOwner
<1>1. u.id \in Ids /\ connections[u.id] \in Conn
  BY DEF RoutingInv, TypeOK, TcpTypeOK, AccountTypeOK, User
<1>2. CASE connections[u.id] = u.id
  BY <1>1, <1>2 DEF RoutingInv, Registrars
<1>3. CASE connections[u.id] # u.id
  BY <1>1, <1>3 DEF RoutingInv, EntriesEarned
<1>4. QED
  BY <1>2, <1>3

\* The invariant of the registry holds when the server starts: no entry, no id.
LEMMA RoutingInit == Init => RoutingInv
  BY TypeInit, ConnAssumption, OldUsersAssumption
     DEF Init, TcpInit, DbInit, AccountInit, RoutingInv, OneHandler, InHandler, HandlerPoints,
         OwnIds, Registrars, EntriesEarned, RekeyEarned

\* The table and the logins a connection presented only grow.
LEMMA Growth ==
  ASSUME TypeOK, NEW c \in Conn, TcpStep(c) \/ AccountStep(c) \/ RelayStep(c)
  PROVE  users \subseteq users' /\ \A d \in Conn : presented[d] \subseteq presented'[d]
<1>1. CASE RegInsert(c)
  BY <1>1 DEF RegInsert, StoreUser, TypeOK, AccountTypeOK
<1>2. CASE ~RegInsert(c)
  <2>1. users' = users
    BY <1>2, UsersChange
  <2>2. \A d \in Conn : presented[d] \subseteq presented'[d]
    BY <1>2 DEF TypeOK, AccountTypeOK, TcpStep, AccountStep, AccountNext, RelayStep, RegBegin,
                RegCheckEmail, RegCheckLogin, LoginBegin, LoginCheckLogin, LoginCheckPassword,
                LoginRekey, accountVars
  <2>3. QED
    BY <2>1, <2>2
<1>3. QED
  BY <1>1, <1>2

\* The steps that touch neither the registry nor what it rests on.
Unrouted ==
    UNCHANGED <<connections, connID, users, presented, loginUserID>>

\* A step that touches neither the registry nor the accounts, puts no login
\* before its last step and keeps userData keeps the invariant of the registry.
LEMMA UnroutedStep ==
  ASSUME RoutingInv, Unrouted,
         \A d \in Conn : pc'[d] = "loginRekey" => pc[d] = "loginRekey",
         \A d \in Conn : userData'[d] \in {userData[d], connID[d], NoId}
  PROVE  OwnIds' /\ Registrars' /\ EntriesEarned' /\ RekeyEarned'
  BY DEF RoutingInv, Unrouted, OwnIds, Registrars, EntriesEarned, RekeyEarned, WithId

\* The accept handler and the connections keep the invariant of the registry.
LEMMA RoutingTcp ==
  ASSUME RoutingInv, NEW c \in Conn, TcpStep(c)
  PROVE  OwnIds' /\ Registrars' /\ EntriesEarned' /\ RekeyEarned'
<1>1. /\ UNCHANGED <<users, presented, loginUserID, userData>>
      /\ \A d \in Conn : pc'[d] = "loginRekey" => pc[d] = "loginRekey"
  BY DEF RoutingInv, TypeOK, TcpTypeOK, TcpStep, AcceptStart, AcceptSetID, AcceptInsert, HelloDone,
         ReadError, ResponseSent, WriteDone, ClientReads, ClientLeaves, RouterRefuses,
         FetchUndecryptable, RequestRead, Respond, dbVars, accountVars
<1>2. CASE AcceptSetID(c)
  BY <1>1, <1>2 DEF AcceptSetID, RoutingInv, TypeOK, TcpTypeOK, OwnIds, Registrars, EntriesEarned,
                    RekeyEarned, WithId
<1>3. CASE AcceptInsert(c)
  BY <1>1, <1>3 DEF AcceptInsert, RoutingInv, TypeOK, TcpTypeOK, OwnIds, Registrars, EntriesEarned,
                    RekeyEarned, WithId, Ids
<1>4. CASE ~AcceptSetID(c) /\ ~AcceptInsert(c)
  <2>1. UNCHANGED <<connections, connID>>
    BY <1>4 DEF TcpStep, AcceptStart, HelloDone, ReadError, ResponseSent, WriteDone, ClientReads,
                ClientLeaves, RouterRefuses, FetchUndecryptable, RequestRead, OnlyHandler
  <2>2. QED
    BY <1>1, <2>1, UnroutedStep DEF Unrouted
<1>5. QED
  BY <1>2, <1>3, <1>4

\* So do registrations and logins, which write accounts and entries.
LEMMA RoutingAccount ==
  ASSUME RoutingInv, NEW c \in Conn, AccountStep(c)
  PROVE  OwnIds' /\ Registrars' /\ EntriesEarned' /\ RekeyEarned'
<1> USE DEF RoutingInv
<1>1. /\ users \subseteq users'
      /\ \A d \in Conn : presented[d] \subseteq presented'[d]
      /\ \A d \in Conn \ {c} : pc'[d] = pc[d]
  BY Growth, StepOfHandlers
<1>2. CASE RegBegin(c) \/ RegCheckEmail(c) \/ RegCheckLogin(c) \/ LoginBegin(c) \/ LoginCheckLogin(c)
  BY <1>2, UnroutedStep
     DEF Unrouted, RegBegin, RegCheckEmail, RegCheckLogin, RegFault, RegRespond, LoginBegin,
         LoginCheckLogin, DatabaseFails, ParseFails, Goto, Respond, OnlyHandler, dbVars, accountVars,
         TypeOK, TcpTypeOK, AccountTypeOK
<1>3. CASE RegInsert(c)
  <2>1. /\ UNCHANGED <<connections, connID, loginUserID>>
        /\ pc'[c] = "writing"
        /\ \A d \in Conn : userData'[d] \in {userData[d], NoId}
    BY <1>3 DEF RegInsert, RegFault, RegRespond, Respond, OnlyHandler, TypeOK, TcpTypeOK,
                AccountTypeOK
  <2>2. OwnIds'
    BY <2>1 DEF OwnIds
  <2>3. Registrars'
    <3>1. CASE users' = users
      BY <1>1, <3>1 DEF Registrars
    <3>2. CASE StoreUser(c)
      BY <1>1, <3>2, ConnAssumption
         DEF StoreUser, NewUser, Registrars, OwnIds, TypeOK, AccountTypeOK
    <3>3. QED
      BY <1>3, <3>1, <3>2 DEF RegInsert
  <2>4. EntriesEarned' /\ RekeyEarned'
    BY <1>1, <2>1 DEF EntriesEarned, RekeyEarned, WithId, TypeOK, TcpTypeOK
  <2>5. QED
    BY <2>2, <2>3, <2>4
<1>4. CASE LoginCheckPassword(c)
  <2>1. UNCHANGED <<connections, connID, users, userData>>
    BY <1>4 DEF LoginCheckPassword, OnlyHandler, dbVars
  <2>2. OwnIds' /\ Registrars' /\ EntriesEarned'
    BY <1>1, <2>1 DEF OwnIds, Registrars, EntriesEarned, WithId, TypeOK, TcpTypeOK
  <2>3. \A d \in Conn \ {c} : pc'[d] # "loginRekey"
    BY <1>1, <1>4 DEF LoginCheckPassword, At, OneHandler, InHandler, HandlerPoints
  <2>4. pc'[c] = "loginRekey" => \E u \in WithId(loginUserID)' : u.login \in presented'[c]
    BY <1>4 DEF LoginCheckPassword, DatabaseFails, Respond, Goto, WithLogin, WithId, dbVars,
                TypeOK, TcpTypeOK, AccountTypeOK
  <2>5. QED
    BY <2>2, <2>3, <2>4 DEF RekeyEarned
<1>5. CASE LoginRekey(c)
  <2>1. UNCHANGED <<connID, users, presented, loginUserID, userData>> /\ pc'[c] = "writing"
    BY <1>5 DEF LoginRekey, Respond, dbVars, accountVars, TypeOK, TcpTypeOK
  <2>2. \E u \in WithId(loginUserID) : u.login \in presented[c]
    BY <1>5 DEF LoginRekey, At, RekeyEarned
  <2>3. EntriesEarned'
    <3> SUFFICES ASSUME NEW i \in Ids, connections'[i] \in Conn \ {i}
                 PROVE  \E u \in WithId(i) : u.login \in presented[connections'[i]]
      BY <2>1 DEF EntriesEarned, WithId
    <3>1. connections \in [Ids -> Conn \cup {NoConn}] /\ NoConn \notin Conn
      BY ConnAssumption DEF TypeOK, TcpTypeOK
    <3>2. \/ connections' = Rekeyed(c)
          \/ connections' = [connections EXCEPT ![connID[c]] = NoConn]
      BY <1>5 DEF LoginRekey
    <3>3. \/ connections'[i] = connections[i]
          \/ i = loginUserID /\ connections'[i] = c
      BY <3>1, <3>2 DEF Rekeyed
    <3>4. CASE connections'[i] = connections[i]
      BY <3>4 DEF EntriesEarned
    <3>5. CASE i = loginUserID /\ connections'[i] = c
      BY <2>2, <3>5
    <3>6. QED
      BY <3>3, <3>4, <3>5
  <2>4. OwnIds' /\ Registrars' /\ RekeyEarned'
    BY <1>1, <2>1 DEF OwnIds, Registrars, RekeyEarned, WithId
  <2>5. QED
    BY <2>3, <2>4
<1>6. QED
  BY <1>2, <1>3, <1>4, <1>5 DEF AccountStep, AccountNext

\* So do the relay routes, which only read the registry.
LEMMA RoutingRelay ==
  ASSUME RoutingInv, NEW c \in Conn, RelayStep(c)
  PROVE  OwnIds' /\ Registrars' /\ EntriesEarned' /\ RekeyEarned'
  BY UnroutedStep
     DEF RelayStep, RelayNext, RelayBegin, RelayCheckSender, RelayCheckReceiver, RelayDeliver,
         RelayFault, RelayUnchanged, Unrouted, Goto, Respond, accountVars, RoutingInv, TypeOK,
         TcpTypeOK

\* So do the death of the process, which empties the registry, and its restart.
LEMMA RoutingProcess ==
  ASSUME RoutingInv, ProcessDies \/ Restart \/ UNCHANGED vars
  PROVE  OwnIds' /\ Registrars' /\ EntriesEarned' /\ RekeyEarned'
<1> USE DEF RoutingInv, OwnIds, Registrars, EntriesEarned, RekeyEarned, WithId
<1>1. CASE ProcessDies
  BY <1>1, ConnAssumption DEF ProcessDies, LoseConnections, ForgetAccountRoutes, dbVars
<1>2. CASE Restart \/ UNCHANGED vars
  BY <1>2 DEF Restart, vars, tcpVars, dbVars, accountVars
<1>3. QED
  BY <1>1, <1>2

\* Every step keeps the invariant of the registry.
LEMMA RoutingNext == RoutingInv /\ [Next]_vars => RoutingInv'
<1> SUFFICES ASSUME RoutingInv, [Next]_vars  PROVE RoutingInv'
  OBVIOUS
<1>1. TypeOK' /\ OneHandler'
  BY TypeNext, OneHandlerNext DEF RoutingInv
<1>2. OwnIds' /\ Registrars' /\ EntriesEarned' /\ RekeyEarned'
  BY RoutingTcp, RoutingAccount, RoutingRelay, RoutingProcess
     DEF Next, Collapse, MayDie, Crash
<1>3. QED
  BY <1>1, <1>2 DEF RoutingInv

\* Frames are routed to connections that proved to be the receiver's.
THEOREM RoutedToOwnerAlways == Spec => []RoutedToOwner
  BY RoutingInit, RoutingNext, RoutingImplies, PTL DEF Spec

\* The ids of the accounts opened in this deployment are those of connections, or none.
Newcomers == \A u \in users \ OldUsers : u.id \in Conn \cup {NoId}

\* A row inserted takes its id from the connection's own copy of it.
LEMMA NewcomersNext == RoutingInv /\ Newcomers /\ [Next]_vars => Newcomers'
<1> SUFFICES ASSUME RoutingInv, Newcomers, [Next]_vars  PROVE Newcomers'
  OBVIOUS
<1>1. CASE \E c \in Conn : TcpStep(c) \/ AccountStep(c) \/ RelayStep(c)
  <2> PICK c \in Conn : TcpStep(c) \/ AccountStep(c) \/ RelayStep(c)
    BY <1>1
  <2>1. CASE RegInsert(c)
    BY <2>1 DEF RegInsert, StoreUser, NewUser, Newcomers, RoutingInv, OwnIds
  <2>2. CASE ~RegInsert(c)
    <3>1. users' = users
      BY <2>2, UsersChange DEF RoutingInv
    <3>2. QED
      BY <3>1 DEF Newcomers
  <2>3. QED
    BY <2>1, <2>2
<1>2. CASE ~\E c \in Conn : TcpStep(c) \/ AccountStep(c) \/ RelayStep(c)
  BY <1>2 DEF Newcomers, Next, Collapse, MayDie, Crash, ProcessDies, Restart, vars, dbVars
<1>3. QED
  BY <1>1, <1>2

\* What is known of the registrars says of every shared id that one client chose both logins.
LEMMA NewcomersShare == RoutingInv /\ Newcomers => IdsOfOneClient
<1> SUFFICES ASSUME RoutingInv, Newcomers, NEW u \in users \ OldUsers, NEW v \in users,
                    u.id = v.id, u.id # NoId
             PROVE  u.id \in Conn /\ {u.login, v.login} \subseteq presented[u.id]
  BY DEF IdsOfOneClient
<1>1. u.id \in Conn
  BY DEF Newcomers
<1>2. QED
  BY <1>1 DEF RoutingInv, Registrars

\* Two users never get one id by chance of the order in which the accept handler, the two
\* look-ups and the inserts of their registrations run.
THEOREM IdsStayWithClient == Spec => []IdsOfOneClient
<1>1. Init => RoutingInv /\ Newcomers
  BY RoutingInit DEF Init, DbInit, Newcomers
<1>2. RoutingInv /\ Newcomers /\ [Next]_vars => (RoutingInv /\ Newcomers)'
  BY RoutingNext, NewcomersNext
<1>3. QED
  BY <1>1, <1>2, NewcomersShare, PTL DEF Spec
=============================================================================
