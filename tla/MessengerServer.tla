--------------------------- MODULE MessengerServer ---------------------------
(***************************************************************************)
(* The server process: the accept loop and the connections (TcpServer), the*)
(* routes (AccountRoutes, RelayRoutes and the one reachable step of        *)
(* MessageReceiver), the database, the death and the restart of the        *)
(* process.                                                                *)
(***************************************************************************)
EXTENDS AccountRoutes, RelayRoutes

CONSTANTS
    MayCrash,      \* the process may be killed at any point
    MaxMessages    \* bound: no relay request is sent once so many rows are stored

ASSUME ServerAssumption ==
    /\ MayCrash \in BOOLEAN
    /\ MaxMessages \in Nat

vars == <<tcpVars, dbVars, accountVars, relay>>

TypeOK == TcpTypeOK /\ AccountTypeOK /\ RelayTypeOK

Init == TcpInit /\ DbInit /\ AccountInit /\ RelayInit

----------------------------------------------------------------------------
(* Router::handleRequest, and MessageReceiver as far as it can be reached *)

\* A target without a route, and one the router does not look up.
RouterRefuses(c) ==
    /\ \/ Begin(c, "/unknown") /\ Respond(c, "NOT_FOUND", NoSession)
       \/ Begin(c, "/..") /\ Respond(c, "BAD_REQUEST", NoSession)
    /\ OnlyHandler

\* Without a query there is no password to decrypt.
FetchUndecryptable(c) ==
    /\ Begin(c, "/availableMessages")
    /\ Respond(c, "FAILED_TO_DECRYPT_BODY", NoSession)
    /\ OnlyHandler

\* With a query the route is found by its path and looked up by the whole
\* target, which makes a null entry that is dereferenced.
FetchDies(c) == Begin(c, FetchTarget)

\* The result of a target that cannot be parsed has no value: value() throws.
RouterDies(c) == Begin(c, "/%")

----------------------------------------------------------------------------
(* The process *)

DatabasePoints == {"regEmail", "regLogin", "regInsert", "loginLogin",
                   "loginPassword", "relaySender", "relayReceiver"}

\* A connection that could not be opened is dereferenced by getWork.
ConnectDies(c) ==
    /\ ConnectMayFail
    /\ \/ \E p \in DatabasePoints : At(c, p)
       \/ Relaying(c, "relayDeliver") /\ Missed(c)

\* The accept handler inserts while a handler on the strand uses the map.
MapRaceDies(c) ==
    /\ up
    /\ acceptor.step = "insert"
    /\ pc[c] \in {"loginRekey", "relayDeliver"}

ProcessDies ==
    /\ up
    /\ LoseConnections
    /\ ForgetAccountRoutes
    /\ ForgetRelayRoutes
    /\ UNCHANGED dbVars

\* The handler cannot but kill the process, or may do so.
Collapse(c) == (EraseEnd(c) \/ FetchDies(c) \/ RouterDies(c)) /\ ProcessDies
MayDie(c) == (SendDies(c) \/ ConnectDies(c) \/ MapRaceDies(c)) /\ ProcessDies

Crash == MayCrash /\ ProcessDies

\* Someone starts the server again.
Restart ==
    /\ ~up
    /\ up' = TRUE
    /\ UNCHANGED <<acceptor, connections, connID, pc, alive, unread, req, resp,
                   dbVars, accountVars, relay>>

----------------------------------------------------------------------------

\* The steps that leave the database and the route objects alone.
TcpStep(c) ==
    /\ \/ AcceptStart(c) \/ AcceptSetID(c) \/ AcceptInsert(c)
       \/ HelloDone(c) \/ ReadError(c) \/ ResponseSent(c) \/ WriteDone(c)
       \/ ClientReads(c) \/ ClientLeaves(c)
       \/ RouterRefuses(c) \/ FetchUndecryptable(c)
       \/ \E r \in Requests :
              /\ r.route \in RelayRouteNames => Len(messages) < MaxMessages
              /\ RequestRead(c, r)
    /\ UNCHANGED <<dbVars, accountVars, relay>>

AccountStep(c) == AccountNext(c) /\ UNCHANGED relay

RelayStep(c) == RelayNext(c) /\ UNCHANGED accountVars

Next ==
    \/ \E c \in Conn : TcpStep(c) \/ AccountStep(c) \/ RelayStep(c)
    \/ \E c \in Conn : Collapse(c) \/ MayDie(c)
    \/ Crash
    \/ Restart

Spec == Init /\ [][Next]_vars

----------------------------------------------------------------------------
(* Safety *)

\* No two accounts share a login or an e-mail address: each registration makes
\* three database calls, with the accept handler, the clients and crashes in
\* between, and the table is not asked to refuse a duplicate.
AccountsDistinct ==
    \A u, v \in users : u.login = v.login \/ u.email = v.email => u = v

InAccountHandler(c) ==
    pc[c] \in {"regEmail", "regLogin", "regInsert", "loginLogin", "loginPassword", "loginRekey"}

\* A handler goes on with what its own request said and the database answered,
\* although decryptedBody, Login::userID and the members of the relay routes are
\* shared by the requests of all connections.
NoCrossTalk ==
    \A c \in Conn :
        /\ InAccountHandler(c) => ~leftover[req[c].route]
        /\ pc[c] \in {"regEmail", "regLogin", "regInsert"} => userData[c] \in {c, NoId}
        /\ pc[c] = "loginRekey" =>
               \E u \in users : /\ u.id = loginUserID
                               /\ u.login = req[c].login
                               /\ PasswordsEqual(req[c].password, u.password)
        /\ pc[c] \in {"relaySender", "relayReceiver", "relayDeliver"} =>
               LET m == relay[req[c].route]
               IN  /\ m.senderID = req[c].sender
                   /\ m.receiverLogin = req[c].login
                   /\ m.key = req[c].key
        /\ pc[c] \in {"relayReceiver", "relayDeliver"} =>
               \E u \in users : /\ u.id = relay[req[c].route].senderID
                               /\ u.login = relay[req[c].route].senderLogin
        /\ pc[c] = "relayDeliver" =>
               \E u \in users : /\ u.id = relay[req[c].route].receiverID
                               /\ u.login = req[c].login
        /\ (pc[c] = "writing" /\ resp[c].code = "OK") =>
               \E u \in users : /\ u.id = resp[c].session
                               /\ req[c].route \in AccountRouteNames => u.login = req[c].login

\* A frame for a user is pushed to a connection whose client registered that
\* user or gave that user's password, as long as the user's id is the user's
\* alone: the registry is keyed by ids that start as ids of connections, end as
\* ids of users, and outlive the process in the table.
RoutedToOwner ==
    \A u \in users :
        (WithId(u.id) = {u} /\ connections[u.id] # NoConn)
            => u.login \in presented[connections[u.id]]

\* Accounts with one id were opened over one connection, or before the accept handler had set
\* the id, and not by another client: an account keeps the id that its own connection had when
\* the request was parsed, across two look-ups, failed commits and restarts.  Of accounts that
\* earlier processes left nothing is known but that they kept theirs.
IdsOfOneClient ==
    \A u \in users \ OldUsers, v \in users :
        (u # v /\ u.id = v.id /\ u.id # NoId) =>
            u.id \in Conn /\ {u.login, v.login} \subseteq presented[u.id]

\* What is stored for later delivery is between two accounts that exist.
StoredForAccounts ==
    \A i \in 1 .. Len(messages) :
        /\ messages[i].sender # messages[i].receiver
        /\ WithLogin(messages[i].sender) # {}
        /\ WithLogin(messages[i].receiver) # {}

----------------------------------------------------------------------------
(* What the repository says of the server, as properties of its steps *)

\* The handler of c leaves relayDeliver with the answer OK in this step.
RelayAnswered(c) ==
    pc[c] = "relayDeliver" /\ pc'[c] = "writing" /\ resp'[c].code = "OK"

\* Nobody is connected who registered this user or gave the password.
Offline(login) == \A d \in Conn : login \in presented[d] => ~alive[d]

RelayReceiver(c) == relay[req[c].route].receiverLogin

\* "Message send successful!" is said of a frame that was stored or handed to an
\* open socket.
SuccessMeansKept ==
    [][\A c \in Conn : RelayAnswered(c) =>
           Len(messages') > Len(messages) \/ \E d \in Conn : unread'[d] > unread[d]]_vars

\* writeMessageToDatabaseIfReceiverOffline: the frame for a receiver who is
\* offline is stored.
OfflineReceiverIsStored ==
    [][\A c \in Conn : RelayAnswered(c) /\ Offline(RelayReceiver(c)) =>
           Len(messages') > Len(messages)]_vars

----------------------------------------------------------------------------
(* Liveness *)

\* The steps that wait for the strand.
StrandStep(c) ==
    \/ HelloDone(c) /\ UNCHANGED <<dbVars, accountVars, relay>>
    \/ ReadError(c) /\ UNCHANGED <<dbVars, accountVars, relay>>
    \/ WriteDone(c) /\ UNCHANGED <<dbVars, accountVars, relay>>
    \/ (RouterRefuses(c) \/ FetchUndecryptable(c)) /\ UNCHANGED <<dbVars, accountVars, relay>>
    \/ (RegBegin(c) \/ LoginBegin(c)) /\ UNCHANGED relay
    \/ RelayBegin(c) /\ UNCHANGED accountVars
    \/ (FetchDies(c) \/ RouterDies(c)) /\ ProcessDies

\* The steps of the handler that holds the strand.
HandlerStep(c) ==
    \/ /\ \/ RegCheckEmail(c) \/ RegCheckLogin(c) \/ RegInsert(c)
          \/ LoginCheckLogin(c) \/ LoginCheckPassword(c) \/ LoginRekey(c)
       /\ UNCHANGED relay
    \/ /\ RelayCheckSender(c) \/ RelayCheckReceiver(c) \/ RelayDeliver(c)
       /\ UNCHANGED accountVars
    \/ EraseEnd(c) /\ ProcessDies

Sends(c) == ResponseSent(c) /\ UNCHANGED <<dbVars, accountVars, relay>>

\* The strand runs what waits for it in the order in which it came: no completion
\* handler is passed over for ever.  The handler that runs is a thread of the
\* pool.  A socket that has room again and again takes the response that waits
\* for it.  Nothing is assumed of the clients, not even that they read.
FairSpec ==
    /\ Spec
    /\ \A c \in Conn :
          /\ SF_vars(StrandStep(c))
          /\ WF_vars(HandlerStep(c))
          /\ SF_vars(Sends(c))

\* The socket of d is full, its client has not left, and the write that c depends
\* on waits for it: that of c's response, or the push of the handler that holds
\* the strand.
WaitsFor(c, d) ==
    /\ alive[d]
    /\ unread[d] = SocketRoom
    /\ \/ d = c /\ pc[c] = "writing"
       \/ \E e \in Conn : Relaying(e, "relayDeliver") /\ Receiver(e) = d

\* A request that was read is answered, or its connection goes, unless one client
\* leaves its full socket unread for ever.  No handler waits for ever for the
\* strand or the database, and two that push at each other, or a client that
\* left, stop nobody; a reader that went into readResponse stops everybody.
AnsweredUnlessUnread ==
    \A c \in Conn :
        pc[c] = "queued" ~> \/ pc[c] \in {"reading", "closed"}
                           \/ \E d \in Conn : []WaitsFor(c, d)

----------------------------------------------------------------------------
(* Refinement *)

\* The table of users is the directory that AccountDirectory describes.
Directory == INSTANCE AccountDirectory WITH Account <- User, Opened <- OldUsers, accounts <- users

\* Every step of the server, crashes and commits in doubt included, leaves the
\* directory alone or opens one account whose login and address are new.
DirectoryKept == Directory!Spec
=============================================================================
