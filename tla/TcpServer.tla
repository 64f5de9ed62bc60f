----------------------------- MODULE TcpServer -----------------------------
(***************************************************************************)
(* server/src/tcp_server: the accept loop of TCPServer, the life of a      *)
(* TCPConnection and the registry `connections` from ids to connections.   *)
(*                                                                         *)
(* A pool of threads runs one io_context.  Every completion handler of     *)
(* every connection is wrapped in ONE strand, so at most one of them runs  *)
(* at a time.  The accept handler is not wrapped: it interleaves with the  *)
(* handler that is on the strand.  The routes are in the modules that      *)
(* extend this one.                                                        *)
(***************************************************************************)
EXTENDS Naturals, FiniteSets

CONSTANTS
    Conn,        \* the connections accepted over the life of the deployment
    NoConn,      \* no connection
    OldIds,      \* ids of accounts opened before the first process of a run
    NoId,        \* TCPConnection::id before setID: 0
    NoSession,   \* the session_id of an answer that reports an error: -1
    NoRequest,   \* TCPConnection::request as handleRead empties it
    Requests,    \* the requests the clients of an instance send
    Logins, Emails, Passwords, Keys,
    MayLeave,    \* a client may close its socket
    SocketRoom   \* the frames a socket buffers before a write to it blocks

(***************************************************************************)
(* The id of an accepted connection is a random 63-bit number.  Draws are  *)
(* taken to be distinct and different from 0, so that the id drawn for a   *)
(* connection is represented by the connection itself.                     *)
(***************************************************************************)
Ids == Conn \cup OldIds \cup {NoId}

\* The targets a request may name: the five routes, the last one with a query
\* too, a path without a route, a path the router refuses and one it cannot parse.
FetchTarget == "/availableMessages?login=&password="

Routes == {"/registration", "/login", "/keyExchangeRequest", "/sendMessage",
           "/availableMessages", FetchTarget, "/unknown", "/..", "/%"}

\* What the server can make of a body: all fields present, a field missing,
\* not JSON, or (where the route decrypts it) not decryptable.
Bodies == {"good", "incomplete", "malformed", "garbled"}

\* One shape for all requests; a route ignores the fields it does not read.
\* `login` is the receiver's login in the two relay routes.
Request == [route : Routes, body : Bodies, login : Logins, email : Emails,
            password : Passwords, sender : Ids, key : Keys]

Codes == {"none", "OK", "FAILED_TO_DECRYPT_BODY", "FAILED_TO_PARSE_BODY",
          "USER_WITH_LOGIN_EXIST", "USER_WITH_EMAIL_EXIST",
          "WRONG_USER_LOGIN", "WRONG_USER_PASSWORD",
          "DATABASE_NOT_RESPONDING", "WRONG_USER_ID",
          "MESSAGING_WITH_YOURSELF", "NOT_FOUND", "BAD_REQUEST"}

Response == [code : Codes, session : Ids \cup {NoSession}]

NoResponse == [code |-> "none", session |-> NoSession]

ASSUME ConnAssumption ==
    /\ NoConn \notin Conn
    /\ NoId \notin Conn \cup OldIds
    /\ Conn \cap OldIds = {}
    /\ NoSession \notin Ids
    /\ NoRequest \notin Request
    /\ Requests \subseteq Request
    /\ MayLeave \in BOOLEAN
    /\ SocketRoom \in Nat \ {0}

VARIABLES
    up,           \* the server process is running
    acceptor,     \* where the accept handler stands, and for which connection
    connections,  \* TCPServer::connections; NoConn where there is no entry
    connID,       \* TCPConnection::id
    pc,           \* where a connection stands in its read-handle-write cycle
    alive,        \* the client's end of the socket is open
    unread,       \* frames written to the socket and not read by the client
    req,          \* the request being handled
    resp          \* the response being written

tcpVars == <<up, acceptor, connections, connID, pc, alive, unread, req, resp>>

(***************************************************************************)
(* Control points of a connection.  Those of HandlerPoints lie inside      *)
(* Router::handleRequest, between two calls to the database or before a    *)
(* use of `connections`.                                                   *)
(***************************************************************************)
HandlerPoints == {"regEmail", "regLogin", "regInsert",
                  "loginLogin", "loginPassword", "loginRekey",
                  "relaySender", "relayReceiver", "relayDeliver"}

Points == HandlerPoints \cup
          {"unaccepted", "hello", "reading", "queued", "writing", "written", "closed"}

IdleAcceptor == [step |-> "idle", conn |-> NoConn]

TcpTypeOK ==
    /\ up \in BOOLEAN
    /\ acceptor \in [step : {"idle", "setID", "insert"}, conn : Conn \cup {NoConn}]
    /\ connections \in [Ids -> Conn \cup {NoConn}]
    /\ connID \in [Conn -> Ids]
    /\ pc \in [Conn -> Points]
    /\ alive \in [Conn -> BOOLEAN]
    /\ unread \in [Conn -> 0 .. SocketRoom]
    /\ req \in [Conn -> Request \cup {NoRequest}]
    /\ resp \in [Conn -> Response]
    /\ \A c \in Conn :
          pc[c] \in HandlerPoints \cup {"queued", "writing", "written"} => req[c] \in Request

TcpInit ==
    /\ up = TRUE
    /\ acceptor = IdleAcceptor
    /\ connections = [i \in Ids |-> NoConn]
    /\ connID = [c \in Conn |-> NoId]
    /\ pc = [c \in Conn |-> "unaccepted"]
    /\ alive = [c \in Conn |-> FALSE]
    /\ unread = [c \in Conn |-> 0]
    /\ req = [c \in Conn |-> NoRequest]
    /\ resp = [c \in Conn |-> NoResponse]

----------------------------------------------------------------------------
(* The strand *)

InHandler(c) == pc[c] \in HandlerPoints

\* Variant: the handlers are not wrapped in the strand.
NoStrand == up

\* A completion handler starts only when no other one is on the strand.
StrandFree == up /\ \A c \in Conn : ~InHandler(c)

----------------------------------------------------------------------------
(* What the routes use *)

\* The strand runs the read handler of c, whose request names this target.
Begin(c, route) ==
    /\ StrandFree
    /\ pc[c] = "queued"
    /\ req[c].route = route

\* The handler of c is on the strand, at point p.
At(c, p) == up /\ pc[c] = p

Goto(c, p) ==
    /\ pc' = [pc EXCEPT ![c] = p]
    /\ UNCHANGED resp

\* The handler returns a response; handleWrite starts to write it.
Respond(c, code, session) ==
    /\ pc' = [pc EXCEPT ![c] = "writing"]
    /\ resp' = [resp EXCEPT ![c] = [code |-> code, session |-> session]]

----------------------------------------------------------------------------
(* The accept handler *)

\* A client is accepted: start() sends the RSA key, the first read follows from
\* the completion; the handler has yet to set the id.
AcceptStart(c) ==
    /\ up
    /\ acceptor = IdleAcceptor
    /\ pc[c] = "unaccepted"
    /\ pc' = [pc EXCEPT ![c] = "hello"]
    /\ alive' = [alive EXCEPT ![c] = TRUE]
    /\ unread' = [unread EXCEPT ![c] = 1]
    /\ acceptor' = [step |-> "setID", conn |-> c]
    /\ UNCHANGED <<up, connections, connID, req, resp>>

\* Variant: the generator may draw an id again.
AcceptSetAnyID(c) ==
    /\ acceptor = [step |-> "setID", conn |-> c]
    /\ \E drawn \in Conn : connID' = [connID EXCEPT ![c] = drawn]
    /\ acceptor' = [step |-> "insert", conn |-> c]
    /\ UNCHANGED <<up, connections, pc, alive, unread, req, resp>>

AcceptSetID(c) ==
    /\ acceptor = [step |-> "setID", conn |-> c]
    /\ connID' = [connID EXCEPT ![c] = c]
    /\ acceptor' = [step |-> "insert", conn |-> c]
    /\ UNCHANGED <<up, connections, pc, alive, unread, req, resp>>

\* The insertion is not on the strand.  When it meets the handler that changes
\* the map too, the two race and the entry may be lost (MessengerServer has the
\* other outcome, that the process dies).
AcceptInsert(c) ==
    /\ acceptor = [step |-> "insert", conn |-> c]
    /\ \/ connections' = [connections EXCEPT ![c] = c]
       \/ (\E d \in Conn : pc[d] = "loginRekey") /\ UNCHANGED connections
    /\ acceptor' = IdleAcceptor
    /\ UNCHANGED <<up, connID, pc, alive, unread, req, resp>>

----------------------------------------------------------------------------
(* The completion handlers of a connection *)

\* The RSA key is written: handleRead arms the first read.  A write that failed
\* because the client left is logged and starts nothing.
HelloDone(c) ==
    /\ StrandFree
    /\ pc[c] = "hello"
    /\ \/ pc' = [pc EXCEPT ![c] = "reading"]
       \/ ~alive[c] /\ pc' = [pc EXCEPT ![c] = "closed"]
    /\ UNCHANGED <<up, acceptor, connections, connID, alive, unread, req, resp>>

\* A whole request is read; its handler waits for the strand.  What a client wrote
\* before it left may still be read.
RequestRead(c, r) ==
    /\ up
    /\ pc[c] = "reading"
    /\ pc' = [pc EXCEPT ![c] = "queued"]
    /\ req' = [req EXCEPT ![c] = r]
    /\ UNCHANGED <<up, acceptor, connections, connID, alive, unread, resp>>

\* The read fails because the client left.  The error is logged: the socket
\* is not closed and the registry keeps the connection.
ReadError(c) ==
    /\ StrandFree
    /\ pc[c] = "reading"
    /\ ~alive[c]
    /\ pc' = [pc EXCEPT ![c] = "closed"]
    /\ UNCHANGED <<up, acceptor, connections, connID, alive, unread, req, resp>>

\* Variant: the write does not wait for room.
ResponseOverrun(c) ==
    /\ up
    /\ pc[c] = "writing"
    /\ unread' = [unread EXCEPT ![c] = @ + 1]
    /\ pc' = [pc EXCEPT ![c] = "written"]
    /\ UNCHANGED <<up, acceptor, connections, connID, alive, req, resp>>

\* The response goes into the socket when there is room; this needs no strand.
\* The first write to a client that left is lost without an error.
ResponseSent(c) ==
    /\ up
    /\ pc[c] = "writing"
    /\ \/ /\ alive[c]
          /\ unread[c] < SocketRoom
          /\ unread' = [unread EXCEPT ![c] = @ + 1]
       \/ /\ ~alive[c]
          /\ UNCHANGED unread
    /\ pc' = [pc EXCEPT ![c] = "written"]
    /\ UNCHANGED <<up, acceptor, connections, connID, alive, req, resp>>

\* The completion of the write: handleRead empties the request and arms the next
\* read.  After a write that failed nothing is armed.
WriteDone(c) ==
    /\ StrandFree
    /\ pc[c] = "written"
    /\ \/ pc' = [pc EXCEPT ![c] = "reading"]
       \/ ~alive[c] /\ pc' = [pc EXCEPT ![c] = "closed"]
    /\ req' = [req EXCEPT ![c] = NoRequest]
    /\ resp' = [resp EXCEPT ![c] = NoResponse]
    /\ UNCHANGED <<up, acceptor, connections, connID, alive, unread>>

----------------------------------------------------------------------------
(* The client's end, and the end of the process *)

\* A client reads a frame.  It need not: handleRead arms the next read only when
\* the last frame is dealt with, which may never be (MessageParser::exchangeKeys).
ClientReads(c) ==
    /\ alive[c]
    /\ unread[c] > 0
    /\ unread' = [unread EXCEPT ![c] = @ - 1]
    /\ UNCHANGED <<up, acceptor, connections, connID, pc, alive, req, resp>>

ClientLeaves(c) ==
    /\ MayLeave
    /\ alive[c]
    /\ alive' = [alive EXCEPT ![c] = FALSE]
    /\ unread' = [unread EXCEPT ![c] = 0]
    /\ UNCHANGED <<up, acceptor, connections, connID, pc, req, resp>>

\* The process dies: every connection object and the registry are gone.
LoseConnections ==
    /\ up' = FALSE
    /\ acceptor' = IdleAcceptor
    /\ connections' = [i \in Ids |-> NoConn]
    /\ pc' = [c \in Conn |-> IF pc[c] = "unaccepted" THEN "unaccepted" ELSE "closed"]
    /\ alive' = [c \in Conn |-> FALSE]
    /\ unread' = [c \in Conn |-> 0]
    /\ req' = [c \in Conn |-> NoRequest]
    /\ resp' = [c \in Conn |-> NoResponse]
    /\ UNCHANGED connID
=============================================================================
