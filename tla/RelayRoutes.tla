----------------------------- MODULE RelayRoutes -----------------------------
(***************************************************************************)
(* server/src/http/KeyRequester and MessageSender, which extends it: a     *)
(* frame from one user to another, pushed into the receiver's socket or    *)
(* stored in `messages`.  What parseBody and the two database checks find  *)
(* are members of the route object, shared by all requests of the route.   *)
(***************************************************************************)
EXTENDS TcpServer, Database

VARIABLE
    relay   \* per route: senderID, senderLogin, receiverLogin, receiverID, key

RelayRouteNames == {"/keyExchangeRequest", "/sendMessage"}

\* The members of a new object; NoRequest stands for an empty string.
EmptyRelay == [senderID |-> NoId, senderLogin |-> NoRequest, receiverLogin |-> NoRequest,
               receiverID |-> NoId, key |-> NoRequest]

Texts(S) == S \cup {NoRequest}

Row == [type : {"EXCHANGE_KEYS_MESSAGE", "STANDARD_MESSAGE"},
        kind : {"request_key", "user_message"},
        sender : Texts(Logins), receiver : Texts(Logins), key : Texts(Keys)]

RelayTypeOK ==
    /\ messages \in Seq(Row)
    /\ relay \in [RelayRouteNames ->
                    [senderID : Ids, senderLogin : Texts(Logins),
                     receiverLogin : Texts(Logins), receiverID : Ids,
                     key : Texts(Keys)]]

RelayInit == relay = [route \in RelayRouteNames |-> EmptyRelay]

Relaying(c, p) == At(c, p) /\ req[c].route \in RelayRouteNames

MessageType(route) ==
    IF route = "/sendMessage" THEN "STANDARD_MESSAGE" ELSE "EXCHANGE_KEYS_MESSAGE"

RelayFault(c) ==
    /\ QueryMayFail
    /\ Respond(c, "DATABASE_NOT_RESPONDING", NoSession)

RelayUnchanged == UNCHANGED <<up, acceptor, connections, connID, alive, req, users>>

\* parseBody.  An incomplete body lacks the last field, the key; the members
\* read before it stay set.
RelayBegin(c) ==
    \E route \in RelayRouteNames :
        /\ Begin(c, route)
        /\ \/ /\ req[c].body = "good"
              /\ relay' = [relay EXCEPT ![route].senderID = req[c].sender,
                                        ![route].receiverLogin = req[c].login,
                                        ![route].key = req[c].key]
              /\ Goto(c, "relaySender")
           \/ /\ req[c].body = "incomplete"
              /\ relay' = [relay EXCEPT ![route].senderID = req[c].sender,
                                        ![route].receiverLogin = req[c].login]
              /\ Respond(c, "FAILED_TO_PARSE_BODY", NoSession)
           \/ /\ req[c].body \in {"malformed", "garbled"}
              /\ UNCHANGED relay
              /\ Respond(c, "FAILED_TO_PARSE_BODY", NoSession)
        /\ RelayUnchanged
        /\ UNCHANGED <<unread, messages>>

\* checkSenderIDInDatabase takes the first row the query returns.
RelayCheckSender(c) ==
    /\ Relaying(c, "relaySender")
    /\ LET route == req[c].route
           found == WithId(relay[route].senderID)
       IN  \/ RelayFault(c) /\ UNCHANGED relay
           \/ /\ found = {}
              /\ Respond(c, "WRONG_USER_ID", NoSession)
              /\ UNCHANGED relay
           \/ \E u \in found :
                  /\ relay' = [relay EXCEPT ![route].senderLogin = u.login]
                  /\ Goto(c, "relayReceiver")
    /\ RelayUnchanged
    /\ UNCHANGED <<unread, messages>>

\* Variant: only the ids are compared, one of them with a login.
SameUserMixedUp(m) == m.senderID = m.receiverLogin

SameUser(m) == m.senderLogin = m.receiverLogin \/ m.senderID = m.receiverID

\* checkReceiverLoginInDatabase, then checkIfSameUser.
RelayCheckReceiver(c) ==
    /\ Relaying(c, "relayReceiver")
    /\ LET route == req[c].route
           found == WithLogin(relay[route].receiverLogin)
       IN  \/ RelayFault(c) /\ UNCHANGED relay
           \/ /\ found = {}
              /\ Respond(c, "WRONG_USER_ID", NoSession)
              /\ UNCHANGED relay
           \/ \E u \in found :
                  /\ relay' = [relay EXCEPT ![route].receiverID = u.id]
                  /\ IF SameUser(relay'[route])
                     THEN Respond(c, "MESSAGING_WITH_YOURSELF", NoSession)
                     ELSE Goto(c, "relayDeliver")
    /\ RelayUnchanged
    /\ UNCHANGED <<unread, messages>>

Receiver(c) == connections[relay[req[c].route].receiverID]

\* connections.count(receiverID).  While the accept handler inserts, the look-up
\* races with it and may miss the entry.
Found(c) == Receiver(c) # NoConn
Missed(c) == Receiver(c) = NoConn \/ acceptor.step = "insert"

\* Variant: a write to a client that left waits for room, too.
PushWaits(c) ==
    /\ Found(c)
    /\ alive[Receiver(c)]
    /\ unread[Receiver(c)] < SocketRoom
    /\ unread' = [unread EXCEPT ![Receiver(c)] = @ + 1]
    /\ UNCHANGED messages

\* send(): a blocking write that holds the strand until the receiver's socket
\* has room.  The first write to a client that left is lost without an error
\* (SendDies has the other outcome).
Push(c) ==
    /\ Found(c)
    /\ LET d == Receiver(c)
       IN  \/ /\ alive[d]
              /\ unread[d] < SocketRoom
              /\ unread' = [unread EXCEPT ![d] = @ + 1]
           \/ /\ ~alive[d]
              /\ UNCHANGED unread
    /\ UNCHANGED messages

\* writeMessageToDatabaseIfReceiverOffline stores what createKeyExchangeMessage
\* of KeyRequester builds, for either route.  Its catch returns true: after a
\* failed commit, which may have stored the row, the handler goes on.
StoredRow(c) ==
    LET m == relay[req[c].route]
    IN  [type |-> MessageType(req[c].route), kind |-> "request_key",
         sender |-> m.senderLogin, receiver |-> m.receiverLogin, key |-> m.key]

Store(c) ==
    /\ Missed(c)
    /\ \/ messages' = Append(messages, StoredRow(c))
       \/ QueryMayFail /\ UNCHANGED messages
    /\ UNCHANGED unread

RelayDeliver(c) ==
    /\ Relaying(c, "relayDeliver")
    /\ Push(c) \/ Store(c)
    /\ Respond(c, "OK", relay[req[c].route].senderID)
    /\ RelayUnchanged
    /\ UNCHANGED relay

\* A write to a closed socket throws; nothing catches it.
SendDies(c) ==
    /\ Relaying(c, "relayDeliver")
    /\ Found(c)
    /\ ~alive[Receiver(c)]

RelayNext(c) ==
    \/ RelayBegin(c) \/ RelayCheckSender(c) \/ RelayCheckReceiver(c) \/ RelayDeliver(c)

\* A new process starts with new route objects.
ForgetRelayRoutes == relay' = [route \in RelayRouteNames |-> EmptyRelay]
=============================================================================
