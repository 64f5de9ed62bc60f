---------------------------- MODULE Conversation ----------------------------
(***************************************************************************)
(* The messages of users who have exchanged keys: the command `message`    *)
(* (Application::startMessaging), Message::send on the main thread,        *)
(* MessageParser::readMessage on the reader, and the table `messages` of   *)
(* each client's SQLite file, which outlives the process.                  *)
(*                                                                         *)
(* KeyExchange says what the exchange guarantees (KeysAgree).  Once two    *)
(* users hold each other's keys the command `request` is refused, so that  *)
(* the table key_exchange_requests does not change here.                   *)
(***************************************************************************)
EXTENDS ClientConnection, FiniteSetsExt

CONSTANTS
    Nothing,   \* no message is being written or read
    MaxPairs,  \* bound: the key pairs that are generated, and the stops with them
    MaxStops   \* bound: how often a client is stopped

\* A pair stands for its private and for its public key; number 0 is the one
\* of the exchange.
Pairs == [by : User, for : User, nr : 0 .. MaxPairs]

ExchangedPair(u, v) == [by |-> u, for |-> v, nr |-> 0]

\* A row of the table: the next private key of its owner or the next public key
\* of the other one.
Row == [sender : User, key : Pairs, conversation : Nat]

\* A message that is being sent, and one that has been decrypted.
Message == [to : User, key : Pairs, lock : Pairs, conversation : Nat]
Received == [from : User, key : Pairs, lock : Pairs, conversation : Nat]

\* What a client sends and gets.
Request == [kind : {"login"}, to : User]
               \cup [kind : {"message"}, to : User, key : Pairs, lock : Pairs]
Sent == [request : Request, plain : BOOLEAN]
Frame == [kind : {"response"}, what : {"authenticated", "other"}]
               \cup [kind : {"message"}, from : User, key : Pairs, lock : Pairs]

ASSUME ConversationAssumption ==
    /\ MaxPairs \in Nat /\ MaxStops \in Nat
    /\ Nothing \notin Message \cup Received

VARIABLES
    messages,   \* messages[u][v]: the rows of u's table from or for v, in order of their ids
    made,       \* how many key pairs have been generated
    drawn,      \* drawn[u]: how many conversation ids u has drawn
    message,    \* message[u]: the Message that the main thread of u is sending
    received,   \* received[u]: the message that the reader of u has decrypted
    stops,      \* how often a client was stopped
    missed      \* pairs <<u, v>>: a message of u for v was lost or could not be read
                \* (history: no code reads it)

conversationVars == <<messages, made, drawn, message, received, stops, missed>>

vars == <<connVars, conversationVars>>

Init ==
    /\ ConnInit
    /\ messages = [u \in User |-> [v \in User |-> << >>]]
    /\ made = 0
    /\ drawn = [u \in User |-> 0]
    /\ message = [u \in User |-> Nothing]
    /\ received = [u \in User |-> Nothing]
    /\ stops = 0
    /\ missed = {}

ClientUnchanged ==
    UNCHANGED <<running, isAuthenticatedUser, isLastResponseReaded, lastResponse,
                isEncryptionEnabled, outbox, inbox, online, refusals>>

----------------------------------------------------------------------------
(* The table *)

\* Variant: the table key_exchange_requests is not asked.
LastToldKey(u, v, sender) ==
    LET rows == {i \in DOMAIN messages[u][v] : messages[u][v][i].sender = sender}
    IN  IF rows = {} THEN Nothing ELSE messages[u][v][Max(rows)].key

\* getLastKeyFromDatabase: the key of the last row that `sender` sent, and before
\* the first one that of the exchange.  A row of u holds the next private key, a
\* row of v the next public key.
LastKey(u, v, sender) ==
    LET rows == {i \in DOMAIN messages[u][v] : messages[u][v][i].sender = sender}
    IN  IF rows = {} THEN ExchangedPair(sender, IF sender = u THEN v ELSE u)
        ELSE messages[u][v][Max(rows)].key

\* Variant: ORDER BY id, without DESC.
FirstPublicKey(u, v) ==
    LET rows == {i \in DOMAIN messages[u][v] : messages[u][v][i].sender = v}
    IN  IF rows = {} THEN ExchangedPair(v, u)
        ELSE messages[u][v][Min(rows)].key

PrivateKey(u, v) == LastKey(u, v, u)
PublicKey(u, v) == LastKey(u, v, v)

\* Variant: the SELECT finds nothing.
NewConversationId(u, v) == drawn[u] + 1

\* SELECT conversation_id: that of the first row, or a random number.
ConversationId(u, v) ==
    IF messages[u][v] = << >> THEN drawn[u] + 1 ELSE messages[u][v][1].conversation

Select(u, v) ==
    drawn' = [drawn EXCEPT ![u] = IF messages[u][v] = << >> THEN @ + 1 ELSE @]

\* loadMessages: the rows of the conversation that the first row of v is in.
Shown(u, v) ==
    LET rows == messages[u][v]
        theirs == {i \in DOMAIN rows : rows[i].sender = v}
    IN  {i \in DOMAIN rows : theirs # {} /\ rows[i].conversation = rows[Min(theirs)].conversation}

Insert(u, v, sender, content) ==
    messages' = [messages EXCEPT ![u][v] =
                    Append(@, [sender |-> sender, key |-> content.key,
                               conversation |-> content.conversation])]

----------------------------------------------------------------------------
(* Message::send *)

\* The user picks one with whom keys were exchanged and types a line;
\* generateNextRSAKeys.
WriteMessage(u, v) ==
    /\ At(u, "main", "idle")
    /\ isAuthenticatedUser[u]
    /\ v # u
    /\ made + stops < MaxPairs
    /\ made' = made + 1
    /\ message' = [message EXCEPT ![u] = [to |-> v, lock |-> ExchangedPair(v, u), conversation |-> 0,
                       key |-> [by |-> u, for |-> v, nr |-> made']]]
    /\ Goto(u, "main", "typed")
    /\ ClientUnchanged
    /\ UNCHANGED <<messages, drawn, received, stops, missed>>

\* storeToDatabase, first statement
SelectOwn(u) ==
    /\ At(u, "main", "typed")
    /\ Select(u, message[u].to)
    /\ message' = [message EXCEPT ![u].conversation = ConversationId(u, message[u].to)]
    /\ Goto(u, "main", "selected")
    /\ ClientUnchanged
    /\ UNCHANGED <<messages, made, received, stops, missed>>

\* ... and second statement
StoreOwn(u) ==
    /\ At(u, "main", "selected")
    /\ Insert(u, message[u].to, u, message[u])
    /\ Goto(u, "main", "stored")
    /\ ClientUnchanged
    /\ UNCHANGED <<made, drawn, message, received, stops, missed>>

\* Variant: the keys are mixed up.
LockWithOwnKey(u) ==
    /\ At(u, "main", "stored")
    /\ message' = [message EXCEPT ![u].lock = PrivateKey(u, message[u].to)]
    /\ Goto(u, "main", "ready")
    /\ ClientUnchanged
    /\ UNCHANGED <<messages, made, drawn, received, stops, missed>>

\* encryptAESKey
EncryptAESKey(u) ==
    /\ At(u, "main", "stored")
    /\ message' = [message EXCEPT ![u].lock = PublicKey(u, message[u].to)]
    /\ Goto(u, "main", "ready")
    /\ ClientUnchanged
    /\ UNCHANGED <<messages, made, drawn, received, stops, missed>>

SendMessage(u) ==
    /\ At(u, "main", "disabled")
    /\ SendRequest(u, "main", [kind |-> "message", to |-> message[u].to,
                               key |-> message[u].key, lock |-> message[u].lock])
    /\ message' = [message EXCEPT ![u] = Nothing]
    /\ UNCHANGED <<messages, made, drawn, received, stops, missed>>

----------------------------------------------------------------------------
(* The process ends *)

\* Where the messages of u for v are in the outbox of u, and in the inbox of v.
Posted(u, v) ==
    {i \in DOMAIN outbox[u] : outbox[u][i].request.kind = "message" /\ outbox[u][i].request.to = v}

Arrived(u, v) == {i \in DOMAIN inbox[v] : inbox[v][i].kind = "message" /\ inbox[v][i].from = u}

\* The users for whom u has a message under way that a stop of u loses.
Unsent(u) ==
    {v \in User : (message[u] # Nothing /\ message[u].to = v) \/ Posted(u, v) # {}}

\* The users from whom u would have read a message.
Unread(u) ==
    {v \in User : (received[u] # Nothing /\ received[u].from = v) \/ Arrived(v, u) # {}}

End(u) ==
    /\ Stop(u)
    /\ message' = [message EXCEPT ![u] = Nothing]
    /\ received' = [received EXCEPT ![u] = Nothing]
    /\ missed' = missed \cup {<<u, v>> : v \in Unsent(u)} \cup {<<v, u>> : v \in Unread(u)}
    /\ UNCHANGED <<messages, made, drawn>>

StopClient(u) ==
    /\ \/ stops < MaxStops /\ made + stops < MaxPairs /\ stops' = stops + 1
       \/ ParsesNothing(u) /\ UNCHANGED stops
    /\ End(u)

----------------------------------------------------------------------------
(* MessageParser::readMessage *)

\* Variant: a message is taken as it comes.
OpenUnchecked(u) ==
    /\ HasFrame(u, "message")
    /\ LET frame == Head(inbox[u])
       IN  received' = [received EXCEPT ![u] = [from |-> frame.from, key |-> frame.key,
                                                 lock |-> frame.lock, conversation |-> 0]]
    /\ inbox' = [inbox EXCEPT ![u] = Tail(@)]
    /\ Goto(u, "reader", "opened")
    /\ UNCHANGED <<running, isAuthenticatedUser, isLastResponseReaded, lastResponse,
                   isEncryptionEnabled, outbox, online, refusals>>
    /\ UNCHANGED <<messages, made, drawn, message, stops, missed>>

\* Variant: the frame that came in last is read first.
DecryptNewest(u) ==
    LET last == Len(inbox[u])
        frame == inbox[u][last]
    IN  /\ At(u, "reader", "idle")
        /\ inbox[u] # << >>
        /\ frame.kind = "message"
        /\ frame.lock = PrivateKey(u, frame.from)
        /\ received' = [received EXCEPT ![u] = [from |-> frame.from, key |-> frame.key,
                                                 lock |-> frame.lock, conversation |-> 0]]
        /\ inbox' = [inbox EXCEPT ![u] = SubSeq(@, 1, last - 1)]
        /\ Goto(u, "reader", "opened")
        /\ UNCHANGED <<running, isAuthenticatedUser, isLastResponseReaded, lastResponse,
                       isEncryptionEnabled, outbox, online, refusals>>
        /\ UNCHANGED <<messages, made, drawn, message, stops, missed>>

\* decryptMessage finds that the AES key was encrypted with the public key that
\* belongs to the last private one.
DecryptMessage(u) ==
    /\ HasFrame(u, "message")
    /\ LET frame == Head(inbox[u])
       IN  /\ frame.lock = PrivateKey(u, frame.from)
           /\ received' = [received EXCEPT ![u] = [from |-> frame.from, key |-> frame.key,
                                                 lock |-> frame.lock, conversation |-> 0]]
    /\ inbox' = [inbox EXCEPT ![u] = Tail(@)]
    /\ Goto(u, "reader", "opened")
    /\ UNCHANGED <<running, isAuthenticatedUser, isLastResponseReaded, lastResponse,
                   isEncryptionEnabled, outbox, online, refusals>>
    /\ UNCHANGED <<messages, made, drawn, message, stops, missed>>

\* Otherwise the key that was not decrypted is empty, and its parts are read from
\* an empty vector.  With the right key, too, the process may end: the cipher is
\* taken for a C string, and one with a zero byte in it cannot be decrypted.
DecryptionDies(u) ==
    /\ HasFrame(u, "message")
    /\ End(u)
    /\ UNCHANGED stops

SelectReceived(u) ==
    /\ At(u, "reader", "opened")
    /\ Select(u, received[u].from)
    /\ received' = [received EXCEPT ![u].conversation = ConversationId(u, received[u].from)]
    /\ Goto(u, "reader", "filed")
    /\ ClientUnchanged
    /\ UNCHANGED <<messages, made, message, stops, missed>>

StoreReceived(u) ==
    /\ At(u, "reader", "filed")
    /\ Insert(u, received[u].from, received[u].from, received[u])
    /\ received' = [received EXCEPT ![u] = Nothing]
    /\ Lower(u)
    /\ UNCHANGED <<running, isAuthenticatedUser, lastResponse, isEncryptionEnabled,
                   outbox, inbox, online, refusals>>
    /\ UNCHANGED <<made, drawn, message, stops, missed>>

----------------------------------------------------------------------------
(* The server *)

\* A message is pushed to its receiver, or lost: one for a user without an entry,
\* or whose entry the look-up missed, is stored as a key exchange and never
\* fetched, one that is not in clear cannot be parsed, and queries may fail.
RelayMessage(u) ==
    /\ outbox[u] # << >>
    /\ LET sent == Head(outbox[u])
           v == sent.request.to
       IN  /\ sent.request.kind = "message"
           /\ \/ /\ sent.plain
                 /\ v \in online
                 /\ inbox' = [inbox EXCEPT
                        ![v] = Append(@, [kind |-> "message", from |-> u,
                                          key |-> sent.request.key, lock |-> sent.request.lock]),
                        ![u] = Append(@, Answer("other"))]
                 /\ UNCHANGED missed
              \/ /\ inbox' = [inbox EXCEPT ![u] = Append(@, Answer("other"))]
                 /\ missed' = missed \cup {<<u, v>>}
    /\ outbox' = [outbox EXCEPT ![u] = Tail(@)]
    /\ UNCHANGED <<running, thread, isAuthenticatedUser, isLastResponseReaded, lastResponse,
                   isEncryptionEnabled, online, refusals>>
    /\ UNCHANGED <<messages, made, drawn, message, received, stops>>

----------------------------------------------------------------------------

\* What the user of u decides, or does to the process.
UserStep(u) ==
    \/ (Connect(u) \/ SignIn(u)) /\ UNCHANGED conversationVars
    \/ \E v \in User : WriteMessage(u, v)
    \/ StopClient(u)

MainStep(u) ==
    \/ (DisableEncryption(u, "main") \/ EnableEncryption(u, "main") \/ ReadResponse(u, "main"))
           /\ UNCHANGED conversationVars
    \/ SelectOwn(u) \/ StoreOwn(u) \/ EncryptAESKey(u) \/ SendMessage(u)

ReaderStep(u) ==
    \/ (TakeResponse(u) \/ HandleRead(u)) /\ UNCHANGED conversationVars
    \/ DecryptMessage(u) \/ DecryptionDies(u) \/ SelectReceived(u) \/ StoreReceived(u)

ServerStep(u) ==
    \/ (ChangeEntry(u) \/ HandleLogin(u)) /\ UNCHANGED conversationVars
    \/ RelayMessage(u)

Next == \E u \in User : UserStep(u) \/ MainStep(u) \/ ReaderStep(u) \/ ServerStep(u)

Spec == Init /\ [][Next]_vars
----------------------------------------------------------------------------
(* Safety *)

\* Every variable has its type; the main thread has a Message from generateNextRSAKeys
\* until its request is sent, the reader one from its decryption until the INSERT.
TypeOK ==
    /\ running \subseteq User
    /\ online \subseteq User
    /\ refusals \in 0 .. MaxRefusals
    /\ thread \in [User -> [Threads -> Points]]
    /\ isAuthenticatedUser \in [User -> BOOLEAN]
    /\ isLastResponseReaded \in [User -> BOOLEAN]
    /\ lastResponse \in [User -> {"authenticated", "other", NoResponse}]
    /\ isEncryptionEnabled \in [User -> BOOLEAN]
    /\ outbox \in [User -> Seq(Sent)]
    /\ inbox \in [User -> Seq(Frame)]
    /\ messages \in [User -> [User -> Seq(Row)]]
    /\ made \in 0 .. MaxPairs
    /\ drawn \in [User -> Nat]
    /\ message \in [User -> Message \cup {Nothing}]
    /\ received \in [User -> Received \cup {Nothing}]
    /\ stops \in 0 .. MaxStops
    /\ missed \subseteq User \X User
    /\ \A u \in User :
          /\ thread[u]["main"] \in {"typed", "selected", "stored", "ready", "disabled"}
                <=> message[u] # Nothing
          /\ thread[u]["reader"] \in {"opened", "filed"} <=> received[u] # Nothing

\* With nothing on its way from u to v, the public key that v would lock the next message
\* with belongs to the private key that u would open it with, whatever both had written
\* before: rows of two threads lie in between, and u's row is there before v's.  Left aside
\* are users of whom a message was lost.
KeysFollow ==
    \A u, v \in User :
        (u # v /\ v \notin Unsent(u) /\ u \notin Unread(v) /\ <<u, v>> \notin missed)
            => PublicKey(v, u) = PrivateKey(u, v)

\* Both threads may find the table empty and draw a conversation id each.  No more than
\* one row goes astray by this: what the user sees of a conversation in which v has written
\* is all rows but one at the most, or that single one instead of all the others.
ShownAlmostAll ==
    \A u, v \in User :
        LET rows == messages[u][v]
            hidden == DOMAIN rows \ Shown(u, v)
        IN  (\E i \in DOMAIN rows : rows[i].sender = v) =>
                \/ Cardinality(hidden) <= 1
                \/ /\ Cardinality(Shown(u, v)) = 1
                   /\ \A i, j \in hidden : rows[i].conversation = rows[j].conversation

\* The tables never fall back on an older key, neither the one that u will open with nor the
\* one that v will lock with, in spite of crossing messages, losses and stops.
KeysMoveOn ==
    [][\A u, v \in User : /\ PrivateKey(u, v).nr <= PrivateKey(u, v)'.nr
                          /\ PublicKey(v, u).nr <= PublicKey(v, u)'.nr]_vars

\* The keys that u has told v, or is about to: that of the exchange and those of its own rows.
OwnRows(u, v) == {i \in DOMAIN messages[u][v] : messages[u][v][i].sender = u}

ToldKeys(u, v) == {ExchangedPair(u, v)} \cup {messages[u][v][i].key : i \in OwnRows(u, v)}

\* Every message that comes in is locked with a key that its reader has told the sender.
\* What cannot be opened has thus been overtaken by a later message of the reader's own.
LocksWereTold ==
    \A u, v \in User : \A i \in Arrived(u, v) : inbox[v][i].lock \in ToldKeys(v, u)

----------------------------------------------------------------------------
(* Refinement *)

Content(m) == [key |-> m.key, lock |-> m.lock]

\* The message for v that u has locked and not yet sent.
Locked(u, v) ==
    IF thread[u]["main"] \in {"ready", "disabled"} /\ message[u].to = v
    THEN {Content(message[u])} ELSE {}

\* The messages on their way from u to the server, and from there to v.
Sending(u, v) == {Content(outbox[u][i].request) : i \in Posted(u, v)}
Coming(u, v) == {Content(inbox[v][i]) : i \in Arrived(u, v)}

Wire(u, v) == Locked(u, v) \cup Sending(u, v) \cup Coming(u, v)

\* The message of v that u has decrypted and not yet stored.
Opened(u, v) ==
    IF received[u] # Nothing /\ received[u].from = v THEN {Content(received[u])} ELSE {}

told == [u \in User |-> [v \in User |-> PrivateKey(u, v)]]
heard == [u \in User |-> [v \in User |-> PublicKey(u, v)]]
wire == [u \in User |-> [v \in User |-> Wire(u, v)]]
opened == [u \in User |-> [v \in User |-> Opened(u, v)]]
used == UNION {ToldKeys(u, v) : u, v \in User}

Turns == INSTANCE TurnTaking WITH Key <- Pairs

\* With two threads, stops, losses and keys taken from tables, a client reads a message
\* only if it is the answer to the last one it stored for its sender.
TakesTurns == Turns!Spec

\* When neither end can read what the other sends, this stays so: the keys of the
\* exchange, which could be renewed, are not looked at again.
StuckForGood == Turns!StuckForGood

----------------------------------------------------------------------------
(* What the repository says and the code does not do *)

\* "You have new message from: ": the reader can decrypt the message it takes in, unless
\* one of these users' messages was lost.
MessageIsReadable ==
    \A u \in User :
        HasFrame(u, "message") =>
            LET frame == Head(inbox[u])
            IN  \/ {<<u, frame.from>>, <<frame.from, u>>} \cap missed # {}
                \/ frame.lock = PrivateKey(u, frame.from)
=============================================================================
