# A formal model of idinxMessenger

TLA+ modules, TLC configurations and TLAPS proofs for the messenger in `server/` and `client/`.
Paths below are relative to `src/`. "L" before a number is a line of the file named before it.

## 1. The system

A C++ server (Boost.Asio, Boost.Beast, PostgreSQL) keeps accounts and relays JSON frames between
clients over plain TCP; bodies are encrypted with RSA where the route decrypts them. A client is a
command-line process of two threads with a SQLite file. Users exchange RSA public keys and then
messages; each message carries the key for the answer.

### 1.1 Server

| Part | Code | State | Operations |
|---|---|---|---|
| Accept loop, registry | `server/src/tcp_server/TcpServer.*` | `connections`, a map from ids to connections; `router`; a thread pool | `startAccept` (start the connection, `setID`, insert), `run`, `doAsyncStop` |
| Connection | `server/src/tcp_server/TcpConnection.*` | its id, the request and response under way, the socket | `sendRSAPublicKey`, `handleRead`, `handleWrite`, `send` (blocking, called by other connections' handlers) |
| Router, base of the routes | `server/src/http/Router.*`, `IRoute.*` | a map from targets to route objects | dispatch, refusal of unknown and illegal targets |
| Registration | `server/src/http/Registration.*` | `decryptedBody`, shared by all requests | decrypt, parse, two SELECTs, INSERT |
| Login | `server/src/http/Login.*` | `decryptedBody`, `userID`, shared | decrypt, parse, two SELECTs, the registry entry moved from the connection's id to the user's |
| Key exchange, message | `server/src/http/KeyRequester.*`, `MessageSender.*` | sender, receiver, key: members, shared | parse, check the sender, check the receiver, push or store |
| Stored messages | `server/src/http/MessageReceiver.*` | - | decryption fails without a query; with a query the router ends the process |
| Database | `server/src/database/Connection.*` | tables `users`, `messages` | one connection and one transaction per call |
| Configuration, logging, hashing | `server/src/config`, `server/src/utils` | files, none, none | read at start-up; output; salted hash |

Interaction: `startAccept` runs on any thread of the pool, unsynchronised; the completion handlers of
all connections are wrapped in one strand; handlers call routes, routes call the database and, through
the registry, `send` of another connection. The routes are created once: what a request leaves in a
member is there for the next one.

### 1.2 Client

| Part | Code | State | Operations |
|---|---|---|---|
| Application (main thread) | `client/src/application` | `isAuthenticatedUser`, `userID` | `connect` with registration or login, `request`, `message`, `exit` |
| Connection | `client/src/auth/Connection.*` | socket, `isEncryptionEnabled`, `isLastResponseReaded`, `lastResponse` | `sendRequest`, `readResponse` (spins), the reader thread: `handleRead`, `handleParseMessage` |
| Key exchange request | `client/src/messaging/PublicKeyExchangeRequest.*` | table `key_exchange_requests` | generate, DELETE, INSERT, send, wait for the response |
| Message parser (reader thread) | `client/src/messaging/MessageParser.*` | - | `exchangeKeys`, `readMessage` |
| Message | `client/src/messaging/Message.*` | table `messages` | `send`, `decryptMessage`, `getLastKeyFromDatabase` |
| Login, registration, requests, SQLite wrapper | `client/src/auth`, `http`, `database` | table `users` | one request each |

Interaction: both threads send requests through one connection and wait in `readResponse` for a flag
which the reader lowers after every frame and raises again before the next.

### 1.3 What is hard in it

* Interleaving: the accept handler against the strand (registry); main thread against reader (flags,
  key table); the requests of all clients on one route object.
* Atomicity: a registration is three transactions; a key request is a DELETE and an INSERT; a login
  reads, inserts into and erases from the registry.
* Blocking: `send` holds the only strand while another client's socket is full; the client's reader
  waits for what only it can read.
* Failure: queries and commits that throw, commits in doubt, a database that cannot be reached,
  clients that leave, the end of either process, with tables that survive it.
* Staleness: ids of connections become ids of accounts and keys of the registry.

The list with lines is under `hazards` in `PROJECT.json`.

### 1.4 What makes the parts correct

* Accounts: no two share a login or an address; the table is a directory to which accounts are only
  added, one by one (`AccountsDistinct`, `DirectoryKept`).
* Registry: a frame for a user reaches only a client that proved to be that user (`RoutedToOwner`);
  as accounts take the ids of connections, two accounts have one id only if one client opened both, or the
  connection had no id yet (`IdsOfOneClient`).
* Routes: a handler acts on its own request in spite of shared members (`NoCrossTalk`); stored frames are
  between two different accounts (`StoredForAccounts`).
* Strand: every request is answered or its connection goes, unless a client leaves its full socket unread
  for ever (`AnsweredUnlessUnread`). The server does not protect itself against such a client, and the
  client in this repository becomes one when it answers a key exchange (`AgreementBlocks`).
* Key exchange: the public key held of a user fits that user's private key (`KeysAgree`), and a
  key held is replaced by newer ones only (`HeldKeysAdvance`). What does not hold is that an exchange is confirmed and mutual; how bad this
  is say `AgreementBlocks` (the reader that answers a key is lost to its process) and `OneSidedForGood` (an
  exchange that is one-sided with nothing on its way stays so).
* Conversation: when nothing of a user is on its way or lost, the key the other one holds fits the private
  key the next message will be opened with (`KeysFollow`); neither key is ever replaced by an older one
  (`KeysMoveOn`), and what comes in is locked with a key that its reader has told (`LocksWereTold`); a client opens only the answer to the last message
  it stored (`TakesTurns`); rows that two threads file under different conversation ids stay few
  (`ShownAlmostAll`). What does not hold is that a message can be read (`MessageIsReadable`), and once both
  sides cannot, it never holds again (`StuckForGood`).

## 2. The modules

```
Database      TcpServer        PostgreSQL; accept loop, connections, strand, sockets
      \       /    \
   AccountRoutes  RelayRoutes  registration and login; key exchange and messages
            \      /
         MessengerServer  ---->  AccountDirectory   (refinement: DirectoryKept)
          /          \
     MCServer   MessengerServerProofs <- RelayProofs

ClientConnection <- KeyExchange <- MCClient
       ^                 ^
       |          KeyExchangeProofs <- KeyAgreement
       |
  Conversation  ---->  TurnTaking   (refinement: TakesTurns)
     /     \               \
MCConversation  \        TurnTakingProofs
                 \               \
     ConversationProofs <- ConversationParts <- ConversationTurns
```

**TcpServer.** `connections`, `connID`, `req`, `resp` are the fields of the same names. `pc[c]` says where
connection `c` stands: `hello` (the RSA key is being written), `reading` (async_read pending), `queued`
(the completion waits for the strand), a point of `HandlerPoints` (inside `Router::handleRequest`, between
two database calls), `writing`, `written`, `closed`. The accept handler has a position of its own
(`acceptor`) and three steps, as start, `setID` and the insertion are separate and unsynchronised. The strand
is the guard `StrandFree`. `unread` counts the frames in a client's socket; a write waits for room.
Where the insertion meets a handler that uses the map there is undefined behaviour: the entry is lost,
the look-up misses or the process dies.

**Database.** `users` is a set of rows, `messages` a sequence. Each call may fail before it has an
effect; a failed commit may or may not have happened. `DbFaults` says which faults an instance has.

**AccountRoutes, RelayRoutes.** One action per segment between two database calls. Members of the route
objects are variables (`loginUserID`, `leftover` for `decryptedBody`, `relay`); `userData` is the id that
a registration read. `presented` is a history variable: which logins a connection registered or
authenticated for. A relay request names the sender by an id that is not checked against the connection;
the model lets it be any id.

**MessengerServer.** Composes the above, adds the router's refusals, the one reachable step of
`MessageReceiver`, all ways in which the process dies, the kill and the restart. The registry is lost
then and the tables are kept. `doAsyncStop` needs no action of its own: a stop on SIGTERM lets a
handler end and is then a `Crash`.

**AccountDirectory.** What the account part promises: accounts are opened one at a time with a new login and
a new address and are never changed. `DirectoryKept` maps `users` to it.

**ClientConnection.** Two threads per user; `thread[u][t]` is the statement of `createRequest`,
`readResponse` or `exchangeKeys` at which thread `t` stands. The flags are those of `auth::Connection`.
The reader's `window` is the moment between `isLastResponseReaded = false` (Connection.cpp L138) and `= true`
(L101). The flag of `sendRequest` is read and raised again in two steps. Of the server it keeps
that requests of a connection are handled in order and answered in order. Registration and login are one
action, `SignIn`, which is granted or refused; a refused login may be repeated or the process ends.
`online` are the users whom the registry leads to. It changes while a login is handled and before the
response goes out (`ChangeEntry`), so that frames may be pushed in between; and it does not follow from a
login that was granted, because the server may erase the user's own entry (Login.cpp L58), lose it in the
race of the accept handler, or keep it after a commit in doubt. A frame that comes in before the first
response wakes the main thread with nothing to parse, which ends the process (`ParsesNothing`; client
Login.cpp L30). A thread that finds a response goes on with it, whosever it is.

**KeyExchange.** The command `request` and the reader's answer to a key, statement by statement, over the
table `key_exchange_requests` of each user, which survives the process. Pairs are numbers; a pair stands
for both of its keys. `spoiled` is a history variable: pairs of users for which a key was lost (peer without
an entry, request refused because it was encrypted by mistake or sent with an id not yet set, query failed, process ended) or two threads of one user made keys at once.

**Conversation.** The command `message` and the reader's `readMessage`, over the same threads and flags and
the table `messages` of each user. `message[u]` is the `Message` object of the main thread, `received[u]` the
locals of `readMessage`. A message has the public key for the answer (`key`) and names the pair with whose
public key its AES key was encrypted (`lock`); it opens if and only if `lock` is what `getLastKeyFromDatabase`
finds. The order is the code's: the own row is selected for and stored before the peer's last key is looked
up and before the request goes out (`SelectOwn`, `StoreOwn`, `EncryptAESKey`, then the flags,
`SendMessage`); the reader decrypts, selects, inserts and only then lowers the flag. Without rows the key
of the exchange is used (number 0). Each statement is a transaction, so the conversation id may be drawn by
both threads. A message that cannot be opened ends the process (`DecryptionDies`; so may one that could be,
when its cipher has a zero byte). The server pushes a message or loses it (`RelayMessage`): the receiver has no
entry, the look-up misses it, a query fails; RelayRoutes has the whole handler. A message that goes out encrypted would be lost, too, but here only the
main thread sends. `missed` is a history variable: pairs of users of whom a message was lost or could not be
read.

**TurnTaking.** The protocol behind it without threads, tables and sockets: `told` and `heard` keys, messages
on the wire, messages opened. A step notes a fresh key, sends it locked with the last key heard, opens
what fits the last key told, notes the key in it, or loses. `Conversation` maps to it so: `StoreOwn` is
`Tell`, `EncryptAESKey` is `Send`, `DecryptMessage` is `Open`, `StoreReceived` is `Hear`, the end of a process and
a message the server drops are `Lose`, everything else stutters.

## 3. The runs

| Run | Configuration | What it asks |
|---|---|---|
| accounts | 2 connections, 2 logins and 2 addresses in conflict, every kind of body, query and connect faults, kills | `TypeOK`, `AccountsDistinct`, `DirectoryKept` |
| routing | 2 connections, registrations and logins (right and wrong passwords), query faults, kills | `RoutedToOwner`, `IdsOfOneClient` |
| relay | 2 connections, frames of both routes from two senders, a body without key, one not JSON, all other targets, query faults, clients that leave | `NoCrossTalk`, `StoredForAccounts` |
| exchange | 2 logged-in users push key exchanges at each other, sockets that hold one frame, clients that leave or stop reading | `AnsweredUnlessUnread` |
| key_exchange | 2 clients, 3 pairs, one restart | client `TypeOK`, `KeysAgree`, `HeldKeysAdvance`, `AgreementBlocks`, `OneSidedForGood` |
| conversation | 2 clients with exchanged keys, 3 messages and stops in all, two stops at most | `TypeOK`, `KeysFollow`, `LocksWereTold`, `ShownAlmostAll`, `KeysMoveOn`, `TakesTurns`, `StuckForGood` |
| success, offline | one or two users | what the server's texts say and the code does not do |
| confirm, wakeup, mutual, readable | one or two clients | the same for the client |

All runs have `CHECK_DEADLOCK FALSE`: connections and requests of an instance are finite in number, a client
may have left, and a system in which nothing is left to do has not failed. Threads that wait for each
other are found by the liveness properties instead.

### 3.1 Bounds

* Two connections or clients. The races need a handler and the accept handler, or two clients with
  requests on one route, or two clients that push at each other: two actors each. A connection carries
  any number of requests one after the other, so sequences are not bounded.
* `SocketRoom = 1`: the smallest room, thus the most waiting. `MaxMessages = 1`: no relay request is
  sent once one row is stored; properties speak of each row alone.
* `MaxPairs = 3`: both users have a pair and one asks again, or both threads of one user and the other
  user. `MaxStops = 1`: one client ends once, at any point, and its table stays.
  `MaxRefusals = 1`: one login of one client is refused. `MaxOutbox = 1`: a client's request waits for
  the one before it to be handled; `MaxInbox`: a login is handled only when less than two frames are on
  their way to the client (the violations need one). The last two cap queues that a client can fill
  by signing in again and again while its reader stands in the window.
* In the run conversation `MaxPairs = 3` is the number of messages written and stops together: two messages
  that cross and one more, or a message, its answer and the answer to that, or two messages and a stop at
  any statement, or one message and two stops (`MaxStops = 2`). The ends by messages that cannot be opened and
  by responses that are empty come on top and are not bounded. The theorems have no such limit. `MaxInbox = 2` and `MaxOutbox = 1` as above; messages
  themselves are not capped by `MaxInbox`.
* Symmetry of connections and of users is used for safety only.
* Ids are drawn at random from 63 bits; draws are taken to be different from each other, from 0 and
  from all ids in the table.

### 3.2 Fairness

Server: completion handlers are taken from the strand in the order in which they came, which is stronger
than the strong fairness assumed of each (the strand is free again and again). A handler that runs is a thread
of the pool: weak fairness. An asynchronous write whose socket has room again and again gets through:
strong fairness. No fairness is assumed of what clients do: they need not send, leave, connect or read,
and none of kills or restarts. `AnsweredUnlessUnread` therefore has two outcomes: the request is answered
(or its connection goes), or one client leaves its full socket unread from some moment on (`WaitsFor`) while
the write of the handler that holds the strand, or of the response, waits for that socket. The second
outcome is a real one: a client that answered a key exchange keeps its socket open and never arms another
read (runs `confirm` and key_exchange, `AgreementBlocks`), so that a push to it may hold up the whole server. What
the property adds is that nothing else does: not two clients that push at each other, not a client that
left, not the strand, and not several clients in turn.

Client: weak fairness of the reader, of each thread inside `createRequest` and `readResponse`, and of the
server. A thread that spins on a flag looks at it infinitely often, yet at no particular
moment: weak fairness of `ReadResponse`, which the window disables again and again, is all that holds.

### 3.3 Disagreements found

Server:

* A database fault while a frame is stored is answered with success (`success`; KeyRequester.cpp L193).
* A frame for a user whose client left goes to a dead socket and is not stored (`offline`; the
  registry entry is never removed).

Client:

* The answer to a key exchange blocks the reader for ever (`confirm`; MessageParser.cpp L56). `AgreementBlocks` says
  that this is no matter of luck: the frame behind never comes in, and the UPDATE of L58 never runs there.
* A response can be missed by the thread that waits for it (`wakeup`; Connection.cpp L138).
* An exchange can become one-sided for good (`mutual`; PublicKeyExchangeRequest.cpp L61). By
  `OneSidedForGood` neither another command, nor an answer, nor a restart of either client mends it.
* Two messages that cross can be read by neither side, and end both clients (`readable`; Message.cpp L118,
  L201). By `StuckForGood` the conversation is over then: keys of a new exchange would be looked up only if
  the table had no rows, and the command `request` refuses one anyway.

Further observations are in the model as steps but have no run of their own:

* The request for stored messages with a query ends the process (`FetchDies`); so does a database that
  cannot be reached (`ConnectDies`), and a second login on one connection, which erases the end iterator
  (`EraseEnd`).
* A user who registers and then logs in on one connection loses the registry entry, and is taken for
  offline from then on (`Rekeyed`; Login.cpp L58).
* One client that keeps its socket open and full without reading stops the server for everybody: `send` is a
  blocking write inside a handler on the only strand (`Push`, `WaitsFor`; TcpConnection.cpp L121).
* A request target that cannot be parsed ends the process (`RouterDies`; Router.cpp L45).
* A frame that is pushed to a client before its first response ends that client (`ParsesNothing`).
* After one body that is not JSON, all later ones of the route are refused (`ParseFails`; Registration.cpp L60).
* The row stored for a message is that of a key exchange, without the text (`StoredRow`).
* The two checks at Registration.cpp L28 and L38 are named the other way round compared with the texts
  they answer with; the model keeps the code's order.
* A cipher with a zero byte in it ends the client that reads it (`DecryptionDies`; Message.cpp L211).
* Two threads that draw a conversation id each leave a row that `loadMessages` shows alone, or hides
  (`ShownAlmostAll` says how far this goes; MessageParser.cpp L93).
* `cin >>` leaves the end of the line behind, so that `getline` returns at once and an empty message goes
  out each time a conversation is opened (Application.cpp L292, L303). The text is not part of the model:
  an empty message is a message.
* MessageReceiver.cpp L152 would return an empty response exactly when the stored messages could be read,
  but nothing reaches it.

## 4. What is proved

`MessengerServerProofs` holds for every set of connections, users, requests and faults that meets the
named assumptions (`ConnAssumption`, `OldUsersAssumption`, `ServerAssumption` and those of `Database`).

* `TypeCorrect`: `Spec => []TypeOK`. `TypeOK` is inductive; one lemma per module covers its actions.
* `AccountsStayDistinct`: `Spec => []AccountsDistinct`. Alone it is not inductive: a registration that
  is about to insert must still be entitled to. `AccountsInv` adds `Checked` (what a registration has
  learned from its SELECTs is still so) and, since another registration could spoil that, `OneHandler`
  (the strand). Requests of a running handler do not change (`RequestKept`).
* `DirectoryImplemented`: `Spec => DirectoryKept`, step by step under `AccountsInv`.
* `RoutedToOwnerAlways`: `Spec => []RoutedToOwner`. `RoutingInv` says where an entry can come from:
  accounts have the id of the connection that opened them (`OwnIds`, `Registrars`), an entry is under its
  connection's own id or was moved by a login (`EntriesEarned`), and the login that is about to move one
  has checked the password of the account whose id the shared member still holds (`RekeyEarned`, where
  `OneHandler` is needed again).
* `IdsStayWithClient`: `Spec => []IdsOfOneClient`, from `RoutingInv` with `Newcomers`: an account opened since the
  start has the id of a connection of this server, or none. The id is drawn once for a connection (`OwnIds`), so two
  accounts with one id were registered over the one connection that has it.

`RelayProofs` goes on from there, under the same assumptions.

* `NoCrossTalkAlways`: `Spec => []NoCrossTalk`, and `StoredForAccountsAlways`: `Spec => []StoredForAccounts`. Both
  from `SharedInv`: `RoutingInv`, `NoCrossTalk` itself, which route a point of the relay handlers belongs to
  (`OnRoute`), and that a frame which got past the comparison of sender and receiver is to somebody else
  (`Apart`). The proof takes the invariant apart by connection (`Parts`): a step changes the members of a
  route only for the handler that runs, and `OneHandler` says that there is one. That the users named in
  the members still have accounts rests on the table only growing.

`KeyExchangeProofs` and `KeyAgreement` hold for every set of users and all values of the bounds, under
`ExchangeAssumption` and `ConnectionAssumption`.

* `TypeCorrect`: `Spec => []TypeOK`, with what a thread or the reader has in its hands at each statement (`Fit`).
* `AgreementAlwaysBlocks`: `Spec => AgreementBlocks`. `FlagInv`: the flag is down only while the reader stands in its
  window, which a reader in `readResponse` does not.
* `OneSidedStays`: `Spec => OneSidedForGood`. What is on its way from `v` to `u` is taken apart by place (`Parts`),
  so that for each step it is shown that no place receives a key (`NoneFor`, `NoneOf`): `v` makes a key for `u` by
  the command, which finds that keys were exchanged, or in answer to one of `u`, which is made only without a row.
* `KeysAgreeAlways`: `Spec => []KeysAgree`. The inductive invariant `Inv` follows the keys of one user for another
  by their numbers. `Pending` is all that is on its way: the key the other's reader holds (`Taken`), those in
  its inbox (`Coming`), those in the outbox (`Sending`), the one being made (`Prepared`). `OrderInv`: they
  are on their way in the order in which they were made, because the UPDATE overwrites and the last to arrive
  is kept. `RowInv`: one thread makes a key at a time, and between DELETE and INSERT there is no row, so
  that the row inserted is the first (the one `KeysAgree` reads). `LastInv`: the private key in the row
  is that of the newest key on its way; `HeldInv`: when none is, that of the key the other holds. `UserInv` is
  needed for the end of a process: a reader that makes a request before its UPDATE holds no other
  key of that user, so that the stop loses nothing that was agreed. `NewerInv`: the public key held is not newer than
  any on its way, nor than the last one made. Each action has a lemma; `KeysKept`,
  `PublicKept` and `PrivateKept` say what leaves a pair of users alone (`PairKept`), and one lemma each covers
  a key that is made, taken, put down.
* `KeysAdvance`: `Spec => HeldKeysAdvance`, from `Inv` and `UniformInv` (all rows of one peer hold one public key, as
  the UPDATE writes them all): what a step writes was on its way, and `NewerInv` compares it with what was there.

`TurnTakingProofs`: `StuckStays`, the theorem about the abstract protocol. Every key that is told, heard or on
its way is in `used` (`Inv`), a new one is not; so nothing that either end still sends can fit.

`ConversationProofs`, `ConversationParts` and `ConversationTurns` hold for every set of users and all values of the
bounds, under `ConversationAssumption` and `ConnectionAssumption`.

* `TypeCorrect`: `Spec => []TypeOK`, with where each thread stands while it has a message in its hands.
* `ShownAlmostAllAlways`: `Spec => []ShownAlmostAll`. The inductive invariant `FiledInv` speaks of the rows whose
  conversation id is not that of the first one (`StrayRows`) and of the threads that are about to insert such a
  row (`OwnStray`, `OtherStray`): of these three there is one at the most. An id can only go astray when the
  other thread makes the first row after it was drawn (`FiledAppend`); afterwards a SELECT finds that row.
* `Implements`: `Spec => TakesTurns`; `Follows`: `Spec => []KeysFollow`; `StuckRemains`: `Spec => StuckForGood`, the last
  from `StuckStays` through the refinement mapping. The inductive invariant `Inv` follows the messages of one user for another on their whole way, pair by pair:
  `OrderInv`, the message opened is older than those in the inbox, these than those in the outbox, these than
  the one being written, by the numbers of their keys; `KeyInv`, a key belongs to the two who use it and a
  new one is newer than all in the table, so that `StoreOwn` tells a fresh key; `HeardInv`, what was heard is older
  than what is on its way, so that `StoreReceived` inserts the newest; `FollowInv`, the key told last is heard
  or on its way unless a message was lost, which gives `KeysFollow` when nothing is. Order is needed because
  `PublicKey` is the *last* row: with messages out of order a later INSERT would bring back an older key.
* `KeysNeverReturn`: `Spec => KeysMoveOn`, from `Inv`. The lemma of each action that inserts a row also
  says that it only goes forward (`Growing`); `Idle` covers the others.
* `LocksAreTold`: `Spec => []LocksWereTold`. It is proved on the state of the abstract protocol, through the
  refinement mapping: `LockInv` says that the key one locks with, and every key and lock on its way or just opened, is
  one that its owner has told. A step of `TurnTaking` moves keys from hand to hand, and what was told
  stays told (`Growing`).
  `ConversationParts` says what steps do to the outbox, the inbox and the table; `ConversationTurns` has one
  lemma per action, once for the invariant and once for its step of `TurnTaking`.

Every property that the runs find to hold is proved but one. Only model-checked: liveness (`AnsweredUnlessUnread`),
which is out of the prover's reach.

## 5. What is not modelled

* Configuration, logging, formatting of requests, command-line texts: no state that matters.
* Cryptography and hashing are perfect. A body can or cannot be decrypted.
* Bytes: frames, requests and SQL statements are atomic. Two writes to one socket do not mix, and a
  SQLite statement never meets a lock.
* A second `connect` in one client process; a client whose server dies (its reader ends silently and
  its main thread waits for ever).
* In the client modules all users have accounts with ids of their own. A push and the answer to its
  sender are one step there; the server modules tell them apart.
* A key exchange and messages in one instance: `KeyExchange` and `Conversation` share `ClientConnection` and
  each has the other's table constant. They touch only where the first message is locked with the key of
  the exchange; that this key fits is `KeysAgree`.
* The texts of messages, and the dead code of `MessageReceiver` (all of it but `decryptUserPassword`; see
  `FetchTarget`): a target with a query ends the process before the route is entered.

## 6. Plan

Done in this order: TcpServer, Database, AccountRoutes, AccountDirectory, RelayRoutes, MessengerServer with
its proofs; ClientConnection, KeyExchange; TurnTaking, Conversation with their proofs; RelayProofs;
KeyExchangeProofs, KeyAgreement.

Left, in this order:

1. A second `connect` in one client, and clients whose server restarts.
