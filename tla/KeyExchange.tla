----------------------------- MODULE KeyExchange -----------------------------
(***************************************************************************)
(* The exchange of RSA keys between users: the command `request`           *)
(* (Application::sendRequestForKeyExchange), the request that either       *)
(* thread makes (PublicKeyExchangeRequest), what the reader does with a    *)
(* key that comes in (MessageParser::exchangeKeys), and the table          *)
(* key_exchange_requests of each client's SQLite file, which outlives the  *)
(* process.  Every statement is a transaction of its own.                  *)
(***************************************************************************)
EXTENDS ClientConnection

CONSTANTS
    NoKey,     \* receiver_public_key IS NULL
    MaxPairs,  \* bound: the key pairs that are generated
    MaxStops   \* bound: how often a client is ended

ASSUME ExchangeAssumption ==
    /\ MaxPairs \in Nat /\ MaxStops \in Nat
    /\ NoKey \notin User \cup (1 .. MaxPairs)

VARIABLES
    requests,   \* requests[u][v]: u's rows for v, in order of their ids
    made,       \* how many pairs have been generated
    making,     \* making[u][t]: for whom, and the pair, of the request thread t makes
    stops,      \* how often a client was ended
    arrived,    \* the key the reader of u is storing, and whose it is
    spoiled     \* pairs <<u, v>>: a key of u for v was lost, or u's two threads made
                \* one at the same time (history: no code reads it)

exchangeVars == <<requests, made, making, stops, arrived, spoiled>>

vars == <<connVars, exchangeVars>>

\* A pair stands for its private and for its public key; all are different.
Pairs == 1 .. MaxPairs

Nothing == [peer |-> NoKey, pair |-> NoKey]
Made == [peer : User, pair : Pairs] \cup {Nothing}

\* A row of the table, and what a client sends and gets.
Row == [private : Pairs, public : Pairs \cup {NoKey}]
Request == [kind : {"login"}, to : User] \cup [kind : {"key"}, to : User, pair : Pairs]
Sent == [request : Request, plain : BOOLEAN]
Frame == [kind : {"response"}, what : {"authenticated", "other"}]
             \cup [kind : {"key"}, from : User, pair : Pairs]

Init ==
    /\ ConnInit
    /\ requests = [u \in User |-> [v \in User |-> << >>]]
    /\ made = 0
    /\ making = [u \in User |-> [t \in Threads |-> Nothing]]
    /\ stops = 0
    /\ arrived = [u \in User |-> Nothing]
    /\ spoiled = {}

----------------------------------------------------------------------------
(* PublicKeyExchangeRequest *)

Preparing == {"chosen", "deleted", "ready", "disabled"}

\* The threads of u that have not sent the request they make for v.
Preparers(u, v) ==
    {t \in Threads : thread[u][t] \in Preparing /\ making[u][t].peer = v}

\* The constructor generates the keys.
Generate(u, t, v) ==
    /\ made < MaxPairs
    /\ made' = made + 1
    /\ making' = [making EXCEPT ![u][t] = [peer |-> v, pair |-> made']]
    /\ spoiled' = IF Preparers(u, v) = {} THEN spoiled ELSE spoiled \cup {<<u, v>>}
    /\ Goto(u, t, "chosen")

\* Variant: the rows of earlier requests stay.
DeleteNothing(u, t) ==
    /\ At(u, t, "chosen")
    /\ Goto(u, t, "deleted")
    /\ UNCHANGED <<running, isAuthenticatedUser, isLastResponseReaded, lastResponse,
                   isEncryptionEnabled, outbox, inbox, online, refusals, exchangeVars>>

\* savePrivateKeyToDatabase, first statement
DeleteRequest(u, t) ==
    /\ At(u, t, "chosen")
    /\ requests' = [requests EXCEPT ![u][making[u][t].peer] = << >>]
    /\ Goto(u, t, "deleted")
    /\ UNCHANGED <<running, isAuthenticatedUser, isLastResponseReaded, lastResponse,
                   isEncryptionEnabled, outbox, inbox, online, refusals, made, making, stops,
                   arrived, spoiled>>

\* ... and second statement
InsertRequest(u, t) ==
    /\ At(u, t, "deleted")
    /\ requests' = [requests EXCEPT ![u][making[u][t].peer] =
                        Append(@, [private |-> making[u][t].pair, public |-> NoKey])]
    /\ Goto(u, t, "ready")
    /\ UNCHANGED <<running, isAuthenticatedUser, isLastResponseReaded, lastResponse,
                   isEncryptionEnabled, outbox, inbox, online, refusals, made, making, stops,
                   arrived, spoiled>>

SendKey(u, t) ==
    /\ At(u, t, "disabled")
    /\ SendRequest(u, t, [kind |-> "key", to |-> making[u][t].peer, pair |-> making[u][t].pair])
    /\ making' = [making EXCEPT ![u][t] = Nothing]
    /\ UNCHANGED <<requests, made, stops, arrived, spoiled>>

----------------------------------------------------------------------------
(* The command `request` *)

HasExchanged(u, v) ==
    \E i \in DOMAIN requests[u][v] : requests[u][v][i].public # NoKey

\* Variant: a user who did not sign in may ask for keys.
RequestUnchecked(u, v) ==
    /\ At(u, "main", "idle")
    /\ v # u
    /\ ~HasExchanged(u, v)
    /\ Generate(u, "main", v)
    /\ UNCHANGED <<running, isAuthenticatedUser, isLastResponseReaded, lastResponse,
                   isEncryptionEnabled, outbox, inbox, online, refusals, requests, stops, arrived>>

\* Variant: whether keys were exchanged is not asked.
RequestAgain(u, v) ==
    /\ At(u, "main", "idle")
    /\ isAuthenticatedUser[u]
    /\ v # u
    /\ Generate(u, "main", v)
    /\ UNCHANGED <<running, isAuthenticatedUser, isLastResponseReaded, lastResponse,
                   isEncryptionEnabled, outbox, inbox, online, refusals, requests, stops, arrived>>

RequestKeys(u, v) ==
    /\ At(u, "main", "idle")
    /\ isAuthenticatedUser[u]
    /\ v # u
    /\ ~HasExchanged(u, v)
    /\ Generate(u, "main", v)
    /\ UNCHANGED <<running, isAuthenticatedUser, isLastResponseReaded, lastResponse,
                   isEncryptionEnabled, outbox, inbox, online, refusals, requests, stops, arrived>>

----------------------------------------------------------------------------
(* MessageParser::exchangeKeys *)

\* Variant: the frame that came in last is read first.
TakeNewestKey(u) ==
    LET last == Len(inbox[u])
        frame == inbox[u][last]
    IN  /\ At(u, "reader", "idle")
        /\ inbox[u] # << >>
        /\ frame.kind = "key"
        /\ requests[u][frame.from] # << >>
        /\ arrived' = [arrived EXCEPT ![u] = [peer |-> frame.from, pair |-> frame.pair]]
        /\ inbox' = [inbox EXCEPT ![u] = SubSeq(@, 1, last - 1)]
        /\ Goto(u, "reader", "updating")
        /\ UNCHANGED <<running, isAuthenticatedUser, isLastResponseReaded, lastResponse,
                       isEncryptionEnabled, outbox, online, refusals, requests, made, making,
                       stops, spoiled>>

\* A key comes in.  With a row for its sender it will be stored there; without
\* one the callback agrees and the reader makes a request of its own first.
TakeKey(u) ==
    /\ HasFrame(u, "key")
    /\ LET frame == Head(inbox[u])
       IN  /\ arrived' = [arrived EXCEPT ![u] = [peer |-> frame.from, pair |-> frame.pair]]
           /\ \/ /\ requests[u][frame.from] # << >>
                 /\ Goto(u, "reader", "updating")
                 /\ UNCHANGED <<made, making, spoiled>>
              \/ /\ requests[u][frame.from] = << >>
                 /\ Generate(u, "reader", frame.from)
    /\ inbox' = [inbox EXCEPT ![u] = Tail(@)]
    /\ UNCHANGED <<running, isAuthenticatedUser, isLastResponseReaded, lastResponse,
                   isEncryptionEnabled, outbox, online, refusals, requests, stops>>

\* UPDATE: every row of the sender, or none.
StoreKey(u) ==
    /\ At(u, "reader", "updating")
    /\ LET v == arrived[u].peer
       IN  requests' = [requests EXCEPT ![u][v] =
                            [i \in DOMAIN @ |-> [@[i] EXCEPT !.public = arrived[u].pair]]]
    /\ arrived' = [arrived EXCEPT ![u] = Nothing]
    /\ Lower(u)
    /\ UNCHANGED <<running, isAuthenticatedUser, lastResponse, isEncryptionEnabled,
                   outbox, inbox, online, refusals, made, making, stops, spoiled>>

----------------------------------------------------------------------------
(* The server relays a key; the process ends *)

\* A key is pushed to its receiver, or lost: a request that is not in clear cannot
\* be parsed, one whose sender_id is not yet set (the reader answered before setID)
\* or whose queries fail is refused; a key for a user without an entry, or whose
\* entry the look-up missed, is stored and never fetched.
RelayKey(u) ==
    /\ outbox[u] # << >>
    /\ LET message == Head(outbox[u])
           v == message.request.to
       IN  /\ message.request.kind = "key"
           /\ \/ /\ message.plain
                 /\ v \in online
                 /\ inbox' = [inbox EXCEPT
                        ![v] = Append(@, [kind |-> "key", from |-> u,
                                          pair |-> message.request.pair]),
                        ![u] = Append(@, Answer("other"))]
                 /\ UNCHANGED spoiled
              \/ /\ inbox' = [inbox EXCEPT
                        ![u] = Append(@, Answer("other"))]
                 /\ spoiled' = spoiled \cup {<<u, v>>}
    /\ outbox' = [outbox EXCEPT ![u] = Tail(@)]
    /\ UNCHANGED <<running, thread, isAuthenticatedUser, isLastResponseReaded, lastResponse,
                   isEncryptionEnabled, online, refusals, requests, made, making, stops, arrived>>

\* What is lost with the process of u: the keys it was about to send or had
\* sent, and those of others that it had not read or was about to store.
LostBy(u) ==
    {<<u, v>> : v \in {w \in User : Preparers(u, w) # {}}}
        \cup {<<u, outbox[u][i].request.to>> :
                 i \in {j \in DOMAIN outbox[u] : outbox[u][j].request.kind = "key"}}
        \cup {<<inbox[u][i].from, u>> :
                 i \in {j \in DOMAIN inbox[u] : inbox[u][j].kind = "key"}}
        \cup (IF thread[u]["reader"] = "updating" THEN {<<arrived[u].peer, u>>} ELSE {})

End(u) ==
    /\ \/ stops < MaxStops /\ stops' = stops + 1
       \/ ParsesNothing(u) /\ UNCHANGED stops
    /\ Stop(u)
    /\ spoiled' = spoiled \cup LostBy(u)
    /\ making' = [making EXCEPT ![u] = [t \in Threads |-> Nothing]]
    /\ arrived' = [arrived EXCEPT ![u] = Nothing]
    /\ UNCHANGED <<requests, made>>

----------------------------------------------------------------------------

\* What the user of u decides.
UserStep(u) ==
    \/ (Connect(u) \/ SignIn(u)) /\ UNCHANGED exchangeVars
    \/ \E v \in User : RequestKeys(u, v)
    \/ End(u)

\* createRequest and readResponse, on either thread.
ThreadStep(u, t) ==
    \/ (DisableEncryption(u, t) \/ EnableEncryption(u, t) \/ ReadResponse(u, t))
           /\ UNCHANGED exchangeVars
    \/ DeleteRequest(u, t) \/ InsertRequest(u, t) \/ SendKey(u, t)

ReaderStep(u) ==
    \/ (TakeResponse(u) \/ HandleRead(u)) /\ UNCHANGED exchangeVars
    \/ TakeKey(u) \/ StoreKey(u)

ServerStep(u) ==
    \/ (ChangeEntry(u) \/ HandleLogin(u)) /\ UNCHANGED exchangeVars
    \/ RelayKey(u)

Next ==
    \E u \in User :
        \/ UserStep(u) \/ ReaderStep(u) \/ ServerStep(u)
        \/ \E t \in Threads : ThreadStep(u, t)

Spec == Init /\ [][Next]_vars

\* The threads of a client and the server go on.  A thread that spins in
\* readResponse looks at the flag again and again, but not at every moment:
\* WF, not SF.  Nobody has to connect, to sign in, to ask for keys or to leave.
FairSpec ==
    /\ Spec
    /\ \A u \in User :
          /\ WF_vars(ReaderStep(u))
          /\ WF_vars(ServerStep(u))
          /\ \A t \in Threads : WF_vars(ThreadStep(u, t))

----------------------------------------------------------------------------
(* Safety *)

\* Every variable has its type; a thread knows the peer and the pair from
\* generateKeys until its request is sent, the reader has a key from the frame
\* until the UPDATE, only the reader leaves createRequest for the UPDATE, and the
\* main thread makes a request only for a user who signed in.
TypeOK ==
    /\ running \subseteq User
    /\ online \subseteq User
    /\ refusals \in 0 .. MaxRefusals
    /\ thread \in [User -> [Threads -> Points]]
    /\ isAuthenticatedUser \in [User -> BOOLEAN]
    /\ isLastResponseReaded \in [User -> BOOLEAN]
    /\ lastResponse \in [User -> {"authenticated", "other", NoResponse}]
    /\ isEncryptionEnabled \in [User -> BOOLEAN]
    /\ outbox \in [User -> Seq(Sent)]
    /\ inbox \in [User -> Seq(Frame)]
    /\ requests \in [User -> [User -> Seq(Row)]]
    /\ made \in 0 .. MaxPairs
    /\ making \in [User -> [Threads -> Made]]
    /\ stops \in 0 .. MaxStops
    /\ arrived \in [User -> Made]
    /\ spoiled \subseteq User \X User
    /\ \A u \in User :
          /\ \A t \in Threads : thread[u][t] \in Preparing <=> making[u][t] # Nothing
          /\ thread[u]["main"] \notin {"updating", "window"}
          /\ thread[u]["main"] \in Preparing => isAuthenticatedUser[u]
          /\ thread[u]["reader"] \in {"idle", "window"} <=> arrived[u] = Nothing

\* No key of u for v is on its way: none is being made, sent or stored.
Settled(u, v) ==
    /\ Preparers(u, v) = {}
    /\ \A i \in DOMAIN outbox[u] :
           outbox[u][i].request.kind = "key" => outbox[u][i].request.to # v
    /\ \A i \in DOMAIN inbox[v] :
           inbox[v][i].kind = "key" => inbox[v][i].from # u
    /\ thread[v]["reader"] = "updating" => arrived[v].peer # u

\* When nothing is on its way, the public key that v holds of u belongs to the
\* private key that u will decrypt with, unless a key of u was lost or both
\* threads of u were making one.
KeysAgree ==
    \A u, v \in User :
        (u # v /\ Settled(u, v) /\ <<u, v>> \notin spoiled /\ HasExchanged(v, u)) =>
            /\ requests[u][v] # << >>
            /\ Head(requests[v][u]).public = Head(requests[u][v]).private

\* The keys of u that v stores are each newer than the one stored before, however many
\* requests of u are on their way and whatever v does to its own row meanwhile.
HeldKeysAdvance ==
    [][\A u, v \in User :
           \A i \in DOMAIN requests[v][u], j \in DOMAIN requests'[v][u] :
               LET old == requests[v][u][i].public
                   new == requests'[v][u][j].public
               IN  (u # v /\ NoKey \notin {old, new} /\ <<u, v>> \notin spoiled) => old <= new]_vars

\* A reader that agreed to an exchange and waits for the response waits until its process
\* ends: only the reader lowers the flag that it waits for.  So a key that came in before
\* the user asked for one is never stored.
AgreementBlocks ==
    [][\A u \in User :
           thread[u]["reader"] = "awaiting" =>
               thread'[u]["reader"] = "awaiting" \/ u \notin running']_vars

\* v holds a key of u, u none of v, and none of v is on its way to u.
OneSided(u, v) == HasExchanged(v, u) /\ ~HasExchanged(u, v) /\ Settled(v, u)

\* An exchange that has become one-sided stays so: the command of v finds it done, the
\* reader of v has a row and only stores, and what u asks again is answered by nobody.
OneSidedForGood == [][\A u, v \in User : OneSided(u, v) => OneSided(u, v)']_vars

----------------------------------------------------------------------------
(* What the repository says and the code does not do *)

\* Both threads of u are done, and nothing is on its way from or to u.
Quiet(u) ==
    /\ \A t \in Threads : thread[u][t] = "idle"
    /\ inbox[u] = << >> /\ outbox[u] = << >>

\* The user of v, who holds a key of u, is told "You have already exchanged keys
\* with this user!".  Then u holds a key of v, unless something is on its way or
\* was lost.
ExchangeIsMutual ==
    \A u, v \in User :
        (/\ Quiet(u) /\ Quiet(v)
         /\ {<<u, v>>, <<v, u>>} \cap spoiled = {}
         /\ HasExchanged(v, u)) => HasExchanged(u, v)

\* readResponse returns the response: a main thread that waits for one goes on.
ResponseIsRead == \A u \in User : thread[u]["main"] = "awaiting" ~> thread[u]["main"] # "awaiting"

\* The reader that agreed to an exchange goes on to store the key that came in.
ExchangeIsConfirmed ==
    \A u \in User : thread[u]["reader"] = "awaiting" ~> thread[u]["reader"] # "awaiting"
=============================================================================
