-------------------------- MODULE ClientConnection --------------------------
(***************************************************************************)
(* client/src/auth/Connection: what the two threads of a client share.     *)
(* The main thread runs the commands of Application; the reader runs       *)
(* handleRead and handleParseMessage, one frame after the other.  Both     *)
(* send requests and wait in readResponse for an answer.                   *)
(*                                                                         *)
(* Of the server, which MessengerServer details, this module keeps the     *)
(* order: the requests of a connection are handled one after the other,    *)
(* and what is written to a socket is read in that order.                  *)
(***************************************************************************)
EXTENDS Naturals, Sequences

CONSTANTS
    User,        \* the users; each runs one client
    NoResponse,  \* lastResponse before the first response
    MaxOutbox,   \* bound: the requests of a client on their way
    MaxRefusals, \* bound: the logins that are refused
    MaxInbox     \* bound: no login is handled with so many frames on their way

ASSUME ConnectionAssumption ==
    /\ MaxOutbox \in Nat \ {0} /\ MaxInbox \in Nat \ {0} /\ MaxRefusals \in Nat
    /\ NoResponse # "authenticated"

Threads == {"main", "reader"}

(***************************************************************************)
(* Where a thread stands.  "idle": the main thread at the command prompt,  *)
(* the reader in async_read.  "chosen" and "deleted" are points of         *)
(* PublicKeyExchangeRequest::createRequest, "typed", "selected" and        *)
(* "stored" of Message::send; from "ready" on the two are alike;           *)
(* "awaiting" is inside readResponse.  Only the reader stores a key        *)
(* ("updating"), stores a message ("opened", "filed") and is between the   *)
(* end of a handler and the next handleRead ("window").                    *)
(***************************************************************************)
Points == {"idle", "chosen", "deleted", "typed", "selected", "stored", "ready", "disabled",
           "written", "awaiting", "updating", "opened", "filed", "window"}

VARIABLES
    running,               \* the users whose client is running and connected
    thread,                \* where each of its threads stands
    isAuthenticatedUser,
    isLastResponseReaded,
    lastResponse,
    isEncryptionEnabled,
    outbox,                \* requests on their way to the server
    inbox,                 \* frames on their way to the client
    online,                \* the users whom the server can push frames to
    refusals               \* how many logins have been refused

connVars == <<running, thread, isAuthenticatedUser, isLastResponseReaded, lastResponse,
              isEncryptionEnabled, outbox, inbox, online, refusals>>

ConnInit ==
    /\ running = {}
    /\ thread = [u \in User |-> [t \in Threads |-> "idle"]]
    /\ isAuthenticatedUser = [u \in User |-> FALSE]
    /\ isLastResponseReaded = [u \in User |-> FALSE]
    /\ lastResponse = [u \in User |-> NoResponse]
    /\ isEncryptionEnabled = [u \in User |-> TRUE]
    /\ outbox = [u \in User |-> << >>]
    /\ inbox = [u \in User |-> << >>]
    /\ refusals = 0
    /\ online = {}

At(u, t, p) == u \in running /\ thread[u][t] = p

Goto(u, t, p) == thread' = [thread EXCEPT ![u][t] = p]

----------------------------------------------------------------------------
(* The connection's life *)

\* A new process, or the command `connect`: a new Connection, whose reader is
\* started by authenticateUser and has run handleRead once.
Connect(u) ==
    /\ u \notin running
    /\ running' = running \cup {u}
    /\ isLastResponseReaded' = [isLastResponseReaded EXCEPT ![u] = TRUE]
    /\ UNCHANGED <<thread, isAuthenticatedUser, lastResponse, isEncryptionEnabled,
                   outbox, inbox, online, refusals>>

\* The process ends; what is in its socket goes with it.  The server's registry
\* keeps the connection, but what is pushed to it is lost.
Stop(u) ==
    /\ u \in running
    /\ running' = running \ {u}
    /\ thread' = [thread EXCEPT ![u] = [t \in Threads |-> "idle"]]
    /\ isAuthenticatedUser' = [isAuthenticatedUser EXCEPT ![u] = FALSE]
    /\ isLastResponseReaded' = [isLastResponseReaded EXCEPT ![u] = FALSE]
    /\ lastResponse' = [lastResponse EXCEPT ![u] = NoResponse]
    /\ isEncryptionEnabled' = [isEncryptionEnabled EXCEPT ![u] = TRUE]
    /\ outbox' = [outbox EXCEPT ![u] = << >>]
    /\ inbox' = [inbox EXCEPT ![u] = << >>]
    /\ online' = online \ {u}
    /\ UNCHANGED refusals

----------------------------------------------------------------------------
(* Requests *)

\* disableEncryptionForNextRequest
DisableEncryption(u, t) ==
    /\ At(u, t, "ready")
    /\ isEncryptionEnabled' = [isEncryptionEnabled EXCEPT ![u] = FALSE]
    /\ Goto(u, t, "disabled")
    /\ UNCHANGED <<running, isAuthenticatedUser, isLastResponseReaded, lastResponse,
                   outbox, inbox, online, refusals>>

\* sendRequest: the flag belongs to the connection, not to the request, ...
SendRequest(u, t, request) ==
    /\ Len(outbox[u]) < MaxOutbox
    /\ outbox' = [outbox EXCEPT ![u] = Append(@, [request |-> request,
                                                  plain |-> ~isEncryptionEnabled[u]])]
    /\ Goto(u, t, IF isEncryptionEnabled[u] THEN "awaiting" ELSE "written")
    /\ UNCHANGED <<running, isAuthenticatedUser, isLastResponseReaded, lastResponse,
                   isEncryptionEnabled, inbox, online, refusals>>

\* ... and goes up again after a request in clear was written.
EnableEncryption(u, t) ==
    /\ At(u, t, "written")
    /\ isEncryptionEnabled' = [isEncryptionEnabled EXCEPT ![u] = TRUE]
    /\ Goto(u, t, "awaiting")
    /\ UNCHANGED <<running, isAuthenticatedUser, isLastResponseReaded, lastResponse,
                   outbox, inbox, online, refusals>>

\* authenticateUser, once or, after a refusal, again.
SignIn(u) ==
    /\ At(u, "main", "idle")
    /\ ~isAuthenticatedUser[u]
    /\ SendRequest(u, "main", [kind |-> "login", to |-> u])

\* Variant: readResponse does not wait.
ReadAtOnce(u, t) ==
    /\ At(u, t, "awaiting")
    /\ Goto(u, t, IF t = "main" THEN "idle" ELSE "updating")
    /\ isAuthenticatedUser' =
           [isAuthenticatedUser EXCEPT ![u] = @ \/ lastResponse[u] = "authenticated"]
    /\ UNCHANGED <<running, isLastResponseReaded, lastResponse, isEncryptionEnabled,
                   outbox, inbox, online, refusals>>

\* readResponse returns when it finds the flag down, whatever lowered it.
Awoken(u, t) ==
    /\ At(u, t, "awaiting")
    /\ ~isLastResponseReaded[u]

\* The thread goes on with the last response there was, which need not be its own.
ReadResponse(u, t) ==
    /\ Awoken(u, t)
    /\ lastResponse[u] # NoResponse
    /\ Goto(u, t, IF t = "main" THEN "idle" ELSE "updating")
    /\ isAuthenticatedUser' =
           [isAuthenticatedUser EXCEPT ![u] = @ \/ lastResponse[u] = "authenticated"]
    /\ UNCHANGED <<running, isLastResponseReaded, lastResponse, isEncryptionEnabled,
                   outbox, inbox, online, refusals>>

\* A frame pushed before the first response has woken the main thread: parsing
\* the empty string throws, and the process ends.
ParsesNothing(u) == Awoken(u, "main") /\ lastResponse[u] = NoResponse

----------------------------------------------------------------------------
(* The reader *)

HasFrame(u, kind) ==
    /\ At(u, "reader", "idle")
    /\ inbox[u] # << >>
    /\ Head(inbox[u]).kind = kind

\* handleParseMessage is done: the flag goes down ...
Lower(u) ==
    /\ isLastResponseReaded' = [isLastResponseReaded EXCEPT ![u] = FALSE]
    /\ Goto(u, "reader", "window")

\* A response is kept in lastResponse.
TakeResponse(u) ==
    /\ HasFrame(u, "response")
    /\ lastResponse' = [lastResponse EXCEPT ![u] = Head(inbox[u]).what]
    /\ inbox' = [inbox EXCEPT ![u] = Tail(@)]
    /\ Lower(u)
    /\ UNCHANGED <<running, isAuthenticatedUser, isEncryptionEnabled, outbox, online, refusals>>

\* ... and handleRead raises it again at once.
HandleRead(u) ==
    /\ At(u, "reader", "window")
    /\ isLastResponseReaded' = [isLastResponseReaded EXCEPT ![u] = TRUE]
    /\ Goto(u, "reader", "idle")
    /\ UNCHANGED <<running, isAuthenticatedUser, lastResponse, isEncryptionEnabled,
                   outbox, inbox, online, refusals>>

----------------------------------------------------------------------------
(* The server *)

Answer(what) == [kind |-> "response", what |-> what]

\* While a login or a registration of u is handled, u's entry in the registry
\* comes or goes.  A login makes it and then erases the one found under the
\* connection's own id, which is the same entry when the two ids are one; the
\* insertions of the accept handler and of a login may be lost when they race,
\* and an account opened before setID has an id without an entry.  So being
\* granted a login does not imply being online, and a commit in doubt may leave
\* one online who is refused.
ChangeEntry(u) ==
    /\ outbox[u] # << >>
    /\ Head(outbox[u]).request.kind = "login"
    /\ ~Head(outbox[u]).plain
    /\ online' = online \cup {u} \/ online' = online \ {u}
    /\ UNCHANGED <<running, thread, isAuthenticatedUser, isLastResponseReaded, lastResponse,
                   isEncryptionEnabled, outbox, inbox, refusals>>

\* The response goes out; frames for u may have been pushed since the entry was made.
HandleLogin(u) ==
    /\ outbox[u] # << >>
    /\ Len(inbox[u]) < MaxInbox
    /\ LET message == Head(outbox[u])
       IN  /\ message.request.kind = "login"
           /\ \/ /\ ~message.plain
                 /\ inbox' = [inbox EXCEPT ![u] = Append(@, Answer("authenticated"))]
                 /\ UNCHANGED refusals
              \/ /\ refusals < MaxRefusals
                 /\ refusals' = refusals + 1
                 /\ inbox' = [inbox EXCEPT ![u] = Append(@, Answer("other"))]
    /\ outbox' = [outbox EXCEPT ![u] = Tail(@)]
    /\ UNCHANGED <<running, thread, isAuthenticatedUser, isLastResponseReaded, lastResponse,
                   isEncryptionEnabled, online>>

=============================================================================
