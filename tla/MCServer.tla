------------------------------ MODULE MCServer ------------------------------
(* Values of the constants of MessengerServer for TLC. *)
EXTENDS MessengerServer, TLC

CONSTANTS annId, bobId, ann, bob, annMail, bobMail, secret, other, key

Symmetry == Permutations(Conn)

Ask(route, body, login, email, password, sender) ==
    [route |-> route, body |-> body, login |-> login, email |-> email,
     password |-> password, sender |-> sender, key |-> key]

Registers(login, email, body) ==
    Ask("/registration", body, login, email, secret, NoId)

LogsIn(login, password, body) ==
    Ask("/login", body, login, annMail, password, NoId)

Relays(route, sender, login, body) ==
    Ask(route, body, login, annMail, secret, sender)

\* Accounts that share a login or an address, and bodies of every kind.
RegistrationRequests ==
    {Registers(ann, annMail, body) : body \in Bodies}
        \cup {Registers(ann, bobMail, "good"), Registers(bob, annMail, "good")}

\* The targets that lead to none of the four routes.
StrayRequests ==
    {Ask(route, "good", ann, annMail, secret, NoId) :
         route \in {"/unknown", "/..", "/%", "/availableMessages", FetchTarget}}

\* Accounts, logins with the right and with a wrong password.
RoutingRequests ==
    {Registers(ann, annMail, "good"), Registers(bob, bobMail, "good"),
     LogsIn(ann, secret, "good"), LogsIn(bob, secret, "good"), LogsIn(ann, other, "good")}

\* Logins of bob, one of them not JSON, frames of either user to bob, one that lacks its key
\* and one that cannot be parsed.
FrameRequests ==
    {LogsIn(bob, secret, "good"), LogsIn(bob, secret, "malformed"),
     Relays("/sendMessage", NoId, bob, "incomplete"),
     Relays("/keyExchangeRequest", NoId, bob, "malformed")}
        \cup {Relays("/sendMessage", i, bob, "good") : i \in OldIds}
        \cup StrayRequests

\* Logins of two users and key exchange requests in both directions.
ExchangeRequests ==
    {LogsIn(bob, secret, "good"),
     Relays("/keyExchangeRequest", annId, bob, "good"),
     Relays("/keyExchangeRequest", bobId, ann, "good")}

\* One user, and frames to that user.
SendRequests ==
    {LogsIn(bob, secret, "good"), Relays("/sendMessage", annId, bob, "good")}

\* Accounts of an earlier process.
Account(id, login, email) ==
    [id |-> id, email |-> email, login |-> login, password |-> HashPassword(secret, id)]

Nobody == {}
AnnAndBob == {Account(annId, ann, annMail), Account(bobId, bob, bobMail)}

=============================================================================
