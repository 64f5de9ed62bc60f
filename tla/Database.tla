------------------------------ MODULE Database ------------------------------
(***************************************************************************)
(* The PostgreSQL database as server/src uses it: the tables `users` and   *)
(* `messages`.  The database is external to the repository, its schema     *)
(* too: nothing is assumed of it but the columns the queries name.  Every  *)
(* operation of the routes opens a connection and a transaction of its     *)
(* own.                                                                    *)
(***************************************************************************)
EXTENDS Naturals, Sequences

CONSTANTS
    \* What can go wrong.  "query": a query or a commit throws; "connect": no
    \* connection can be opened.
    DbFaults,
    OldUsers   \* the rows of `users` that earlier processes left

ASSUME FaultAssumption == DbFaults \subseteq {"query", "connect"}

VARIABLES
    users,     \* rows [id, email, login, password]
    messages   \* rows [type, kind, sender, receiver, key], in insertion order

dbVars == <<users, messages>>

DbInit ==
    /\ users = OldUsers
    /\ messages = << >>

QueryMayFail == "query" \in DbFaults
ConnectMayFail == "connect" \in DbFaults

\* hashPassword draws a salt for every account; checkIfPasswordsEqual hashes
\* what was entered with the salt it reads back.
HashPassword(password, salt) == [hash |-> password, salt |-> salt]
PasswordsEqual(entered, stored) == HashPassword(entered, stored.salt) = stored

WithEmail(email) == {u \in users : u.email = email}
WithLogin(login) == {u \in users : u.login = login}
WithId(id) == {u \in users : u.id = id}
=============================================================================
