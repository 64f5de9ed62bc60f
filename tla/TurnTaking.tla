------------------------------ MODULE TurnTaking ------------------------------
(***************************************************************************)
(* What a conversation promises, without threads, tables and sockets.      *)
(* Every message tells the key that the next answer is to be locked with,  *)
(* and is itself locked with the last key that its sender has heard.  Only *)
(* the key that the receiver told last opens it.                           *)
(***************************************************************************)
CONSTANTS User, Key

VARIABLES
    told,    \* told[u][v]: the key that u told v last
    heard,   \* heard[u][v]: the key that u heard last of v
    wire,    \* wire[u][v]: the messages of u that are on their way to v
    opened,  \* opened[u][v]: messages of v that u has opened and not yet heard
    used     \* the keys that were ever told

vars == <<told, heard, wire, opened, used>>

Message == [key : Key, lock : Key]

\* Everyone has given a key to everyone before the conversation.
Init ==
    /\ told \in [User -> [User -> Key]]
    /\ \A u, v, x, y \in User : told[u][v] = told[x][y] => u = x /\ v = y
    /\ heard = [u \in User |-> [v \in User |-> told[v][u]]]
    /\ wire = [u \in User |-> [v \in User |-> {}]]
    /\ opened = [u \in User |-> [v \in User |-> {}]]
    /\ used = {told[u][v] : u, v \in User}

\* u notes a new key for the answer of v.
Tell(u, v) ==
    /\ told'[u][v] \in Key \ used
    /\ told' = [told EXCEPT ![u][v] = told'[u][v]]
    /\ used' = used \cup {told'[u][v]}
    /\ UNCHANGED <<heard, wire, opened>>

\* u sends a message with it, locked with the last key of v.
Send(u, v) ==
    /\ wire' = [wire EXCEPT ![u][v] = @ \cup {[key |-> told[u][v], lock |-> heard[u][v]]}]
    /\ UNCHANGED <<told, heard, opened, used>>

\* u opens a message of v, if it is locked with the key that u told last.
Open(u, v) ==
    /\ \E m \in wire[v][u] :
          /\ m.lock = told[u][v]
          /\ wire' = [wire EXCEPT ![v][u] = @ \ {m}]
          /\ opened' = [opened EXCEPT ![u][v] = @ \cup {m}]
    /\ UNCHANGED <<told, heard, used>>

\* u notes the key in it.
Hear(u, v) ==
    /\ \E m \in opened[u][v] :
          /\ heard' = [heard EXCEPT ![u][v] = m.key]
          /\ opened' = [opened EXCEPT ![u][v] = @ \ {m}]
    /\ UNCHANGED <<told, wire, used>>

\* Messages are lost or cannot be opened.
Lose ==
    /\ wire' \in [User -> [User -> SUBSET Message]]
    /\ opened' \in [User -> [User -> SUBSET Message]]
    /\ \A u, v \in User : wire'[u][v] \subseteq wire[u][v] /\ opened'[u][v] \subseteq opened[u][v]
    /\ UNCHANGED <<told, heard, used>>

Next ==
    \/ Lose
    \/ \E u, v \in User : Tell(u, v) \/ Send(u, v) \/ Open(u, v) \/ Hear(u, v)

Spec == Init /\ [][Next]_vars

----------------------------------------------------------------------------

\* Nothing of v that u may still get will be opened by u, and what v would send
\* now would not be opened either.
Deaf(u, v) ==
    /\ opened[u][v] = {}
    /\ heard[v][u] # told[u][v]
    /\ \A m \in wire[v][u] : m.lock # told[u][v]

\* Both ends are deaf.
Stuck(u, v) == Deaf(u, v) /\ Deaf(v, u)

\* A conversation whose two ends are deaf stays so: each needs an answer to its
\* last message before it can read one.
StuckForGood == [][\A u, v \in User : Stuck(u, v) => Stuck(u, v)']_vars
=============================================================================
