-------------------------- MODULE AccountDirectory --------------------------
(***************************************************************************)
(* What registration promises: a directory of accounts that only grows,    *)
(* one account at a time, and in which no two accounts share a login or an *)
(* e-mail address.                                                         *)
(***************************************************************************)
CONSTANTS
    Account,   \* records with at least the fields login and email
    Opened     \* the accounts opened before

VARIABLE accounts

Init == accounts = Opened

Open(a) ==
    /\ \A b \in accounts : b.login # a.login /\ b.email # a.email
    /\ accounts' = accounts \cup {a}

Next == \E a \in Account : Open(a)

Spec == Init /\ [][Next]_accounts
=============================================================================
