-------------------------- MODULE TurnTakingProofs --------------------------
(***************************************************************************)
(* A conversation that is stuck stays so, for every set of users and keys. *)
(***************************************************************************)
EXTENDS TurnTaking, TLAPS

\* Every variable has its type.
TypeInv ==
    /\ told \in [User -> [User -> Key]]
    /\ heard \in [User -> [User -> Key]]
    /\ wire \in [User -> [User -> SUBSET Message]]
    /\ opened \in [User -> [User -> SUBSET Message]]

\* Whatever is noted or on its way was told at some time: a key that is new is
\* new to everyone.
UsedInv ==
    \A u, v \in User :
        /\ told[u][v] \in used
        /\ heard[u][v] \in used
        /\ \A m \in wire[u][v] \cup opened[u][v] : m.key \in used /\ m.lock \in used

Inv == TypeInv /\ UsedInv

\* The initial keys are told, and nothing is on its way.
LEMMA InvInit == Init => Inv
  BY DEF Init, Inv, TypeInv, UsedInv

\* What a step of u and v leaves alone, and what it may change.
LEMMA InvNext == Inv /\ [Next]_vars => Inv'
<1> SUFFICES ASSUME Inv, [Next]_vars  PROVE Inv'
  OBVIOUS
<1> USE DEF Inv, TypeInv
<1>1. ASSUME NEW u \in User, NEW v \in User, Tell(u, v)  PROVE Inv'
  <2>1. PICK k \in Key \ used : /\ told' = [told EXCEPT ![u][v] = k]
                                /\ used' = used \cup {k}
    BY <1>1, Zenon DEF Tell
  <2>2. UNCHANGED <<heard, wire, opened>>
    BY <1>1 DEF Tell
  <2>3. TypeInv'
    BY <2>1, <2>2
  <2>4. UsedInv'
    BY <2>1, <2>2 DEF UsedInv
  <2>5. QED
    BY <2>3, <2>4
<1>2. ASSUME NEW u \in User, NEW v \in User, Send(u, v)  PROVE Inv'
  <2> DEFINE m == [key |-> told[u][v], lock |-> heard[u][v]]
  <2>1. m \in Message /\ m.key \in used /\ m.lock \in used
    BY DEF Message, UsedInv
  <2>2. wire' = [wire EXCEPT ![u][v] = @ \cup {m}] /\ UNCHANGED <<told, heard, opened, used>>
    BY <1>2 DEF Send
  <2> HIDE DEF m
  <2>3. TypeInv'
    BY <2>1, <2>2
  <2>4. UsedInv'
    BY <2>1, <2>2 DEF UsedInv
  <2>5. QED
    BY <2>3, <2>4
<1>3. ASSUME NEW u \in User, NEW v \in User, Open(u, v)  PROVE Inv'
  <2>1. PICK m \in wire[v][u] : /\ wire' = [wire EXCEPT ![v][u] = @ \ {m}]
                                /\ opened' = [opened EXCEPT ![u][v] = @ \cup {m}]
    BY <1>3 DEF Open
  <2>2. UNCHANGED <<told, heard, used>>
    BY <1>3 DEF Open
  <2>3. TypeInv'
    BY <2>1, <2>2
  <2>4. UsedInv'
    BY <2>1, <2>2 DEF UsedInv
  <2>5. QED
    BY <2>3, <2>4
<1>4. ASSUME NEW u \in User, NEW v \in User, Hear(u, v)  PROVE Inv'
  <2>1. PICK m \in opened[u][v] : /\ heard' = [heard EXCEPT ![u][v] = m.key]
                                  /\ opened' = [opened EXCEPT ![u][v] = @ \ {m}]
    BY <1>4 DEF Hear
  <2>2. UNCHANGED <<told, wire, used>>
    BY <1>4 DEF Hear
  <2>3. TypeInv'
    BY <2>1, <2>2 DEF Message
  <2>4. UsedInv'
    BY <2>1, <2>2 DEF UsedInv
  <2>5. QED
    BY <2>3, <2>4
<1>5. CASE Lose
  BY <1>5 DEF Lose, UsedInv
<1>6. CASE UNCHANGED vars
  BY <1>6 DEF vars, UsedInv
<1>7. QED
  BY <1>1, <1>2, <1>3, <1>4, <1>5, <1>6 DEF Next

\* No step lets one of two deaf ends hear again.  A key that one of them tells is
\* new, what they send is locked with what they have heard, and what they would
\* have to open first cannot be opened.
LEMMA StuckNext ==
  ASSUME Inv, [Next]_vars, NEW u \in User, NEW v \in User, Stuck(u, v)
  PROVE  Deaf(u, v)'
<1> USE DEF Inv, TypeInv, Stuck, Deaf
<1>1. ASSUME NEW x \in User, NEW y \in User, Tell(x, y)  PROVE Deaf(u, v)'
  <2>1. told'[u][v] = told[u][v] \/ told'[u][v] \notin used
    BY <1>1 DEF Tell
  <2>2. heard'[v][u] \in used /\ \A m \in wire'[v][u] : m.lock \in used
    BY <1>1 DEF Tell, UsedInv
  <2>3. QED
    BY <1>1, <2>1, <2>2 DEF Tell
<1>2. ASSUME NEW x \in User, NEW y \in User, Send(x, y)  PROVE Deaf(u, v)'
  BY <1>2 DEF Send
<1>3. ASSUME NEW x \in User, NEW y \in User, Open(x, y)  PROVE Deaf(u, v)'
  <2>1. ~(x = u /\ y = v)
    BY <1>3 DEF Open
  <2>2. QED
    BY <1>3, <2>1 DEF Open
<1>4. ASSUME NEW x \in User, NEW y \in User, Hear(x, y)  PROVE Deaf(u, v)'
  <2>1. ~(x = v /\ y = u)
    BY <1>4 DEF Hear
  <2>2. QED
    BY <1>4, <2>1 DEF Hear
<1>5. CASE Lose
  BY <1>5 DEF Lose
<1>6. CASE UNCHANGED vars
  BY <1>6 DEF vars
<1>7. QED
  BY <1>1, <1>2, <1>3, <1>4, <1>5, <1>6 DEF Next

\* A conversation that is stuck stays so.
THEOREM StuckStays == Spec => StuckForGood
<1>1. Inv /\ [Next]_vars => [\A u, v \in User : Stuck(u, v) => Stuck(u, v)']_vars
  BY StuckNext DEF Stuck
<1>2. QED
  BY <1>1, InvInit, InvNext, PTL DEF Spec, StuckForGood
=============================================================================
