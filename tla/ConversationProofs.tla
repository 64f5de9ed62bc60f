------------------------- MODULE ConversationProofs -------------------------
(***************************************************************************)
(* Theorems about Conversation, for every set of users and all bounds: a   *)
(* client with its two threads, its table and its stops takes part in the  *)
(* protocol TurnTaking.                                                    *)
(***************************************************************************)
EXTENDS Conversation, FiniteSetTheorems, WellFoundedInduction, TLAPS

----------------------------------------------------------------------------
(* Sequences *)

\* What Append does, position by position.
LEMMA AppendFacts ==
  ASSUME NEW S, NEW s \in Seq(S), NEW e \in S
  PROVE  /\ Append(s, e) \in Seq(S)
         /\ DOMAIN Append(s, e) = 1 .. (Len(s) + 1)
         /\ \A i \in 1 .. Len(s) : Append(s, e)[i] = s[i]
         /\ Append(s, e)[Len(s) + 1] = e
         /\ Append(s, e) # << >>
  OBVIOUS

\* What Head and Tail do.
LEMMA TailFacts ==
  ASSUME NEW S, NEW s \in Seq(S), s # << >>
  PROVE  /\ Head(s) \in S
         /\ Head(s) = s[1]
         /\ Len(s) \in Nat \ {0}
         /\ Tail(s) \in Seq(S)
         /\ DOMAIN Tail(s) = 1 .. (Len(s) - 1)
         /\ \A i \in 1 .. (Len(s) - 1) : Tail(s)[i] = s[i + 1]
  OBVIOUS

\* What the elements of a sequence are.
LEMMA SeqFacts ==
  ASSUME NEW S, NEW s \in Seq(S)
  PROVE  /\ Len(s) \in Nat
         /\ DOMAIN s = 1 .. Len(s)
         /\ \A i \in DOMAIN s : s[i] \in S
  OBVIOUS

\* The order of the natural numbers is well-founded.
LEMMA NatLessWellFounded == IsWellFoundedOn({p \in Nat \X Nat : p[1] < p[2]}, Nat)
  BY NatLessThanWellFounded DEF OpToRel

\* A set of natural numbers has a least one.
LEMMA LeastNatural ==
  ASSUME NEW T, T \subseteq Nat, T # {}
  PROVE  \E x \in T : \A y \in T : x <= y
<1>1. PICK x \in T : \A y \in T : <<y, x>> \notin {p \in Nat \X Nat : p[1] < p[2]}
  BY NatLessWellFounded, WFMin
<1>2. ASSUME NEW y \in T, y < x  PROVE FALSE
  <2>1. <<y, x>> \in Nat \X Nat /\ <<y, x>>[1] < <<y, x>>[2]
    BY <1>2
  <2>2. <<y, x>> \in {p \in Nat \X Nat : p[1] < p[2]}
    BY <2>1
  <2>3. QED
    BY <1>1, <2>2
<1>3. QED
  BY <1>2

\* A set of positions has a last one.
LEMMA MaxFacts ==
  ASSUME NEW n \in Nat, NEW S \in SUBSET (1 .. n), S # {}
  PROVE  /\ Max(S) \in S
         /\ \A i \in S : i <= Max(S)
<1> DEFINE T == {n - i : i \in S}
<1> \A i \in S : i \in 1 .. n /\ i \in Nat /\ n - i \in Nat
  OBVIOUS
<1>1. T \subseteq Nat /\ T # {}
  BY Zenon
<1>2. PICK x \in T : \A y \in T : x <= y
  <2> HIDE DEF T
  <2> QED
    BY <1>1, LeastNatural
<1>4. \E i \in S : \A j \in S : i >= j
  <2>1. PICK i \in S : x = n - i
    OBVIOUS
  <2>2. \A j \in S : n - j \in T
    BY Zenon
  <2>3. \A j \in S : n - i <= n - j
    BY <1>2, <2>1, <2>2, Zenon
  <2>4. QED
    BY <2>3
<1>5. QED
  BY <1>4 DEF Max

----------------------------------------------------------------------------
(* Type correctness *)

\* The variables of Conversation that the type invariant relates to each other.
MainBusy == {"typed", "selected", "stored", "ready", "disabled"}
ReaderBusy == {"opened", "filed"}

Fit ==
    \A u \in User :
        /\ thread[u]["main"] \in MainBusy <=> message[u] # Nothing
        /\ thread[u]["reader"] \in ReaderBusy <=> received[u] # Nothing

ThreadType == thread \in [User -> [Threads -> Points]]

\* The other parts, as they concern the connection, and the tables and messages.
ConnType ==
    /\ running \subseteq User
    /\ online \subseteq User
    /\ refusals \in 0 .. MaxRefusals
    /\ isAuthenticatedUser \in [User -> BOOLEAN]
    /\ isLastResponseReaded \in [User -> BOOLEAN]
    /\ lastResponse \in [User -> {"authenticated", "other", NoResponse}]
    /\ isEncryptionEnabled \in [User -> BOOLEAN]
    /\ outbox \in [User -> Seq(Sent)]
    /\ inbox \in [User -> Seq(Frame)]

TableType ==
    /\ messages \in [User -> [User -> Seq(Row)]]
    /\ made \in 0 .. MaxPairs
    /\ drawn \in [User -> Nat]
    /\ message \in [User -> Message \cup {Nothing}]
    /\ received \in [User -> Received \cup {Nothing}]
    /\ stops \in 0 .. MaxStops
    /\ missed \subseteq User \X User

\* These are all parts of the type invariant.
LEMMA TypeParts == TypeOK <=> ThreadType /\ ConnType /\ TableType /\ Fit
  BY DEF TypeOK, ThreadType, ConnType, TableType, Fit, MainBusy, ReaderBusy

\* The same of the next state.
LEMMA TypePartsNext == TypeOK' <=> (ThreadType /\ ConnType /\ TableType /\ Fit)'
  BY DEF TypeOK, ThreadType, ConnType, TableType, Fit, MainBusy, ReaderBusy

\* What Goto does.
LEMMA GotoFacts ==
  ASSUME ThreadType, NEW u \in User, NEW t \in Threads, NEW p \in Points, Goto(u, t, p)
  PROVE  /\ ThreadType'
         /\ thread'[u][t] = p
         /\ \A x \in User, s \in Threads : x # u \/ s # t => thread'[x][s] = thread[x][s]
  BY DEF ThreadType, Goto

\* The thread that goes on is neither before nor after in the middle of a
\* message, and no message changes.
LEMMA FitElsewhere ==
  ASSUME Fit, ThreadType, NEW u \in User, NEW t \in Threads, NEW p \in Points, Goto(u, t, p),
         UNCHANGED <<message, received>>,
         t = "main" => (thread[u][t] \in MainBusy <=> p \in MainBusy),
         t = "reader" => (thread[u][t] \in ReaderBusy <=> p \in ReaderBusy)
  PROVE  Fit'
<1>1. "main" \in Threads /\ "reader" \in Threads /\ "main" # "reader"
  BY DEF Threads
<1>2. QED
  BY <1>1, GotoFacts DEF Fit, Threads

\* The main thread goes on with a message or without.
LEMMA FitMain ==
  ASSUME Fit, ThreadType, NEW u \in User, NEW p \in Points, Goto(u, "main", p),
         received' = received,
         \A x \in User \ {u} : message'[x] = message[x],
         p \in MainBusy <=> message'[u] # Nothing
  PROVE  Fit'
<1>1. "main" \in Threads /\ "reader" \in Threads /\ "main" # "reader"
  BY DEF Threads
<1>2. QED
  BY <1>1, GotoFacts DEF Fit

\* So does the reader.
LEMMA FitReader ==
  ASSUME Fit, ThreadType, NEW u \in User, NEW p \in Points, Goto(u, "reader", p),
         message' = message,
         \A x \in User \ {u} : received'[x] = received[x],
         p \in ReaderBusy <=> received'[u] # Nothing
  PROVE  Fit'
<1>1. "main" \in Threads /\ "reader" \in Threads /\ "main" # "reader"
  BY DEF Threads
<1>2. QED
  BY <1>1, GotoFacts DEF Fit

\* The initial state has the types.
LEMMA TypeInit == Init => TypeOK
<1> SUFFICES ASSUME Init  PROVE TypeOK
  OBVIOUS
<1>1. ThreadType
  BY DEF Init, ConnInit, ThreadType, Threads, Points
<1>2. ConnType
  BY ConnectionAssumption DEF Init, ConnInit, ConnType
<1>3. TableType
  BY ConversationAssumption DEF Init, TableType
<1>4. Fit
  BY DEF Init, ConnInit, Fit, MainBusy, ReaderBusy, Threads
<1>5. QED
  BY <1>1, <1>2, <1>3, <1>4, TypeParts

\* The points of the two threads.
LEMMA PointFacts ==
  /\ "main" \in Threads /\ "reader" \in Threads
  /\ MainBusy \subseteq Points /\ ReaderBusy \subseteq Points
  /\ {"idle", "written", "awaiting", "window"} \subseteq Points \ (MainBusy \cup ReaderBusy)
  BY DEF Threads, Points, MainBusy, ReaderBusy

\* The steps of the connection keep the types.
LEMMA TypeConnection ==
  ASSUME TypeOK, NEW u \in User, UNCHANGED conversationVars,
         \/ Connect(u) \/ SignIn(u) \/ TakeResponse(u) \/ HandleRead(u)
         \/ ChangeEntry(u) \/ HandleLogin(u)
         \/ DisableEncryption(u, "main") \/ EnableEncryption(u, "main") \/ ReadResponse(u, "main")
  PROVE  TypeOK'
<1>1. ThreadType /\ ConnType /\ TableType /\ Fit
  BY TypeParts
<1>2. TableType' /\ UNCHANGED <<message, received>>
  BY <1>1 DEF TableType, conversationVars
<1>3. ASSUME ConnType', thread' = thread  PROVE TypeOK'
  BY <1>1, <1>2, <1>3, TypePartsNext DEF ThreadType, Fit
<1>4. ASSUME ConnType', NEW t \in Threads, NEW p \in Points, Goto(u, t, p),
             t = "main" => (thread[u][t] \in MainBusy <=> p \in MainBusy),
             t = "reader" => (thread[u][t] \in ReaderBusy <=> p \in ReaderBusy)
      PROVE  TypeOK'
  BY <1>1, <1>2, <1>4, TypePartsNext, GotoFacts, FitElsewhere
<1>5. CASE Connect(u)
  BY <1>1, <1>3, <1>5 DEF Connect, ConnType
<1>6. CASE SignIn(u)
  <2>1. [request |-> [kind |-> "login", to |-> u], plain |-> ~isEncryptionEnabled[u]] \in Sent
    BY <1>1 DEF Sent, Request, ConnType
  <2>2. ConnType'
    BY <1>1, <1>6, <2>1 DEF SignIn, SendRequest, ConnType
  <2>3. QED
    BY <1>4, <1>6, <2>2, PointFacts DEF SignIn, SendRequest, At
<1>7. CASE TakeResponse(u)
  <2>1. inbox[u] \in Seq(Frame) /\ inbox[u] # << >>
    BY <1>1, <1>7 DEF ConnType, TakeResponse, HasFrame
  <2>2. Head(inbox[u]) \in Frame /\ Tail(inbox[u]) \in Seq(Frame)
    BY <2>1, TailFacts
  <2>3. Head(inbox[u]).what \in {"authenticated", "other"}
    BY <1>7, <2>2 DEF TakeResponse, HasFrame, Frame
  <2>4. ConnType'
    BY <1>1, <1>7, <2>2, <2>3 DEF TakeResponse, Lower, ConnType
  <2>5. QED
    BY <1>4, <1>7, <2>4, PointFacts DEF TakeResponse, HasFrame, Lower, At
<1>8. CASE HandleRead(u)
  <2>1. ConnType'
    BY <1>1, <1>8 DEF HandleRead, ConnType
  <2>2. QED
    BY <1>4, <1>8, <2>1, PointFacts DEF HandleRead, At
<1>9. CASE HandleLogin(u)
  <2>1. Answer("authenticated") \in Frame /\ Answer("other") \in Frame
    BY DEF Answer, Frame
  <2>2. /\ inbox[u] \in Seq(Frame) /\ outbox[u] \in Seq(Sent)
        /\ outbox[u] # << >>
    BY <1>1, <1>9 DEF ConnType, HandleLogin
  <2>3. /\ Append(inbox[u], Answer("authenticated")) \in Seq(Frame)
        /\ Append(inbox[u], Answer("other")) \in Seq(Frame)
        /\ Tail(outbox[u]) \in Seq(Sent)
    BY <2>1, <2>2, TailFacts
  <2>4. \/ /\ refusals' = refusals
           /\ inbox' = [inbox EXCEPT ![u] = Append(@, Answer("authenticated"))]
        \/ /\ refusals < MaxRefusals /\ refusals' = refusals + 1
           /\ inbox' = [inbox EXCEPT ![u] = Append(@, Answer("other"))]
    BY <1>9, Zenon DEF HandleLogin
  <2>5. inbox' \in [User -> Seq(Frame)]
    BY <1>1, <2>3, <2>4 DEF ConnType
  <2>6. refusals' \in 0 .. MaxRefusals
    BY <1>1, <2>4, ConnectionAssumption DEF ConnType
  <2>7. outbox' \in [User -> Seq(Sent)]
    BY <1>1, <1>9, <2>3 DEF HandleLogin, ConnType
  <2>8. ConnType'
    BY <1>1, <1>9, <2>5, <2>6, <2>7 DEF HandleLogin, ConnType
  <2>9. QED
    BY <1>3, <1>9, <2>8 DEF HandleLogin
<1>10. CASE DisableEncryption(u, "main")
  <2>1. ConnType'
    BY <1>1, <1>10 DEF DisableEncryption, ConnType
  <2>2. QED
    BY <1>4, <1>10, <2>1, PointFacts DEF DisableEncryption, At, MainBusy
<1>11. CASE EnableEncryption(u, "main")
  <2>1. ConnType'
    BY <1>1, <1>11 DEF EnableEncryption, ConnType
  <2>2. QED
    BY <1>4, <1>11, <2>1, PointFacts DEF EnableEncryption, At
<1>12. CASE ReadResponse(u, "main")
  <2>1. ConnType'
    BY <1>1, <1>12 DEF ReadResponse, ConnType
  <2>2. QED
    BY <1>4, <1>12, <2>1, PointFacts DEF ReadResponse, Awoken, At
<1>13. CASE ChangeEntry(u)
  <2>1. online' \subseteq User
    BY <1>1, <1>13 DEF ChangeEntry, ConnType
  <2>2. ConnType'
    BY <1>1, <1>13, <2>1 DEF ChangeEntry, ConnType
  <2>3. QED
    BY <1>3, <1>13, <2>2 DEF ChangeEntry
<1>14. QED
  BY <1>5, <1>6, <1>7, <1>8, <1>9, <1>10, <1>11, <1>12, <1>13

\* The last row of a sender.
LEMMA LastRowFacts ==
  ASSUME messages \in [User -> [User -> Seq(Row)]],
         NEW u \in User, NEW v \in User, NEW sender \in User,
         {i \in DOMAIN messages[u][v] : messages[u][v][i].sender = sender} # {}
  PROVE  \E i \in DOMAIN messages[u][v] :
            /\ messages[u][v][i].sender = sender
            /\ \A j \in DOMAIN messages[u][v] : messages[u][v][j].sender = sender => j <= i
            /\ LastKey(u, v, sender) = messages[u][v][i].key
<1> DEFINE rows == {i \in DOMAIN messages[u][v] : messages[u][v][i].sender = sender}
<1>1. messages[u][v] \in Seq(Row)
  OBVIOUS
<1>2. Len(messages[u][v]) \in Nat /\ DOMAIN messages[u][v] = 1 .. Len(messages[u][v])
  BY <1>1, SeqFacts
<1>3. rows \in SUBSET (1 .. Len(messages[u][v])) /\ rows # {}
  BY <1>2
<1>4. Max(rows) \in rows /\ \A i \in rows : i <= Max(rows)
  BY <1>2, <1>3, MaxFacts
<1>5. LastKey(u, v, sender) = messages[u][v][Max(rows)].key
  BY <1>3 DEF LastKey
<1>6. QED
  BY <1>4, <1>5

\* The keys of the tables are pairs.
LEMMA LastKeyType ==
  ASSUME messages \in [User -> [User -> Seq(Row)]],
         NEW u \in User, NEW v \in User, NEW sender \in User
  PROVE  LastKey(u, v, sender) \in Pairs
<1> DEFINE rows == {i \in DOMAIN messages[u][v] : messages[u][v][i].sender = sender}
<1>1. CASE rows = {}
  BY <1>1, ConversationAssumption DEF LastKey, ExchangedPair, Pairs
<1>2. CASE rows # {}
  <2>1. PICK i \in DOMAIN messages[u][v] : LastKey(u, v, sender) = messages[u][v][i].key
    BY <1>2, LastRowFacts
  <2>2. messages[u][v] \in Seq(Row)
    OBVIOUS
  <2>3. messages[u][v][i] \in Row
    BY <2>2, SeqFacts
  <2>4. QED
    BY <2>1, <2>3 DEF Row
<1>3. QED
  BY <1>1, <1>2

\* Nothing of the connection changes but where a thread stands.
LEMMA TypeQuiet ==
  ASSUME ConnType, ClientUnchanged
  PROVE  ConnType'
  BY DEF ConnType, ClientUnchanged

\* A row more.
LEMMA InsertType ==
  ASSUME messages \in [User -> [User -> Seq(Row)]],
         NEW u \in User, NEW v \in User, NEW sender \in User, NEW content,
         content.key \in Pairs, content.conversation \in Nat, Insert(u, v, sender, content)
  PROVE  messages' \in [User -> [User -> Seq(Row)]]
<1> DEFINE row == [sender |-> sender, key |-> content.key, conversation |-> content.conversation]
<1>1. row \in Row
  BY DEF Row
<1>2. messages[u][v] \in Seq(Row)
  OBVIOUS
<1>3. messages' = [messages EXCEPT ![u][v] = Append(@, row)]
  BY DEF Insert
<1> HIDE DEF row
<1>4. Append(messages[u][v], row) \in Seq(Row)
  BY <1>1, <1>2, AppendFacts
<1>5. QED
  BY <1>3, <1>4

\* A conversation id.
LEMMA SelectType ==
  ASSUME messages \in [User -> [User -> Seq(Row)]], drawn \in [User -> Nat],
         NEW u \in User, NEW v \in User, Select(u, v)
  PROVE  /\ drawn' \in [User -> Nat]
         /\ ConversationId(u, v) \in Nat
<1>1. drawn' \in [User -> Nat]
  BY DEF Select
<1>2. messages[u][v] \in Seq(Row)
  OBVIOUS
<1>3. messages[u][v] # << >> => messages[u][v][1] \in Row
  BY <1>2, SeqFacts
<1>4. messages[u][v] # << >> => messages[u][v][1].conversation \in Nat
  BY <1>3 DEF Row
<1>5. QED
  BY <1>1, <1>4 DEF ConversationId

\* While it is busy, the main thread has a Message, and the reader a Received.
LEMMA BusyFacts ==
  ASSUME TypeOK, NEW u \in User
  PROVE  /\ thread[u]["main"] \in MainBusy =>
               /\ message[u] \in Message
               /\ message[u].to \in User /\ message[u].key \in Pairs /\ message[u].lock \in Pairs
               /\ message[u].conversation \in Nat
         /\ thread[u]["reader"] \in ReaderBusy =>
               /\ received[u] \in Received
               /\ received[u].from \in User /\ received[u].key \in Pairs /\ received[u].lock \in Pairs
               /\ received[u].conversation \in Nat
<1>1. TableType /\ Fit
  BY TypeParts
<1>2. thread[u]["main"] \in MainBusy => message[u] \in Message
  BY <1>1 DEF TableType, Fit
<1>3. thread[u]["reader"] \in ReaderBusy => received[u] \in Received
  BY <1>1 DEF TableType, Fit
<1>4. QED
  BY <1>2, <1>3 DEF Message, Received

\* The steps of Message::send keep the types.
LEMMA TypeSend ==
  ASSUME TypeOK, NEW u \in User,
         \/ \E v \in User : WriteMessage(u, v)
         \/ SelectOwn(u) \/ StoreOwn(u) \/ EncryptAESKey(u) \/ SendMessage(u)
  PROVE  TypeOK'
<1>1. ThreadType /\ ConnType /\ TableType /\ Fit
  BY TypeParts
<1> USE PointFacts
<1>2. ASSUME NEW v \in User, WriteMessage(u, v)  PROVE TypeOK'
  <2> DEFINE m == [to |-> v, lock |-> ExchangedPair(v, u), conversation |-> 0,
                   key |-> [by |-> u, for |-> v, nr |-> made']]
  <2>1. made' \in 0 .. MaxPairs
    BY <1>1, <1>2, ConversationAssumption DEF WriteMessage, TableType
  <2>2. m \in Message
    BY <2>1, ConversationAssumption DEF Message, Pairs, ExchangedPair
  <2>3. m # Nothing
    BY <2>2, ConversationAssumption
  <2>4. message' = [message EXCEPT ![u] = m]
    BY <1>2 DEF WriteMessage
  <2> HIDE DEF m
  <2>5. TableType'
    BY <1>1, <1>2, <2>1, <2>2, <2>4 DEF WriteMessage, TableType
  <2>6. ThreadType' /\ Fit'
    BY <1>1, <1>2, <2>3, <2>4, GotoFacts, FitMain DEF WriteMessage, TableType, MainBusy
  <2>7. QED
    BY <1>1, <1>2, <2>5, <2>6, TypeQuiet, TypePartsNext DEF WriteMessage
<1>3. CASE SelectOwn(u)
  <2>1. thread[u]["main"] \in MainBusy
    BY <1>3 DEF SelectOwn, At, MainBusy
  <2>2. message[u] \in Message /\ message[u].to \in User
    BY <2>1, BusyFacts
  <2>3. drawn' \in [User -> Nat] /\ ConversationId(u, message[u].to) \in Nat
    BY <1>1, <1>3, <2>2, SelectType DEF SelectOwn, TableType
  <2> DEFINE m == [message[u] EXCEPT !.conversation = ConversationId(u, message[u].to)]
  <2>4. m \in Message
    BY <2>2, <2>3 DEF Message
  <2>5. m # Nothing
    BY <2>4, ConversationAssumption
  <2>6. message' = [message EXCEPT ![u] = m]
    BY <1>3 DEF SelectOwn
  <2> HIDE DEF m
  <2>7. TableType'
    BY <1>1, <1>3, <2>3, <2>4, <2>6 DEF SelectOwn, TableType
  <2>8. ThreadType' /\ Fit'
    <3>1. /\ Goto(u, "main", "selected") /\ received' = received
          /\ "selected" \in Points /\ "selected" \in MainBusy
      BY <1>3 DEF SelectOwn, MainBusy
    <3>2. message'[u] # Nothing /\ \A x \in User \ {u} : message'[x] = message[x]
      BY <1>1, <2>5, <2>6 DEF TableType
    <3>3. QED
      BY <1>1, <3>1, <3>2, GotoFacts, FitMain
  <2>9. QED
    BY <1>1, <1>3, <2>7, <2>8, TypeQuiet, TypePartsNext DEF SelectOwn
<1>4. CASE StoreOwn(u)
  <2>1. thread[u]["main"] \in MainBusy
    BY <1>4 DEF StoreOwn, At, MainBusy
  <2>2. /\ message[u].to \in User /\ message[u].key \in Pairs
        /\ message[u].conversation \in Nat
    BY <2>1, BusyFacts
  <2>3. messages' \in [User -> [User -> Seq(Row)]]
    BY <1>1, <1>4, <2>2, InsertType DEF StoreOwn, TableType
  <2>4. TableType'
    BY <1>1, <1>4, <2>3 DEF StoreOwn, TableType
  <2>5. ThreadType' /\ Fit'
    BY <1>1, <1>4, <2>1, GotoFacts, FitElsewhere DEF StoreOwn, MainBusy
  <2>6. QED
    BY <1>1, <1>4, <2>4, <2>5, TypeQuiet, TypePartsNext DEF StoreOwn
<1>5. CASE EncryptAESKey(u)
  <2>1. thread[u]["main"] \in MainBusy
    BY <1>5 DEF EncryptAESKey, At, MainBusy
  <2>2. message[u] \in Message /\ message[u].to \in User
    BY <2>1, BusyFacts
  <2>3. PublicKey(u, message[u].to) \in Pairs
    BY <1>1, <2>2, LastKeyType DEF PublicKey, TableType
  <2> DEFINE m == [message[u] EXCEPT !.lock = PublicKey(u, message[u].to)]
  <2>4. m \in Message
    BY <2>2, <2>3 DEF Message
  <2>5. m # Nothing
    BY <2>4, ConversationAssumption
  <2>6. message' = [message EXCEPT ![u] = m]
    BY <1>5 DEF EncryptAESKey
  <2> HIDE DEF m
  <2>7. TableType'
    BY <1>1, <1>5, <2>4, <2>6 DEF EncryptAESKey, TableType
  <2>8. ThreadType' /\ Fit'
    <3>1. /\ Goto(u, "main", "ready") /\ received' = received
          /\ "ready" \in Points /\ "ready" \in MainBusy
      BY <1>5 DEF EncryptAESKey, MainBusy
    <3>2. message'[u] # Nothing /\ \A x \in User \ {u} : message'[x] = message[x]
      BY <1>1, <2>5, <2>6 DEF TableType
    <3>3. QED
      BY <1>1, <3>1, <3>2, GotoFacts, FitMain
  <2>9. QED
    BY <1>1, <1>5, <2>7, <2>8, TypeQuiet, TypePartsNext DEF EncryptAESKey
<1>6. CASE SendMessage(u)
  <2> DEFINE r == [kind |-> "message", to |-> message[u].to,
                   key |-> message[u].key, lock |-> message[u].lock]
             p == IF isEncryptionEnabled[u] THEN "awaiting" ELSE "written"
  <2>1. thread[u]["main"] \in MainBusy
    BY <1>6 DEF SendMessage, At, MainBusy
  <2>2. /\ message[u].to \in User /\ message[u].key \in Pairs
        /\ message[u].lock \in Pairs
    BY <2>1, BusyFacts
  <2>3. r \in Request
    BY <2>2 DEF Request
  <2>4. /\ outbox' = [outbox EXCEPT ![u] = Append(@, [request |-> r, plain |-> ~isEncryptionEnabled[u]])]
        /\ Goto(u, "main", p)
        /\ UNCHANGED <<running, isAuthenticatedUser, isLastResponseReaded, lastResponse,
                       isEncryptionEnabled, inbox, online, refusals>>
    BY <1>6 DEF SendMessage, SendRequest
  <2> HIDE DEF r
  <2>5. [request |-> r, plain |-> ~isEncryptionEnabled[u]] \in Sent
    BY <1>1, <2>3 DEF Sent, ConnType
  <2>6. ConnType'
    <3>1. outbox[u] \in Seq(Sent)
      BY <1>1 DEF ConnType
    <3>2. Append(outbox[u], [request |-> r, plain |-> ~isEncryptionEnabled[u]]) \in Seq(Sent)
      BY <2>5, <3>1, AppendFacts
    <3>3. outbox' \in [User -> Seq(Sent)]
      BY <1>1, <2>4, <3>2 DEF ConnType
    <3>4. QED
      BY <1>1, <2>4, <3>3 DEF ConnType
  <2>7. message' = [message EXCEPT ![u] = Nothing]
        /\ UNCHANGED <<messages, made, drawn, received, stops, missed>>
    BY <1>6 DEF SendMessage
  <2>8. TableType'
    BY <1>1, <2>7 DEF TableType
  <2>9. p \in Points /\ p \notin MainBusy
    BY DEF MainBusy
  <2> HIDE DEF p
  <2>10. ThreadType' /\ Fit'
    BY <1>1, <2>4, <2>7, <2>9, GotoFacts, FitMain DEF TableType
  <2>11. QED
    BY <2>6, <2>8, <2>10, TypePartsNext
<1>7. QED
  BY <1>2, <1>3, <1>4, <1>5, <1>6

\* The end of a process keeps the types.
LEMMA TypeEnd ==
  ASSUME TypeOK, NEW u \in User, StopClient(u) \/ DecryptionDies(u)
  PROVE  TypeOK'
<1>1. ThreadType /\ ConnType /\ TableType /\ Fit
  BY TypeParts
<1>2. End(u)
  BY DEF StopClient, DecryptionDies
<1>3. stops' \in 0 .. MaxStops
  BY <1>1, ConversationAssumption DEF StopClient, DecryptionDies, TableType
<1>4. thread' = [thread EXCEPT ![u] = [t \in Threads |-> "idle"]]
  BY <1>2 DEF End, Stop
<1>5. ThreadType'
  BY <1>1, <1>4, PointFacts DEF ThreadType
<1>6. << >> \in Seq(Sent) /\ << >> \in Seq(Frame)
  OBVIOUS
<1>7. ConnType'
  BY <1>1, <1>2, <1>6 DEF End, Stop, ConnType
<1>8. /\ message' = [message EXCEPT ![u] = Nothing]
      /\ received' = [received EXCEPT ![u] = Nothing]
      /\ UNCHANGED <<messages, made, drawn>>
      /\ missed' = missed \cup {<<u, v>> : v \in Unsent(u)} \cup {<<v, u>> : v \in Unread(u)}
  BY <1>2 DEF End
<1>9. Unsent(u) \subseteq User /\ Unread(u) \subseteq User
  BY DEF Unsent, Unread
<1>10. missed' \subseteq User \X User
  BY <1>1, <1>8, <1>9 DEF TableType
<1>11. TableType'
  BY <1>1, <1>3, <1>8, <1>10 DEF TableType
<1>12. /\ thread'[u]["main"] \notin MainBusy /\ thread'[u]["reader"] \notin ReaderBusy
       /\ \A x \in User \ {u} : thread'[x] = thread[x]
  BY <1>1, <1>4, PointFacts DEF ThreadType
<1>13. Fit'
  BY <1>1, <1>8, <1>12 DEF Fit, TableType
<1>14. QED
  BY <1>5, <1>7, <1>11, <1>13, TypePartsNext

\* The message that is first in an inbox.
LEMMA FrameFacts ==
  ASSUME TypeOK, NEW u \in User, HasFrame(u, "message")
  PROVE  /\ inbox[u] \in Seq(Frame) /\ inbox[u] # << >>
         /\ Head(inbox[u]) \in Frame /\ Tail(inbox[u]) \in Seq(Frame)
         /\ Head(inbox[u]).kind = "message"
         /\ Head(inbox[u]).from \in User /\ Head(inbox[u]).key \in Pairs
         /\ Head(inbox[u]).lock \in Pairs
<1>1. inbox[u] \in Seq(Frame) /\ inbox[u] # << >> /\ Head(inbox[u]).kind = "message"
  BY TypeParts DEF ConnType, HasFrame
<1>2. Head(inbox[u]) \in Frame /\ Tail(inbox[u]) \in Seq(Frame)
  BY <1>1, TailFacts
<1>3. QED
  BY <1>1, <1>2 DEF Frame

\* The steps of readMessage keep the types.
LEMMA TypeRead ==
  ASSUME TypeOK, NEW u \in User, DecryptMessage(u) \/ SelectReceived(u) \/ StoreReceived(u)
  PROVE  TypeOK'
<1>1. ThreadType /\ ConnType /\ TableType /\ Fit
  BY TypeParts
<1> USE PointFacts
<1>2. CASE DecryptMessage(u)
  <2> DEFINE frame == Head(inbox[u])
             m == [from |-> frame.from, key |-> frame.key, lock |-> frame.lock, conversation |-> 0]
  <2>1. HasFrame(u, "message")
    BY <1>2 DEF DecryptMessage
  <2>2. m \in Received
    BY <2>1, FrameFacts DEF Received
  <2>3. m # Nothing
    BY <2>2, ConversationAssumption
  <2>4. received' = [received EXCEPT ![u] = m]
    BY <1>2 DEF DecryptMessage
  <2> HIDE DEF m
  <2>5. TableType'
    BY <1>1, <1>2, <2>2, <2>4 DEF DecryptMessage, TableType
  <2>6. ConnType'
    BY <1>1, <1>2, <2>1, FrameFacts DEF DecryptMessage, ConnType
  <2>7. ThreadType' /\ Fit'
    <3>1. /\ Goto(u, "reader", "opened") /\ message' = message
          /\ "opened" \in Points /\ "opened" \in ReaderBusy
      BY <1>2 DEF DecryptMessage, ReaderBusy
    <3>2. received'[u] # Nothing /\ \A x \in User \ {u} : received'[x] = received[x]
      BY <1>1, <2>3, <2>4 DEF TableType
    <3>3. QED
      BY <1>1, <3>1, <3>2, GotoFacts, FitReader
  <2>8. QED
    BY <2>5, <2>6, <2>7, TypePartsNext
<1>3. CASE SelectReceived(u)
  <2>1. thread[u]["reader"] \in ReaderBusy
    BY <1>3 DEF SelectReceived, At, ReaderBusy
  <2>2. received[u] \in Received /\ received[u].from \in User
    BY <2>1, BusyFacts
  <2>3. drawn' \in [User -> Nat] /\ ConversationId(u, received[u].from) \in Nat
    BY <1>1, <1>3, <2>2, SelectType DEF SelectReceived, TableType
  <2> DEFINE m == [received[u] EXCEPT !.conversation = ConversationId(u, received[u].from)]
  <2>4. m \in Received
    BY <2>2, <2>3 DEF Received
  <2>5. m # Nothing
    BY <2>4, ConversationAssumption
  <2>6. received' = [received EXCEPT ![u] = m]
    BY <1>3 DEF SelectReceived
  <2> HIDE DEF m
  <2>7. TableType'
    BY <1>1, <1>3, <2>3, <2>4, <2>6 DEF SelectReceived, TableType
  <2>8. ThreadType' /\ Fit'
    <3>1. /\ Goto(u, "reader", "filed") /\ message' = message
          /\ "filed" \in Points /\ "filed" \in ReaderBusy
      BY <1>3 DEF SelectReceived, ReaderBusy
    <3>2. received'[u] # Nothing /\ \A x \in User \ {u} : received'[x] = received[x]
      BY <1>1, <2>5, <2>6 DEF TableType
    <3>3. QED
      BY <1>1, <3>1, <3>2, GotoFacts, FitReader
  <2>9. QED
    BY <1>1, <1>3, <2>7, <2>8, TypeQuiet, TypePartsNext DEF SelectReceived
<1>4. CASE StoreReceived(u)
  <2>1. thread[u]["reader"] \in ReaderBusy
    BY <1>4 DEF StoreReceived, At, ReaderBusy
  <2>2. /\ received[u].from \in User /\ received[u].key \in Pairs
        /\ received[u].conversation \in Nat
    BY <2>1, BusyFacts
  <2>3. messages' \in [User -> [User -> Seq(Row)]]
    BY <1>1, <1>4, <2>2, InsertType DEF StoreReceived, TableType
  <2>4. TableType'
    BY <1>1, <1>4, <2>3 DEF StoreReceived, TableType
  <2>5. ConnType'
    BY <1>1, <1>4 DEF StoreReceived, Lower, ConnType
  <2>6. ThreadType' /\ Fit'
    <3>1. /\ Goto(u, "reader", "window") /\ message' = message
          /\ "window" \in Points /\ "window" \notin ReaderBusy
      BY <1>4 DEF StoreReceived, Lower, ReaderBusy
    <3>2. received'[u] = Nothing /\ \A x \in User \ {u} : received'[x] = received[x]
      BY <1>1, <1>4 DEF StoreReceived, TableType
    <3>3. QED
      BY <1>1, <3>1, <3>2, GotoFacts, FitReader
  <2>7. QED
    BY <2>4, <2>5, <2>6, TypePartsNext
<1>5. QED
  BY <1>2, <1>3, <1>4

\* What RelayMessage does: the message is passed on, or it is lost.
LEMMA RelayFacts ==
  ASSUME TypeOK, NEW u \in User, RelayMessage(u)
  PROVE  LET sent == Head(outbox[u])
             frame == [kind |-> "message", from |-> u, key |-> sent.request.key,
                       lock |-> sent.request.lock]
         IN  /\ outbox[u] \in Seq(Sent) /\ outbox[u] # << >>
             /\ sent.request.kind = "message" /\ sent.request.to \in User
             /\ sent.request.key \in Pairs /\ sent.request.lock \in Pairs
             /\ frame \in Frame /\ Answer("other") \in Frame
             /\ outbox' = [outbox EXCEPT ![u] = Tail(@)]
             /\ \/ /\ inbox' = [inbox EXCEPT ![sent.request.to] = Append(@, frame),
                                             ![u] = Append(@, Answer("other"))]
                   /\ missed' = missed
                \/ /\ inbox' = [inbox EXCEPT ![u] = Append(@, Answer("other"))]
                   /\ missed' = missed \cup {<<u, sent.request.to>>}
             /\ UNCHANGED <<running, thread, isAuthenticatedUser, isLastResponseReaded,
                            lastResponse, isEncryptionEnabled, online, refusals>>
             /\ UNCHANGED <<messages, made, drawn, message, received, stops>>
<1> DEFINE sent == Head(outbox[u])
           frame == [kind |-> "message", from |-> u, key |-> sent.request.key,
                     lock |-> sent.request.lock]
<1>1. outbox[u] \in Seq(Sent) /\ outbox[u] # << >> /\ sent.request.kind = "message"
  BY TypeParts DEF ConnType, RelayMessage
<1>2. sent \in Sent
  BY <1>1, TailFacts
<1>3. /\ sent.request.to \in User /\ sent.request.key \in Pairs
      /\ sent.request.lock \in Pairs
  BY <1>1, <1>2 DEF Sent, Request
<1>4. frame \in Frame /\ Answer("other") \in Frame
  BY <1>3 DEF Frame, Answer
<1>5. \/ /\ inbox' = [inbox EXCEPT ![sent.request.to] = Append(@, frame),
                                   ![u] = Append(@, Answer("other"))]
         /\ missed' = missed
      \/ /\ inbox' = [inbox EXCEPT ![u] = Append(@, Answer("other"))]
         /\ missed' = missed \cup {<<u, sent.request.to>>}
  BY Zenon DEF RelayMessage
<1>6. /\ outbox' = [outbox EXCEPT ![u] = Tail(@)]
      /\ UNCHANGED <<running, thread, isAuthenticatedUser, isLastResponseReaded, lastResponse,
                     isEncryptionEnabled, online, refusals>>
      /\ UNCHANGED <<messages, made, drawn, message, received, stops>>
  BY Zenon DEF RelayMessage
<1>7. QED
  BY <1>1, <1>3, <1>4, <1>5, <1>6, Zenon

\* The server keeps the types.
LEMMA TypeRelay ==
  ASSUME TypeOK, NEW u \in User, RelayMessage(u)
  PROVE  TypeOK'
<1>1. ThreadType /\ ConnType /\ TableType /\ Fit
  BY TypeParts
<1> DEFINE v == Head(outbox[u]).request.to
           frame == [kind |-> "message", from |-> u, key |-> Head(outbox[u]).request.key,
                     lock |-> Head(outbox[u]).request.lock]
<1>2. /\ v \in User /\ frame \in Frame /\ Answer("other") \in Frame
      /\ Tail(outbox[u]) \in Seq(Sent)
      /\ outbox' = [outbox EXCEPT ![u] = Tail(@)]
  BY RelayFacts, TailFacts
<1>3. \/ /\ inbox' = [inbox EXCEPT ![v] = Append(@, frame), ![u] = Append(@, Answer("other"))]
         /\ missed' = missed
      \/ /\ inbox' = [inbox EXCEPT ![u] = Append(@, Answer("other"))]
         /\ missed' = missed \cup {<<u, v>>}
  BY RelayFacts
<1>4. /\ UNCHANGED <<running, thread, isAuthenticatedUser, isLastResponseReaded,
                     lastResponse, isEncryptionEnabled, online, refusals>>
      /\ UNCHANGED <<messages, made, drawn, message, received, stops>>
  BY RelayFacts
<1> HIDE DEF v, frame
<1>5. inbox' \in [User -> Seq(Frame)]
  <2>1. inbox \in [User -> Seq(Frame)]
    BY <1>1 DEF ConnType
  <2>2. /\ Append(inbox[v], frame) \in Seq(Frame)
        /\ Append(inbox[u], Answer("other")) \in Seq(Frame)
        /\ Append(Append(inbox[u], frame), Answer("other")) \in Seq(Frame)
    BY <1>2, <2>1, AppendFacts
  <2>3. QED
    BY <1>2, <1>3, <2>1, <2>2
<1>6. missed' \subseteq User \X User
  BY <1>1, <1>2, <1>3 DEF TableType
<1>7. outbox' \in [User -> Seq(Sent)]
  BY <1>1, <1>2 DEF ConnType
<1>8. ConnType'
  BY <1>1, <1>4, <1>5, <1>7 DEF ConnType
<1>9. TableType'
  BY <1>1, <1>4, <1>6 DEF TableType
<1>10. ThreadType' /\ Fit'
  BY <1>1, <1>4 DEF ThreadType, Fit
<1>11. QED
  BY <1>8, <1>9, <1>10, TypePartsNext

\* All steps.
LEMMA TypeNext == TypeOK /\ [Next]_vars => TypeOK'
<1> SUFFICES ASSUME TypeOK, [Next]_vars  PROVE TypeOK'
  OBVIOUS
<1>1. CASE UNCHANGED vars
  BY <1>1 DEF vars, connVars, conversationVars, TypeOK
<1>2. ASSUME NEW u \in User, UserStep(u)  PROVE TypeOK'
  BY <1>2, TypeConnection, TypeSend, TypeEnd DEF UserStep
<1>3. ASSUME NEW u \in User, MainStep(u)  PROVE TypeOK'
  BY <1>3, TypeConnection, TypeSend DEF MainStep
<1>4. ASSUME NEW u \in User, ReaderStep(u)  PROVE TypeOK'
  BY <1>4, TypeConnection, TypeRead, TypeEnd DEF ReaderStep
<1>5. ASSUME NEW u \in User, ServerStep(u)  PROVE TypeOK'
  BY <1>5, TypeConnection, TypeRelay DEF ServerStep
<1>6. QED
  BY <1>1, <1>2, <1>3, <1>4, <1>5 DEF Next

\* Every variable has its type: a thread has a message exactly while it is busy with one.
THEOREM TypeCorrect == Spec => []TypeOK
  BY TypeInit, TypeNext, PTL DEF Spec

----------------------------------------------------------------------------
(* The rows that are shown *)

\* A row of u for v with this conversation id would not be shown together with the first one.
Astray(u, v, id) == messages[u][v] # << >> /\ id # messages[u][v][1].conversation

StrayRows(u, v) ==
    {i \in DOMAIN messages[u][v] : Astray(u, v, messages[u][v][i].conversation)}

\* A thread of u is about to insert such a row.
OwnStray(u, v) ==
    thread[u]["main"] = "selected" /\ message[u].to = v /\ Astray(u, v, message[u].conversation)

OtherStray(u, v) ==
    thread[u]["reader"] = "filed" /\ received[u].from = v /\ Astray(u, v, received[u].conversation)

\* There is one such row at most, and then nobody is about to insert another.
FiledInv(u, v) ==
    /\ \A i, j \in StrayRows(u, v) : i = j
    /\ StrayRows(u, v) # {} => ~OwnStray(u, v) /\ ~OtherStray(u, v)
    /\ ~(OwnStray(u, v) /\ OtherStray(u, v))

\* The table for a user stays, and no id goes astray.
LEMMA FiledKept ==
  ASSUME NEW u, NEW v, FiledInv(u, v), messages'[u][v] = messages[u][v],
         OwnStray(u, v)' => OwnStray(u, v), OtherStray(u, v)' => OtherStray(u, v)
  PROVE  FiledInv(u, v)'
<1>1. StrayRows(u, v)' = StrayRows(u, v)
  BY DEF StrayRows, Astray
<1>2. QED
  BY <1>1 DEF FiledInv

\* So it is when no row is inserted and no conversation id selected.
LEMMA FiledElsewhere ==
  ASSUME \A x, y \in User : FiledInv(x, y), messages' = messages,
         \A x \in User :
            /\ thread'[x]["main"] = "selected" =>
                   thread[x]["main"] = "selected" /\ message'[x] = message[x]
            /\ thread'[x]["reader"] = "filed" =>
                   thread[x]["reader"] = "filed" /\ received'[x] = received[x]
  PROVE  \A x, y \in User : FiledInv(x, y)'
<1>1. ASSUME NEW x \in User, NEW y \in User  PROVE FiledInv(x, y)'
  <2>1. OwnStray(x, y)' => OwnStray(x, y)
    BY DEF OwnStray, Astray
  <2>2. OtherStray(x, y)' => OtherStray(x, y)
    BY DEF OtherStray, Astray
  <2>3. QED
    BY <2>1, <2>2, FiledKept
<1>2. QED
  BY <1>1

\* One thread goes on, and neither to "selected" nor to "filed".
LEMMA FiledGoto ==
  ASSUME TypeOK, \A x, y \in User : FiledInv(x, y), UNCHANGED messages,
         NEW u \in User, NEW t \in Threads, NEW p \in Points \ {"selected", "filed"}, Goto(u, t, p),
         \A x \in User : x # u \/ t # "main" => message'[x] = message[x],
         \A x \in User : x # u \/ t # "reader" => received'[x] = received[x]
  PROVE  \A x, y \in User : FiledInv(x, y)'
<1>1. /\ thread'[u][t] = p
      /\ \A x \in User, s \in Threads : x # u \/ s # t => thread'[x][s] = thread[x][s]
  BY TypeParts, GotoFacts
<1>2. QED
  BY <1>1, PointFacts, FiledElsewhere

\* The steps of the connection, and those of a message that neither select nor insert.
LEMMA FiledQuiet ==
  ASSUME TypeOK, \A x, y \in User : FiledInv(x, y), NEW u \in User,
         \/ UNCHANGED conversationVars
            /\ \/ Connect(u) \/ SignIn(u) \/ TakeResponse(u) \/ HandleRead(u)
               \/ ChangeEntry(u) \/ HandleLogin(u)
               \/ DisableEncryption(u, "main") \/ EnableEncryption(u, "main")
               \/ ReadResponse(u, "main")
         \/ \E v \in User : WriteMessage(u, v)
         \/ EncryptAESKey(u) \/ SendMessage(u) \/ DecryptMessage(u) \/ End(u) \/ RelayMessage(u)
  PROVE  \A x, y \in User : FiledInv(x, y)'
<1>1. ThreadType /\ TableType
  BY TypeParts
<1> USE PointFacts
<1>2. ASSUME NEW t \in Threads, NEW p \in Points \ {"selected", "filed"}, Goto(u, t, p),
             UNCHANGED conversationVars
      PROVE  \A x, y \in User : FiledInv(x, y)'
  BY <1>2, FiledGoto DEF conversationVars
<1>3. ASSUME thread' = thread, UNCHANGED <<messages, message, received>>
      PROVE  \A x, y \in User : FiledInv(x, y)'
  BY <1>3, FiledElsewhere
<1>4. {"idle", "typed", "ready", "disabled", "written", "awaiting", "opened", "window"}
          \subseteq Points \ {"selected", "filed"}
  BY DEF Points
<1>5. CASE UNCHANGED conversationVars /\ (Connect(u) \/ ChangeEntry(u) \/ HandleLogin(u))
  BY <1>3, <1>5 DEF conversationVars, Connect, ChangeEntry, HandleLogin
<1>6. CASE UNCHANGED conversationVars /\ SignIn(u)
  <2>1. PICK p \in {"awaiting", "written"} : Goto(u, "main", p)
    BY <1>6 DEF SignIn, SendRequest
  <2>2. QED
    BY <1>2, <1>4, <1>6, <2>1
<1>7. CASE UNCHANGED conversationVars /\ (TakeResponse(u) \/ HandleRead(u))
  <2>1. PICK p \in {"window", "idle"} : Goto(u, "reader", p)
    BY <1>7 DEF TakeResponse, Lower, HandleRead
  <2>2. QED
    BY <1>2, <1>4, <1>7, <2>1
<1>8. CASE UNCHANGED conversationVars
           /\ \/ DisableEncryption(u, "main") \/ EnableEncryption(u, "main")
              \/ ReadResponse(u, "main")
  <2>1. PICK p \in {"disabled", "awaiting", "idle"} : Goto(u, "main", p)
    BY <1>8 DEF DisableEncryption, EnableEncryption, ReadResponse
  <2>2. QED
    BY <1>2, <1>4, <1>8, <2>1
<1>9. CASE (\E v \in User : WriteMessage(u, v)) \/ EncryptAESKey(u) \/ SendMessage(u)
  <2>1. PICK p \in {"typed", "ready", "awaiting", "written"} : Goto(u, "main", p)
    BY <1>9 DEF WriteMessage, EncryptAESKey, SendMessage, SendRequest
  <2>2. /\ messages' = messages /\ received' = received
        /\ \A x \in User : x # u => message'[x] = message[x]
    BY <1>1, <1>9 DEF WriteMessage, EncryptAESKey, SendMessage, TableType
  <2>3. QED
    BY <1>4, <2>1, <2>2, FiledGoto
<1>10. CASE DecryptMessage(u)
  <2>1. Goto(u, "reader", "opened") /\ messages' = messages /\ message' = message
    BY <1>10 DEF DecryptMessage
  <2>2. \A x \in User : x # u => received'[x] = received[x]
    BY <1>1, <1>10 DEF DecryptMessage, TableType
  <2>3. QED
    BY <1>4, <2>1, <2>2, FiledGoto
<1>11. CASE End(u)
  <2>1. /\ \A s \in Threads : thread'[u][s] = "idle"
        /\ \A x \in User : x # u => /\ thread'[x] = thread[x]
                                    /\ message'[x] = message[x] /\ received'[x] = received[x]
        /\ messages' = messages
    BY <1>1, <1>11 DEF End, Stop, ThreadType, TableType
  <2>2. QED
    BY <2>1, FiledElsewhere
<1>12. CASE RelayMessage(u)
  BY <1>3, <1>12 DEF RelayMessage
<1>13. QED
  BY <1>5, <1>6, <1>7, <1>8, <1>9, <1>10, <1>11, <1>12

\* What a SELECT finds does not go astray.
LEMMA SelectedFacts ==
  ASSUME NEW u, NEW v
  PROVE  ~Astray(u, v, ConversationId(u, v))
  BY DEF Astray, ConversationId

\* The conversation id is selected.
LEMMA FiledSelect ==
  ASSUME TypeOK, \A x, y \in User : FiledInv(x, y), NEW u \in User,
         SelectOwn(u) \/ SelectReceived(u)
  PROVE  \A x, y \in User : FiledInv(x, y)'
<1>1. ThreadType /\ TableType
  BY TypeParts
<1> USE PointFacts
<1>2. {"selected", "filed"} \subseteq Points
  BY DEF Points
<1>3. messages' = messages
  BY DEF SelectOwn, SelectReceived
<1>4. ASSUME NEW x \in User, NEW y \in User  PROVE FiledInv(x, y)'
  <2>1. CASE SelectOwn(u)
    <3>1. Goto(u, "main", "selected") /\ received' = received
      BY <2>1 DEF SelectOwn
    <3>2. thread'[x]["reader"] = thread[x]["reader"]
          /\ (x # u => thread'[x]["main"] = thread[x]["main"])
      BY <1>1, <1>2, <3>1, GotoFacts DEF Threads
    <3>3. thread[u]["main"] \in MainBusy
      BY <2>1 DEF SelectOwn, At, MainBusy
    <3>4. message[u] \in Message
      BY <3>3, BusyFacts
    <3>5. message' = [message EXCEPT ![u] =
                         [message[u] EXCEPT !.conversation = ConversationId(u, message[u].to)]]
      BY <2>1 DEF SelectOwn
    <3>6. /\ message'[u].to = message[u].to
          /\ message'[u].conversation = ConversationId(u, message[u].to)
          /\ \A z \in User : z # u => message'[z] = message[z]
      BY <1>1, <3>4, <3>5 DEF TableType, Message
    <3>7. OwnStray(x, y)' => OwnStray(x, y)
      <4>1. CASE x = u
        <5>1. OwnStray(u, y)' => message'[u].to = y /\ Astray(u, y, message'[u].conversation)
          BY <1>3 DEF OwnStray, Astray
        <5>2. message'[u].to = y => ~Astray(u, y, message'[u].conversation)
          BY <3>6, SelectedFacts
        <5>3. QED
          BY <4>1, <5>1, <5>2
      <4>2. CASE x # u
        BY <1>3, <3>2, <3>6, <4>2 DEF OwnStray, Astray
      <4>3. QED
        BY <4>1, <4>2
    <3>8. OtherStray(x, y)' => OtherStray(x, y)
      BY <1>3, <3>1, <3>2 DEF OtherStray, Astray
    <3>9. QED
      BY <1>3, <3>7, <3>8, FiledKept
  <2>2. CASE SelectReceived(u)
    <3>1. Goto(u, "reader", "filed") /\ message' = message
      BY <2>2 DEF SelectReceived
    <3>2. thread'[x]["main"] = thread[x]["main"]
          /\ (x # u => thread'[x]["reader"] = thread[x]["reader"])
      BY <1>1, <1>2, <3>1, GotoFacts DEF Threads
    <3>3. thread[u]["reader"] \in ReaderBusy
      BY <2>2 DEF SelectReceived, At, ReaderBusy
    <3>4. received[u] \in Received
      BY <3>3, BusyFacts
    <3>5. received' = [received EXCEPT ![u] =
                         [received[u] EXCEPT !.conversation = ConversationId(u, received[u].from)]]
      BY <2>2 DEF SelectReceived
    <3>6. /\ received'[u].from = received[u].from
          /\ received'[u].conversation = ConversationId(u, received[u].from)
          /\ \A z \in User : z # u => received'[z] = received[z]
      BY <1>1, <3>4, <3>5 DEF TableType, Received
    <3>7. OtherStray(x, y)' => OtherStray(x, y)
      <4>1. CASE x = u
        <5>1. OtherStray(u, y)' => received'[u].from = y /\ Astray(u, y, received'[u].conversation)
          BY <1>3 DEF OtherStray, Astray
        <5>2. received'[u].from = y => ~Astray(u, y, received'[u].conversation)
          BY <3>6, SelectedFacts
        <5>3. QED
          BY <4>1, <5>1, <5>2
      <4>2. CASE x # u
        BY <1>3, <3>2, <3>6, <4>2 DEF OtherStray, Astray
      <4>3. QED
        BY <4>1, <4>2
    <3>8. OwnStray(x, y)' => OwnStray(x, y)
      BY <1>3, <3>1, <3>2 DEF OwnStray, Astray
    <3>9. QED
      BY <1>3, <3>7, <3>8, FiledKept
  <2>3. QED
    BY <2>1, <2>2
<1>5. QED
  BY <1>4

\* A row is inserted: the one that takes the first place makes none go astray, and one that
\* goes astray was about to be inserted.
LEMMA FiledAppend ==
  ASSUME NEW u, NEW v, FiledInv(u, v), messages[u][v] \in Seq(Row), NEW row \in Row,
         messages'[u][v] = Append(messages[u][v], row),
         \/ /\ ~OwnStray(u, v)'
            /\ messages[u][v] # << >> => (OtherStray(u, v)' => OtherStray(u, v))
            /\ Astray(u, v, row.conversation) => OwnStray(u, v)
         \/ /\ ~OtherStray(u, v)'
            /\ messages[u][v] # << >> => (OwnStray(u, v)' => OwnStray(u, v))
            /\ Astray(u, v, row.conversation) => OtherStray(u, v)
  PROVE  FiledInv(u, v)'
<1> DEFINE rows == messages[u][v]
           rows2 == Append(rows, row)
<1>1. /\ Len(rows) \in Nat /\ DOMAIN rows = 1 .. Len(rows)
      /\ DOMAIN rows2 = 1 .. (Len(rows) + 1) /\ rows2 # << >>
      /\ \A i \in 1 .. Len(rows) : rows2[i] = rows[i]
      /\ rows2[Len(rows) + 1] = row
  BY SeqFacts, AppendFacts
<1>2. StrayRows(u, v)' = {i \in DOMAIN rows2 : rows2[i].conversation # rows2[1].conversation}
  BY <1>1 DEF StrayRows, Astray
<1>3. CASE rows = << >>
  <2>1. Len(rows) = 0
    BY <1>3
  <2>2. \A i \in DOMAIN rows2 : i = 1
    BY <1>1, <2>1
  <2>3. StrayRows(u, v)' = {}
    BY <1>2, <2>2
  <2>4. QED
    BY <2>3 DEF FiledInv
<1>4. CASE rows # << >>
  <2>1. rows2[1] = rows[1] /\ 1 \in DOMAIN rows
    BY <1>1, <1>4
  <2>2. StrayRows(u, v) = {i \in DOMAIN rows : rows[i].conversation # rows[1].conversation}
    BY <1>4 DEF StrayRows, Astray
  <2>3. \A i \in DOMAIN rows2 : i \in DOMAIN rows \/ i = Len(rows) + 1
    BY <1>1
  <2>4. CASE row.conversation = rows[1].conversation
    <3>1. StrayRows(u, v)' \subseteq StrayRows(u, v)
      BY <1>1, <1>2, <2>1, <2>2, <2>3, <2>4
    <3>2. QED
      BY <1>4, <3>1 DEF FiledInv
  <2>5. CASE row.conversation # rows[1].conversation
    <3>1. Astray(u, v, row.conversation)
      BY <1>4, <2>5 DEF Astray
    <3>2. StrayRows(u, v) = {} /\ ~OwnStray(u, v)' /\ ~OtherStray(u, v)'
      BY <1>4, <3>1 DEF FiledInv
    <3>3. \A i \in StrayRows(u, v)' : i = Len(rows) + 1
      BY <1>1, <1>2, <2>1, <2>2, <2>3, <3>2
    <3>4. QED
      BY <3>2, <3>3 DEF FiledInv
  <2>6. QED
    BY <2>4, <2>5
<1>5. QED
  BY <1>3, <1>4

\* The row is inserted that was filed.
LEMMA FiledInsert ==
  ASSUME TypeOK, \A x, y \in User : FiledInv(x, y), NEW u \in User,
         StoreOwn(u) \/ StoreReceived(u)
  PROVE  \A x, y \in User : FiledInv(x, y)'
<1>1. ThreadType /\ TableType
  BY TypeParts
<1> USE PointFacts
<1>2. {"stored", "window"} \subseteq Points
  BY DEF Points
<1>3. CASE StoreOwn(u)
  <2>1. thread[u]["main"] = "selected"
    BY <1>3 DEF StoreOwn, At
  <2>2. PICK v \in User : v = message[u].to
    BY <2>1, BusyFacts DEF MainBusy
  <2>3. PICK row \in Row : row = [sender |-> u, key |-> message[u].key,
                                  conversation |-> message[u].conversation]
    BY <2>1, <2>2, BusyFacts DEF MainBusy, Row
  <2>4. /\ received' = received /\ message' = message
        /\ Goto(u, "main", "stored")
        /\ messages' = [messages EXCEPT ![u][v] = Append(@, row)]
    BY <1>3, <2>2, <2>3 DEF StoreOwn, Insert
  <2>5. /\ thread'[u]["main"] = "stored" /\ thread'[u]["reader"] = thread[u]["reader"]
        /\ \A x \in User : x # u => thread'[x] = thread[x]
    BY <1>1, <1>2, <2>4, GotoFacts DEF Goto, ThreadType
  <2>6. /\ messages'[u][v] = Append(messages[u][v], row) /\ messages[u][v] \in Seq(Row)
        /\ \A x, y \in User : x # u \/ y # v => messages'[x][y] = messages[x][y]
    BY <1>1, <2>4 DEF TableType
  <2>7. ASSUME NEW x \in User, NEW y \in User  PROVE FiledInv(x, y)'
    <3>1. ~OwnStray(u, y)'
      BY <2>5 DEF OwnStray
    <3>2. CASE x = u /\ y = v
      <4>1. messages[u][v] # << >> =>
                messages'[u][v] # << >> /\ messages'[u][v][1] = messages[u][v][1]
        BY <2>6, AppendFacts
      <4>2. messages[u][v] # << >> => (OtherStray(u, v)' => OtherStray(u, v))
        BY <2>4, <2>5, <4>1 DEF OtherStray, Astray
      <4>3. Astray(u, v, row.conversation) => OwnStray(u, v)
        BY <2>1, <2>2, <2>3 DEF OwnStray
      <4>4. QED
        BY <2>6, <3>1, <3>2, <4>2, <4>3, FiledAppend
    <3>3. CASE x # u \/ y # v
      <4>1. messages'[x][y] = messages[x][y]
        BY <2>6, <3>3
      <4>2. OwnStray(x, y)' => OwnStray(x, y)
        BY <2>4, <2>5, <3>1, <4>1 DEF OwnStray, Astray
      <4>3. OtherStray(x, y)' => OtherStray(x, y)
        BY <2>4, <2>5, <4>1 DEF OtherStray, Astray
      <4>4. QED
        BY <4>1, <4>2, <4>3, FiledKept
    <3>4. QED
      BY <3>2, <3>3
  <2>8. QED
    BY <2>7
<1>4. CASE StoreReceived(u)
  <2>1. thread[u]["reader"] = "filed"
    BY <1>4 DEF StoreReceived, At
  <2>2. PICK v \in User : v = received[u].from
    BY <2>1, BusyFacts DEF ReaderBusy
  <2>3. PICK row \in Row : row = [sender |-> v, key |-> received[u].key,
                                  conversation |-> received[u].conversation]
    BY <2>1, <2>2, BusyFacts DEF ReaderBusy, Row
  <2>4. /\ message' = message
        /\ received' = [received EXCEPT ![u] = Nothing]
        /\ Goto(u, "reader", "window")
        /\ messages' = [messages EXCEPT ![u][v] = Append(@, row)]
    BY <1>4, <2>2, <2>3 DEF StoreReceived, Insert, Lower
  <2>5. /\ thread'[u]["reader"] = "window" /\ thread'[u]["main"] = thread[u]["main"]
        /\ \A x \in User : x # u => thread'[x] = thread[x] /\ received'[x] = received[x]
    BY <1>1, <1>2, <2>4, GotoFacts DEF Goto, ThreadType, TableType
  <2>6. /\ messages'[u][v] = Append(messages[u][v], row) /\ messages[u][v] \in Seq(Row)
        /\ \A x, y \in User : x # u \/ y # v => messages'[x][y] = messages[x][y]
    BY <1>1, <2>4 DEF TableType
  <2>7. ASSUME NEW x \in User, NEW y \in User  PROVE FiledInv(x, y)'
    <3>1. ~OtherStray(u, y)'
      BY <2>5 DEF OtherStray
    <3>2. CASE x = u /\ y = v
      <4>1. messages[u][v] # << >> =>
                messages'[u][v] # << >> /\ messages'[u][v][1] = messages[u][v][1]
        BY <2>6, AppendFacts
      <4>2. messages[u][v] # << >> => (OwnStray(u, v)' => OwnStray(u, v))
        BY <2>4, <2>5, <4>1 DEF OwnStray, Astray
      <4>3. Astray(u, v, row.conversation) => OtherStray(u, v)
        BY <2>1, <2>2, <2>3 DEF OtherStray
      <4>4. QED
        BY <2>6, <3>1, <3>2, <4>2, <4>3, FiledAppend
    <3>3. CASE x # u \/ y # v
      <4>1. messages'[x][y] = messages[x][y]
        BY <2>6, <3>3
      <4>2. OwnStray(x, y)' => OwnStray(x, y)
        BY <2>4, <2>5, <4>1 DEF OwnStray, Astray
      <4>3. OtherStray(x, y)' => OtherStray(x, y)
        BY <2>4, <2>5, <3>1, <4>1 DEF OtherStray, Astray
      <4>4. QED
        BY <4>1, <4>2, <4>3, FiledKept
    <3>4. QED
      BY <3>2, <3>3
  <2>8. QED
    BY <2>7
<1>5. QED
  BY <1>3, <1>4

\* All steps.
LEMMA FiledNext ==
  TypeOK /\ (\A x, y \in User : FiledInv(x, y)) /\ [Next]_vars
      => \A x, y \in User : FiledInv(x, y)'
<1> SUFFICES ASSUME TypeOK, \A x, y \in User : FiledInv(x, y), [Next]_vars
             PROVE  \A x, y \in User : FiledInv(x, y)'
  OBVIOUS
<1>1. CASE UNCHANGED vars
  BY <1>1, FiledElsewhere DEF vars, connVars, conversationVars
<1>2. ASSUME NEW u \in User, UserStep(u)  PROVE \A x, y \in User : FiledInv(x, y)'
  BY <1>2, FiledQuiet DEF UserStep, StopClient
<1>3. ASSUME NEW u \in User, MainStep(u)  PROVE \A x, y \in User : FiledInv(x, y)'
  BY <1>3, FiledQuiet, FiledSelect, FiledInsert DEF MainStep
<1>4. ASSUME NEW u \in User, ReaderStep(u)  PROVE \A x, y \in User : FiledInv(x, y)'
  BY <1>4, FiledQuiet, FiledSelect, FiledInsert DEF ReaderStep, DecryptionDies
<1>5. ASSUME NEW u \in User, ServerStep(u)  PROVE \A x, y \in User : FiledInv(x, y)'
  BY <1>5, FiledQuiet DEF ServerStep
<1>6. QED
  BY <1>1, <1>2, <1>3, <1>4, <1>5 DEF Next

\* No table has a row at first.
LEMMA FiledInit == Init => \A x, y \in User : FiledInv(x, y)
<1> SUFFICES ASSUME Init, NEW x \in User, NEW y \in User  PROVE FiledInv(x, y)
  OBVIOUS
<1>1. messages[x][y] = << >>
  BY DEF Init
<1>2. QED
  BY <1>1 DEF FiledInv, StrayRows, OwnStray, OtherStray, Astray

\* With one stray row at the most, either it is the one that is hidden, or it is the first
\* row of v, and then it is the only one that is shown.
LEMMA FiledShown ==
  ASSUME TypeOK, \A x, y \in User : FiledInv(x, y)
  PROVE  ShownAlmostAll
<1> SUFFICES ASSUME NEW u \in User, NEW v \in User,
                    \E i \in DOMAIN messages[u][v] : messages[u][v][i].sender = v
             PROVE  LET hidden == DOMAIN messages[u][v] \ Shown(u, v)
                    IN  \/ Cardinality(hidden) <= 1
                        \/ /\ Cardinality(Shown(u, v)) = 1
                           /\ \A i, j \in hidden : messages[u][v][i].conversation
                                                      = messages[u][v][j].conversation
  BY DEF ShownAlmostAll
<1> DEFINE rows == messages[u][v]
           theirs == {i \in DOMAIN rows : rows[i].sender = v}
           first == Min(theirs)
           hidden == DOMAIN rows \ Shown(u, v)
           stray == StrayRows(u, v)
<1>1. rows \in Seq(Row)
  BY TypeParts DEF TableType
<1>2. Len(rows) \in Nat /\ DOMAIN rows = 1 .. Len(rows)
  BY <1>1, SeqFacts
<1>3. theirs # {} /\ theirs \subseteq Nat
  BY <1>2
<1>4. first \in theirs
  <2>1. \E x \in theirs : \A y \in theirs : x <= y
    <3> HIDE DEF theirs
    <3> QED
      BY <1>3, LeastNatural
  <2>2. QED
    BY <2>1 DEF Min
<1>5. Shown(u, v) = {i \in DOMAIN rows : rows[i].conversation = rows[first].conversation}
  BY <1>3 DEF Shown
<1>6. /\ first \in DOMAIN rows
      /\ hidden = {i \in DOMAIN rows : rows[i].conversation # rows[first].conversation}
  BY <1>4, <1>5
<1>7. /\ stray = {i \in DOMAIN rows : rows[i].conversation # rows[1].conversation}
      /\ \A i, j \in stray : i = j
  BY <1>2, <1>6 DEF StrayRows, Astray, FiledInv
<1> HIDE DEF first, theirs, stray
<1>8. CASE first \notin stray
  <2>1. hidden = stray
    BY <1>6, <1>7, <1>8
  <2>2. Cardinality(stray) <= 1
    <3>1. CASE stray = {}
      BY <3>1, FS_EmptySet
    <3>2. CASE stray # {}
      <4>1. PICK x \in stray : TRUE
        BY <3>2
      <4>2. stray = {x}
        BY <1>7
      <4>3. Cardinality({x}) = 1
        BY FS_Singleton
      <4>4. QED
        BY <4>2, <4>3
    <3>3. QED
      BY <3>1, <3>2
  <2>3. Cardinality(hidden) <= 1
    <3> HIDE DEF hidden
    <3> QED
      BY <2>1, <2>2
  <2>4. QED
    BY <2>3
<1>9. CASE first \in stray
  <2>1. \A i \in DOMAIN rows : i # first => rows[i].conversation = rows[1].conversation
    BY <1>7, <1>9
  <2>2. rows[first].conversation # rows[1].conversation
    BY <1>7, <1>9
  <2>3. Shown(u, v) = {first}
    BY <1>5, <1>6, <2>1, <2>2
  <2>4. Cardinality(Shown(u, v)) = 1
    BY <2>3, FS_Singleton
  <2>5. \A i, j \in hidden : rows[i].conversation = rows[j].conversation
    BY <1>6, <2>1
  <2>6. QED
    BY <2>4, <2>5
<1>10. QED
  BY <1>8, <1>9

\* Of a conversation in which the other one has written, the user sees all rows but one at
\* the most, or that single one (Application::loadMessages), though both threads may have
\* drawn a conversation id for it.
THEOREM ShownAlmostAllAlways == Spec => []ShownAlmostAll
<1>1. Init => TypeOK /\ \A x, y \in User : FiledInv(x, y)
  BY TypeInit, FiledInit
<1>2. /\ TypeOK /\ (\A x, y \in User : FiledInv(x, y)) /\ [Next]_vars
      => (TypeOK /\ \A x, y \in User : FiledInv(x, y))'
  BY TypeNext, FiledNext
<1>3. TypeOK /\ (\A x, y \in User : FiledInv(x, y)) => ShownAlmostAll
  BY FiledShown
<1>4. QED
  BY <1>1, <1>2, <1>3, PTL DEF Spec

=============================================================================
