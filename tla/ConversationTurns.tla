-------------------------- MODULE ConversationTurns --------------------------
(***************************************************************************)
(* Conversation implements TurnTaking, the keys of its tables follow each  *)
(* other and never go back, and messages are locked with keys that were    *)
(* told, for every set of users and all bounds.                            *)
(***************************************************************************)
EXTENDS ConversationParts

----------------------------------------------------------------------------
(* The steps that take no part in the protocol *)

\* What a step leaves alone that keeps each message where it is.
Idle ==
    /\ \A u, v \in User :
          /\ Opened(v, u)' = Opened(v, u) /\ Coming(u, v)' = Coming(u, v)
          /\ Sending(u, v)' = Sending(u, v) /\ Written(u, v)' = Written(u, v)
          /\ Locked(u, v)' = Locked(u, v)
          /\ SendingInOrder(u, v)' /\ ComingInOrder(u, v)'
          /\ ToldKeys(u, v)' = ToldKeys(u, v)
          /\ PrivateKey(u, v)' = PrivateKey(u, v) /\ PublicKey(u, v)' = PublicKey(u, v)
          /\ Written(u, v)' # {} => Unstored(u)' = Unstored(u)
    /\ made' \in Nat /\ made <= made'
    /\ missed \subseteq missed'

\* Such a step keeps the invariant.
LEMMA IdleKeeps ==
  ASSUME Inv, Idle
  PROVE  \A u, v \in User : PairInv(u, v)'
  BY PairSame DEF Inv, Idle

\* The main thread stands neither before nor after the step where it would have a
\* locked message.
LEMMA SameLocked ==
  ASSUME NEW u, NEW v, message'[u] = message[u],
         thread'[u]["main"] \in {"ready", "disabled"} <=> thread[u]["main"] \in {"ready", "disabled"}
  PROVE  Locked(u, v)' = Locked(u, v)
  BY DEF Locked, Content

\* The steps of the connection keep each message where it is.
LEMMA IdleConnection ==
  ASSUME Inv, NEW x \in User, UNCHANGED conversationVars,
         \/ Connect(x) \/ SignIn(x) \/ TakeResponse(x) \/ HandleRead(x)
         \/ ChangeEntry(x) \/ HandleLogin(x)
         \/ DisableEncryption(x, "main") \/ EnableEncryption(x, "main") \/ ReadResponse(x, "main")
  PROVE  Idle
<1>1. UNCHANGED <<messages, made, message, received, missed>> /\ made \in Nat
  BY ConversationAssumption DEF conversationVars, Inv, TypeOK
<1>2. ThreadType /\ ConnType /\ TypeOK
  BY TypeParts DEF Inv
<1>3. \A u \in User :
          /\ thread'[u]["main"] \in {"ready", "disabled"} <=> thread[u]["main"] \in {"ready", "disabled"}
          /\ Unstored(u)' = Unstored(u)
  <2>1. ASSUME NEW t \in Threads, NEW p \in Points, Goto(x, t, p),
               t = "main" =>
                   /\ p \in {"ready", "disabled"} <=> thread[x]["main"] \in {"ready", "disabled"}
                   /\ p \notin {"typed", "selected"} /\ thread[x]["main"] \notin {"typed", "selected"}
        PROVE  <1>3!:
    BY <1>2, <2>1, GotoFacts, PointFacts DEF Unstored, Threads
  <2>2. CASE Connect(x) \/ ChangeEntry(x) \/ HandleLogin(x)
    BY <2>2 DEF Connect, ChangeEntry, HandleLogin, Unstored
  <2>3. CASE SignIn(x)
    BY <2>1, <2>3, PointFacts DEF SignIn, SendRequest, At
  <2>4. CASE TakeResponse(x)
    BY <2>1, <2>4, PointFacts DEF TakeResponse, Lower
  <2>5. CASE HandleRead(x)
    BY <2>1, <2>5, PointFacts DEF HandleRead
  <2>6. CASE DisableEncryption(x, "main")
    BY <2>1, <2>6, PointFacts DEF DisableEncryption, At, Points
  <2>7. CASE EnableEncryption(x, "main")
    BY <2>1, <2>7, PointFacts DEF EnableEncryption, At
  <2>8. CASE ReadResponse(x, "main")
    BY <2>1, <2>8, PointFacts DEF ReadResponse, Awoken, At
  <2>9. QED
    BY <2>2, <2>3, <2>4, <2>5, <2>6, <2>7, <2>8
<1>4. ASSUME NEW u \in User, NEW v \in User
      PROVE  /\ Opened(v, u)' = Opened(v, u) /\ Written(u, v)' = Written(u, v)
             /\ Locked(u, v)' = Locked(u, v)
             /\ ToldKeys(u, v)' = ToldKeys(u, v)
             /\ PrivateKey(u, v)' = PrivateKey(u, v) /\ PublicKey(u, v)' = PublicKey(u, v)
  BY <1>1, <1>3, SameTable, SameMessage, SameReceived, SameLocked
<1>5. ASSUME NEW u \in User, NEW v \in User
      PROVE  Sending(u, v)' = Sending(u, v) /\ SendingInOrder(u, v)'
  <2>1. SendingInOrder(u, v)
    BY DEF Inv, PairInv, OrderInv
  <2>2. CASE u # x \/ ~(SignIn(x) \/ HandleLogin(x))
    <3>1. outbox' = outbox \/ \E e : outbox' = [outbox EXCEPT ![x] = e] /\ u # x
      BY <2>2, Zenon DEF SignIn, SendRequest, ChangeEntry, HandleLogin, Connect, TakeResponse,
                         HandleRead, DisableEncryption, EnableEncryption, ReadResponse
    <3>2. outbox'[u] = outbox[u]
      BY <1>2, <3>1 DEF ConnType
    <3>3. QED
      BY <2>1, <3>2, SameOutbox
  <2>3. CASE u = x /\ SignIn(x)
    <3> DEFINE e == [request |-> [kind |-> "login", to |-> x], plain |-> ~isEncryptionEnabled[x]]
    <3>1. e \in Sent /\ e.request.kind # "message"
      BY <1>2 DEF Sent, Request, ConnType
    <3>2. outbox'[x] = Append(outbox[x], e)
      BY <1>2, <2>3 DEF ConnType, SignIn, SendRequest
    <3> HIDE DEF e
    <3>3. SendingInOrder(x, v)
      BY <2>1, <2>3
    <3>4. /\ Sending(x, v)' = Sending(x, v) \cup
                (IF e.request.kind = "message" /\ e.request.to = v
                 THEN {Content(e.request)} ELSE {})
          /\ SendingInOrder(x, v)'
      BY <1>2, <3>1, <3>2, <3>3, SendingAppend
    <3>5. QED
      BY <2>3, <3>1, <3>4
  <2>4. CASE u = x /\ HandleLogin(x)
    <3>1. outbox[x] # << >> /\ outbox'[x] = Tail(outbox[x]) /\ Head(outbox[x]).request.kind = "login"
      BY <1>2, <2>4 DEF ConnType, HandleLogin
    <3>2. SendingInOrder(x, v)
      BY <2>1, <2>4
    <3>3. /\ Sending(x, v) =
                (IF Head(outbox[x]).request.kind = "message" /\ Head(outbox[x]).request.to = v
                 THEN {Content(Head(outbox[x]).request)} ELSE {}) \cup Sending(x, v)'
          /\ SendingInOrder(x, v)'
      BY <1>2, <3>1, <3>2, SendingTail, Zenon
    <3>4. QED
      BY <2>4, <3>1, <3>3
  <2>5. QED
    BY <2>2, <2>3, <2>4
<1>6. ASSUME NEW u \in User, NEW v \in User
      PROVE  Coming(u, v)' = Coming(u, v) /\ ComingInOrder(u, v)'
  <2>1. ComingInOrder(u, v)
    BY DEF Inv, PairInv, OrderInv
  <2>2. CASE v # x \/ ~(TakeResponse(x) \/ HandleLogin(x))
    <3>1. inbox' = inbox \/ \E e : inbox' = [inbox EXCEPT ![x] = e] /\ v # x
      BY <2>2, Zenon DEF SignIn, SendRequest, ChangeEntry, HandleLogin, Connect, TakeResponse,
                         HandleRead, DisableEncryption, EnableEncryption, ReadResponse
    <3>2. inbox'[v] = inbox[v]
      BY <1>2, <3>1 DEF ConnType
    <3>3. QED
      BY <2>1, <3>2, SameInbox
  <2>3. CASE v = x /\ TakeResponse(x)
    <3>1. inbox[x] # << >> /\ inbox'[x] = Tail(inbox[x]) /\ Head(inbox[x]).kind = "response"
      BY <1>2, <2>3 DEF ConnType, TakeResponse, HasFrame
    <3>2. ComingInOrder(u, x)
      BY <2>1, <2>3
    <3>3. /\ Coming(u, x) =
                (IF Head(inbox[x]).kind = "message" /\ Head(inbox[x]).from = u
                 THEN {Content(Head(inbox[x]))} ELSE {}) \cup Coming(u, x)'
          /\ ComingInOrder(u, x)'
      BY <1>2, <3>1, <3>2, ComingTail, Zenon
    <3>4. QED
      BY <2>3, <3>1, <3>3
  <2>4. CASE v = x /\ HandleLogin(x)
    <3>1. \E e \in {Answer("authenticated"), Answer("other")} :
             inbox' = [inbox EXCEPT ![x] = Append(@, e)]
      BY <2>4, Zenon DEF HandleLogin
    <3>2. PICK e : e \in Frame /\ e.kind = "response" /\ inbox' = [inbox EXCEPT ![x] = Append(@, e)]
      BY <3>1 DEF Answer, Frame
    <3>3. inbox'[x] = Append(inbox[x], e)
      BY <1>2, <3>2 DEF ConnType
    <3>4. ComingInOrder(u, x)
      BY <2>1, <2>4
    <3>5. /\ Coming(u, x)' = Coming(u, x) \cup
                (IF e.kind = "message" /\ e.from = u THEN {Content(e)} ELSE {})
          /\ ComingInOrder(u, x)'
      BY <1>2, <3>2, <3>3, <3>4, ComingAppend
    <3>6. QED
      BY <2>4, <3>2, <3>5
  <2>5. QED
    BY <2>2, <2>3, <2>4
<1>7. QED
  BY <1>1, <1>3, <1>4, <1>5, <1>6 DEF Idle

\* To choose a conversation id keeps each message where it is, too.
LEMMA IdleSelect ==
  ASSUME Inv, NEW x \in User, SelectOwn(x) \/ SelectReceived(x)
  PROVE  Idle
<1>1. ThreadType /\ ConnType /\ TableType /\ Fit /\ TypeOK
  BY TypeParts DEF Inv
<1>2. UNCHANGED <<messages, made, missed, outbox, inbox>> /\ made \in Nat
  BY <1>1, ConversationAssumption DEF SelectOwn, SelectReceived, ClientUnchanged, TableType
<1>3. \A u, v \in User :
          /\ ToldKeys(u, v)' = ToldKeys(u, v)
          /\ PrivateKey(u, v)' = PrivateKey(u, v) /\ PublicKey(u, v)' = PublicKey(u, v)
  BY <1>2, SameTable
<1>4. \A u, v \in User :
          /\ Sending(u, v)' = Sending(u, v) /\ SendingInOrder(u, v)'
          /\ Coming(u, v)' = Coming(u, v) /\ ComingInOrder(u, v)'
  BY <1>2, SameOutbox, SameInbox DEF Inv, PairInv, OrderInv
<1>5. CASE SelectOwn(x)
  <2>1. thread[x]["main"] = "typed" /\ thread'[x]["main"] = "selected"
        /\ \A u \in User \ {x} : thread'[u]["main"] = thread[u]["main"]
    BY <1>1, <1>5, GotoFacts, PointFacts DEF SelectOwn, At, MainBusy
  <2>2. message[x] \in Message
    BY <2>1, BusyFacts, <1>1 DEF MainBusy
  <2>3. \E c : message' = [message EXCEPT ![x].conversation = c]
    BY <1>5 DEF SelectOwn
  <2>4. /\ Content(message'[x]) = Content(message[x]) /\ message'[x].to = message[x].to
        /\ \A u \in User \ {x} : message'[u] = message[u]
    BY <1>1, <2>2, <2>3 DEF TableType, Message, Content
  <2>5. message'[x] # Nothing /\ message[x] # Nothing
    BY <1>1, <2>1, TypeSend, TypeParts, TypePartsNext, <1>5 DEF Fit, MainBusy
  <2>6. \A u, v \in User :
            /\ Written(u, v)' = Written(u, v) /\ Locked(u, v)' = Locked(u, v)
            /\ Unstored(u)' = Unstored(u)
    <3>1. ASSUME NEW u \in User, NEW v \in User, u # x
          PROVE  /\ Written(u, v)' = Written(u, v) /\ Locked(u, v)' = Locked(u, v)
                 /\ Unstored(u)' = Unstored(u)
      BY <2>1, <2>4, <3>1, SameMessage, SameLocked DEF Unstored
    <3>2. ASSUME NEW v \in User
          PROVE  /\ Written(x, v)' = Written(x, v) /\ Locked(x, v)' = Locked(x, v)
                 /\ Unstored(x)' = Unstored(x)
      <4>1. Written(x, v)' = Written(x, v)
        BY <2>4, <2>5 DEF Written
      <4>2. Locked(x, v)' = {} /\ Locked(x, v) = {}
        BY <2>1 DEF Locked
      <4>3. QED
        BY <2>1, <4>1, <4>2 DEF Unstored
    <3>3. QED
      BY <3>1, <3>2
  <2>7. \A u, v \in User : Opened(v, u)' = Opened(v, u)
    BY <1>5, SameReceived DEF SelectOwn
  <2>8. QED
    BY <1>2, <1>3, <1>4, <2>6, <2>7 DEF Idle
<1>6. CASE SelectReceived(x)
  <2>1. thread[x]["reader"] = "opened" /\ thread'[x]["reader"] = "filed"
        /\ \A u \in User : thread'[u]["main"] = thread[u]["main"]
    BY <1>1, <1>6, GotoFacts, PointFacts DEF SelectReceived, At, ReaderBusy, Threads
  <2>2. received[x] \in Received
    BY <2>1, BusyFacts, <1>1 DEF ReaderBusy
  <2>3. \E c : received' = [received EXCEPT ![x].conversation = c]
    BY <1>6 DEF SelectReceived
  <2>4. /\ Content(received'[x]) = Content(received[x]) /\ received'[x].from = received[x].from
        /\ \A u \in User \ {x} : received'[u] = received[u]
    BY <1>1, <2>2, <2>3 DEF TableType, Received, Content
  <2>5. received'[x] # Nothing /\ received[x] # Nothing
    BY <1>1, <2>1, TypeRead, TypeParts, TypePartsNext, <1>6 DEF Fit, ReaderBusy
  <2>6. \A u, v \in User : Opened(v, u)' = Opened(v, u)
    BY <2>4, <2>5, SameReceived DEF Opened
  <2>7. \A u, v \in User :
            /\ Written(u, v)' = Written(u, v) /\ Locked(u, v)' = Locked(u, v)
            /\ Unstored(u)' = Unstored(u)
    BY <1>6, <2>1, SameMessage, SameLocked DEF SelectReceived, Unstored
  <2>8. QED
    BY <1>2, <1>3, <1>4, <2>6, <2>7 DEF Idle
<1>7. QED
  BY <1>5, <1>6

\* A step that nothing of the protocol shows.
LEMMA Stutter ==
  ASSUME \A u, v \in User :
            /\ Wire(u, v)' = Wire(u, v) /\ Opened(u, v)' = Opened(u, v)
            /\ ToldKeys(u, v)' = ToldKeys(u, v)
            /\ PrivateKey(u, v)' = PrivateKey(u, v) /\ PublicKey(u, v)' = PublicKey(u, v)
  PROVE  UNCHANGED Turns!vars
<1>1. told' = told
  BY DEF told
<1>2. heard' = heard
  BY DEF heard
<1>3. wire' = wire
  BY DEF wire
<1>4. opened' = opened
  BY DEF opened
<1>5. used' = used
  BY DEF used
<1>6. QED
  BY <1>1, <1>2, <1>3, <1>4, <1>5 DEF Turns!vars

\* Idle steps are such.
LEMMA IdleStutter == Idle => UNCHANGED Turns!vars
<1> SUFFICES ASSUME Idle  PROVE UNCHANGED Turns!vars
  OBVIOUS
<1>1. \A u, v \in User : Wire(u, v)' = Wire(u, v)
  BY DEF Idle, Wire
<1>2. QED
  BY <1>1, Stutter DEF Idle

\* The tables do not fall back: their keys are no older than before, and none is forgotten.
Growing ==
    \A u, v \in User :
        /\ PrivateKey(u, v).nr <= PrivateKey(u, v)'.nr
        /\ PublicKey(v, u).nr <= PublicKey(v, u)'.nr
        /\ ToldKeys(u, v) \subseteq ToldKeys(u, v)'

----------------------------------------------------------------------------
(* The other steps *)

\* A user begins a message: its key is newer than all others.
LEMMA StepWrite ==
  ASSUME Inv, NEW x \in User, NEW y \in User, WriteMessage(x, y)
  PROVE  /\ \A u, v \in User : PairInv(u, v)'
         /\ UNCHANGED Turns!vars
<1>1. ThreadType /\ ConnType /\ TableType /\ Fit /\ TypeOK
  BY TypeParts DEF Inv
<1>2. UNCHANGED <<messages, missed, outbox, inbox, received>> /\ x # y
  BY DEF WriteMessage, ClientUnchanged
<1>3. made \in Nat /\ made' = made + 1
  BY <1>1, ConversationAssumption DEF WriteMessage, TableType
<1>4. thread[x]["main"] = "idle" /\ thread'[x]["main"] = "typed"
      /\ \A u \in User \ {x} : thread'[u]["main"] = thread[u]["main"]
  BY <1>1, GotoFacts, PointFacts DEF WriteMessage, At, MainBusy
<1> DEFINE k == [by |-> x, for |-> y, nr |-> made']
           m == [to |-> y, lock |-> ExchangedPair(y, x), conversation |-> 0, key |-> k]
<1>5. message' = [message EXCEPT ![x] = m]
  BY DEF WriteMessage
<1>6. k.by = x /\ k.for = y /\ k.nr = made' /\ m.to = y /\ m.key = k
  OBVIOUS
<1> HIDE DEF k, m
<1>7. message'[x] = m /\ message[x] = Nothing /\ \A u \in User \ {x} : message'[u] = message[u]
  BY <1>1, <1>4, <1>5 DEF TableType, Fit, MainBusy
<1>8. m # Nothing
  <2>1. TypeOK'
    BY <1>1, TypeSend
  <2>2. Fit'
    BY <2>1, TypePartsNext
  <2>3. QED
    BY <1>4, <1>7, <2>2 DEF Fit, MainBusy
<1>9. \A u, v \in User :
          /\ ToldKeys(u, v)' = ToldKeys(u, v)
          /\ PrivateKey(u, v)' = PrivateKey(u, v) /\ PublicKey(u, v)' = PublicKey(u, v)
          /\ Sending(u, v)' = Sending(u, v) /\ SendingInOrder(u, v)'
          /\ Coming(u, v)' = Coming(u, v) /\ ComingInOrder(u, v)'
          /\ Opened(v, u)' = Opened(v, u)
  BY <1>2, SameTable, SameOutbox, SameInbox, SameReceived DEF Inv, PairInv, OrderInv
<1>10. \A u, v \in User : Locked(u, v)' = Locked(u, v)
  BY <1>4, <1>7, SameLocked DEF Locked
<1>11. ASSUME NEW u \in User, NEW v \in User, u # x \/ v # y
       PROVE  PairInv(u, v)'
  <2>1. Written(u, v)' = Written(u, v) /\ (Written(u, v)' # {} => Unstored(u)' = Unstored(u))
    <3>1. CASE u # x
      BY <1>4, <1>7, <3>1, SameMessage DEF Unstored
    <3>2. CASE u = x
      BY <1>6, <1>7, <1>11, <3>2 DEF Written
    <3>3. QED
      BY <3>1, <3>2
  <2>2. QED
    BY <1>1, <1>2, <1>3, <1>9, <2>1, PairSame DEF Inv
<1>12. PairInv(x, y)'
  <2>1. Written(x, y) = {} /\ Written(x, y)' = {Content(m)} /\ Content(m).key = k
    BY <1>6, <1>7, <1>8, ContentFacts DEF Written
  <2>2. Unstored(x)'
    BY <1>4 DEF Unstored
  <2>3. Way(x, y)' = Way(x, y) \cup {Content(m)}
    BY <1>9, <2>1 DEF Way
  <2>4. PairInv(x, y)
    BY DEF Inv
  <2>5. /\ \A n \in Way(x, y) : n.key.nr \in Nat
        /\ \A n \in ToldKeys(x, y) : n.nr \in Nat
        /\ PrivateKey(x, y).nr \in Nat /\ PublicKey(y, x).nr \in Nat
        /\ PrivateKey(x, y) \in ToldKeys(x, y)
    BY <1>1, NumberFacts, KeyFacts
  <2>6. /\ \A n \in ToldKeys(x, y) : n.nr <= made
        /\ \A n \in Way(x, y) : n.key.nr <= made
        /\ PublicKey(y, x).nr <= made
    BY <1>3, <2>1, <2>4, <2>5 DEF PairInv, KeyInv, HeardInv, Way
  <2>7. OrderInv(x, y)'
    BY <1>3, <1>6, <1>9, <2>1, <2>4, <2>5, <2>6 DEF PairInv, OrderInv, Before, Way
  <2>8. KeyInv(x, y)'
    BY <1>2, <1>3, <1>6, <1>9, <2>1, <2>2, <2>4, <2>5, <2>6 DEF PairInv, KeyInv
  <2>9. HeardInv(x, y)'
    BY <1>3, <1>6, <1>9, <2>1, <2>3, <2>4, <2>5, <2>6 DEF PairInv, HeardInv
  <2>10. FollowInv(x, y)'
    BY <1>2, <1>9, <2>3, <2>4 DEF PairInv, FollowInv
  <2>11. QED
    BY <2>7, <2>8, <2>9, <2>10 DEF PairInv
<1>13. UNCHANGED Turns!vars
  <2>1. \A u, v \in User : Wire(u, v)' = Wire(u, v)
    BY <1>9, <1>10 DEF Wire
  <2>2. QED
    BY <1>9, <2>1, Stutter
<1>14. QED
  BY <1>11, <1>12, <1>13

\* The message is in the outbox.
LEMMA StepSend ==
  ASSUME Inv, NEW x \in User, SendMessage(x)
  PROVE  /\ \A u, v \in User : PairInv(u, v)'
         /\ UNCHANGED Turns!vars
<1>1. ThreadType /\ ConnType /\ TableType /\ Fit /\ TypeOK
  BY TypeParts DEF Inv
<1>2. UNCHANGED <<messages, made, missed, inbox, received>> /\ made \in Nat
  BY <1>1, ConversationAssumption DEF SendMessage, SendRequest, TableType
<1>3. \A u, v \in User :
          /\ ToldKeys(u, v)' = ToldKeys(u, v)
          /\ PrivateKey(u, v)' = PrivateKey(u, v) /\ PublicKey(u, v)' = PublicKey(u, v)
          /\ Coming(u, v)' = Coming(u, v) /\ ComingInOrder(u, v)'
          /\ Opened(v, u)' = Opened(v, u)
  BY <1>2, SameTable, SameInbox, SameReceived DEF Inv, PairInv, OrderInv
<1> DEFINE p == IF isEncryptionEnabled[x] THEN "awaiting" ELSE "written"
<1>4. thread[x]["main"] = "disabled" /\ Goto(x, "main", p)
  BY DEF SendMessage, SendRequest, At
<1>5. p \in Points \ MainBusy
  BY PointFacts
<1> HIDE DEF p
<1>6. thread'[x]["main"] = p /\ \A u \in User \ {x} : thread'[u]["main"] = thread[u]["main"]
  BY <1>1, <1>4, <1>5, GotoFacts, PointFacts
<1>7. /\ message[x] # Nothing
      /\ message[x].to \in User /\ message[x].key \in Pairs /\ message[x].lock \in Pairs
  BY <1>1, <1>4, BusyFacts DEF Fit, MainBusy
<1>8. message'[x] = Nothing /\ \A u \in User \ {x} : message'[u] = message[u]
  BY <1>1 DEF SendMessage, TableType
<1> DEFINE r == [kind |-> "message", to |-> message[x].to,
                 key |-> message[x].key, lock |-> message[x].lock]
           e == [request |-> r, plain |-> ~isEncryptionEnabled[x]]
<1>9. outbox' = [outbox EXCEPT ![x] = Append(@, e)]
  BY DEF SendMessage, SendRequest
<1>10. r.kind = "message" /\ r.to = message[x].to /\ Content(r) = Content(message[x])
       /\ r.key = message[x].key /\ e.request = r
  BY DEF Content
<1>11. r \in Request
  BY <1>7 DEF Request
<1> HIDE DEF r
<1>12. e \in Sent
  BY <1>1, <1>11 DEF Sent, ConnType
<1> HIDE DEF e
<1>13. outbox'[x] = Append(outbox[x], e) /\ \A u \in User \ {x} : outbox'[u] = outbox[u]
  BY <1>1, <1>9 DEF ConnType
<1>14. ASSUME NEW u \in User, NEW v \in User, u # x
       PROVE  PairInv(u, v)' /\ Wire(u, v)' = Wire(u, v)
  <2>1. /\ Sending(u, v)' = Sending(u, v) /\ SendingInOrder(u, v)'
        /\ Written(u, v)' = Written(u, v) /\ Locked(u, v)' = Locked(u, v)
        /\ Unstored(u)' = Unstored(u)
    BY <1>6, <1>8, <1>13, <1>14, SameOutbox, SameMessage, SameLocked
       DEF Unstored, Inv, PairInv, OrderInv
  <2>2. QED
    BY <1>1, <1>2, <1>3, <2>1, PairSame DEF Inv, Wire
<1>15. ASSUME NEW v \in User
       PROVE  PairInv(x, v)' /\ Wire(x, v)' = Wire(x, v)
  <2>1. PairInv(x, v)
    BY DEF Inv
  <2>2. /\ Written(x, v)' = {} /\ Locked(x, v)' = {}
        /\ Locked(x, v) = Written(x, v)
        /\ Written(x, v) = IF message[x].to = v THEN {Content(message[x])} ELSE {}
    BY <1>4, <1>5, <1>6, <1>7, <1>8 DEF Written, Locked, MainBusy
  <2>3. /\ Sending(x, v)' = Sending(x, v) \cup
                (IF e.request.kind = "message" /\ e.request.to = v
                 THEN {Content(e.request)} ELSE {})
        /\ SendingInOrder(x, v)'
    <3>1. e.request.kind = "message" /\ e.request.to = v =>
              \A m \in Sending(x, v) : m.key.nr < e.request.key.nr
      BY <1>10, <2>1, <2>2, ContentFacts DEF PairInv, OrderInv, Before
    <3>2. SendingInOrder(x, v)
      BY <2>1 DEF PairInv, OrderInv
    <3>3. QED
      BY <1>1, <1>12, <1>13, <3>1, <3>2, SendingAppend
  <2>4. Sending(x, v)' = Sending(x, v) \cup Written(x, v)
    BY <1>10, <2>2, <2>3
  <2>5. Way(x, v)' = Way(x, v)
    BY <1>3, <2>2, <2>4 DEF Way
  <2>6. OrderInv(x, v)'
    BY <1>3, <2>1, <2>2, <2>3, <2>4 DEF PairInv, OrderInv, Before
  <2>7. KeyInv(x, v)'
    BY <1>2, <1>3, <2>1, <2>2, <2>5 DEF PairInv, KeyInv
  <2>8. HeardInv(x, v)'
    <3>1. ~Unstored(x)
      BY <1>4 DEF Unstored
    <3>2. \A m \in Written(x, v) : m.key = PrivateKey(x, v)
      BY <2>1, <3>1 DEF PairInv, KeyInv
    <3>3. PrivateKey(x, v).nr \in Nat
      BY <1>1, NumberFacts
    <3>4. \A m \in Sending(x, v)' : m.key.nr <= PrivateKey(x, v).nr
      BY <2>1, <2>4, <3>2, <3>3 DEF PairInv, HeardInv
    <3>5. QED
      BY <1>3, <2>1, <2>5, <3>4 DEF PairInv, HeardInv
  <2>9. FollowInv(x, v)'
    BY <1>2, <1>3, <2>1, <2>5 DEF PairInv, FollowInv
  <2>10. Wire(x, v)' = Wire(x, v)
    BY <1>3, <2>2, <2>4 DEF Wire
  <2>11. QED
    BY <2>6, <2>7, <2>8, <2>9, <2>10 DEF PairInv
<1>16. QED
  BY <1>3, <1>14, <1>15, Stutter

\* The key of a message goes into the table: it is told.
LEMMA StepStore ==
  ASSUME Inv, NEW x \in User, StoreOwn(x)
  PROVE  /\ \A u, v \in User : PairInv(u, v)'
         /\ Turns!Next
         /\ Growing
<1>1. ThreadType /\ ConnType /\ TableType /\ Fit /\ TypeOK
  BY TypeParts DEF Inv
<1>2. UNCHANGED <<made, missed, outbox, inbox, message, received>> /\ made \in Nat
  BY <1>1, ConversationAssumption DEF StoreOwn, ClientUnchanged, TableType
<1>3. thread[x]["main"] = "selected" /\ thread'[x]["main"] = "stored"
      /\ \A u \in User \ {x} : thread'[u]["main"] = thread[u]["main"]
  BY <1>1, GotoFacts, PointFacts DEF StoreOwn, At, MainBusy
<1>a. message[x] # Nothing /\ message[x].to \in User /\ message[x].key \in Pairs
      /\ message[x].conversation \in Nat
  BY <1>1, <1>3, BusyFacts DEF Fit, MainBusy
<1>4. PICK y \in User, k \in Pairs : message[x].to = y /\ message[x].key = k
  BY <1>a
<1>5. /\ PrivateKey(x, y)' = k
      /\ \A u, v \in User : u # x \/ v # y => PrivateKey(u, v)' = PrivateKey(u, v)
      /\ \A u, v \in User : u # x \/ v # y \/ v # x => PublicKey(u, v)' = PublicKey(u, v)
      /\ \A u, v \in User : ToldKeys(u, v)' = ToldKeys(u, v) \cup
             (IF u = x /\ v = y THEN {k} ELSE {})
  <2>1. Insert(x, y, x, message[x])
    BY <1>4 DEF StoreOwn
  <2>2. /\ LastKey(x, y, x)' = k
        /\ \A a, b, t \in User :
               a # x \/ b # y \/ t # x => LastKey(a, b, t)' = LastKey(a, b, t)
        /\ \A a, b \in User :
               ToldKeys(a, b)' = ToldKeys(a, b) \cup
                   (IF a = x /\ b = y /\ x = x THEN {k} ELSE {})
    BY <1>1, <1>a, <1>4, <2>1, InsertFacts
  <2>3. QED
    BY <1>4, <2>2 DEF PrivateKey, PublicKey
<1>6. \A u, v \in User :
          /\ Sending(u, v)' = Sending(u, v) /\ SendingInOrder(u, v)'
          /\ Coming(u, v)' = Coming(u, v) /\ ComingInOrder(u, v)'
          /\ Opened(v, u)' = Opened(v, u) /\ Written(u, v)' = Written(u, v)
  BY <1>2, SameOutbox, SameInbox, SameReceived, SameMessage DEF Inv, PairInv, OrderInv
<1>7. \A u, v \in User : Locked(u, v)' = Locked(u, v)
  BY <1>2, <1>3, SameLocked
<1>8. Written(x, y) = {Content(message[x])} /\ Content(message[x]).key = k
  BY <1>a, <1>4, ContentFacts DEF Written
<1>9. Unstored(x) /\ ~Unstored(x)' /\ \A u \in User \ {x} : Unstored(u)' = Unstored(u)
  BY <1>3 DEF Unstored
<1>10. /\ x # y /\ k.by = x /\ k.for = y /\ k.nr <= made /\ k.nr \in Nat
       /\ \A n \in ToldKeys(x, y) : n.nr < k.nr
  <2>1. Content(message[x]) \in Way(x, y)
    BY <1>8 DEF Way
  <2>2. QED
    BY <1>1, <1>4, <1>8, <1>9, <2>1, NumberFacts DEF Inv, PairInv, KeyInv
<1>11. \A u, v \in User : PublicKey(u, v)' = PublicKey(u, v)
  BY <1>4, <1>5, <1>10
<1>12. ASSUME NEW u \in User, NEW v \in User, u # x \/ v # y
       PROVE  PairInv(u, v)'
  <2>1. ToldKeys(u, v)' = ToldKeys(u, v) /\ PrivateKey(u, v)' = PrivateKey(u, v)
    <3>1. ToldKeys(u, v)' = ToldKeys(u, v) \cup {}
      BY <1>5, <1>12
    <3>2. QED
      BY <1>5, <1>12, <3>1
  <2>2. Written(u, v)' # {} => Unstored(u)' = Unstored(u)
    <3>1. CASE u # x
      BY <1>9, <3>1
    <3>2. CASE u = x
      BY <1>4, <1>6, <1>12, <3>2 DEF Written
    <3>3. QED
      BY <3>1, <3>2
  <2>3. QED
    BY <1>1, <1>2, <1>6, <1>11, <2>1, <2>2, PairSame DEF Inv
<1>13. PairInv(x, y)'
  <2>1. PairInv(x, y)
    BY <1>4 DEF Inv
  <2>2. Way(x, y)' = Way(x, y) /\ ToldKeys(x, y)' = ToldKeys(x, y) \cup {k}
        /\ PrivateKey(x, y)' = k /\ PublicKey(y, x)' = PublicKey(y, x)
        /\ Content(message[x]) \in Way(x, y)
    BY <1>4, <1>5, <1>6, <1>8, <1>11 DEF Way
  <2>3. /\ \A n \in Way(x, y) : n.key.nr \in Nat
        /\ \A n \in ToldKeys(x, y) : n.nr \in Nat
        /\ PrivateKey(x, y).nr \in Nat /\ PublicKey(y, x).nr \in Nat
        /\ PrivateKey(x, y) \in ToldKeys(x, y)
    BY <1>1, <1>4, NumberFacts, KeyFacts
  <2>4. OrderInv(x, y)'
    BY <1>4, <1>6, <2>1 DEF PairInv, OrderInv, Before
  <2>5. KeyInv(x, y)'
    BY <1>2, <1>4, <1>6, <1>8, <1>9, <1>10, <2>1, <2>2 DEF PairInv, KeyInv
  <2>6. PrivateKey(x, y).nr < k.nr
    BY <1>10, <2>3
  <2>7. HeardInv(x, y)'
    <3>1. \A m \in Way(x, y)' : PublicKey(y, x)'.nr < m.key.nr
      BY <2>1, <2>2 DEF PairInv, HeardInv
    <3>2. \A m \in Opened(y, x) \cup Coming(x, y) \cup Sending(x, y) : m.key.nr <= k.nr
      BY <1>10, <2>1, <2>3, <2>6 DEF PairInv, HeardInv, Way
    <3>3. PublicKey(y, x).nr <= k.nr
      BY <1>10, <2>1, <2>3, <2>6 DEF PairInv, HeardInv
    <3>4. QED
      BY <1>4, <1>6, <2>2, <3>1, <3>2, <3>3 DEF HeardInv
  <2>8. FollowInv(x, y)'
    BY <1>8, <2>2 DEF FollowInv
  <2>9. QED
    BY <2>4, <2>5, <2>7, <2>8 DEF PairInv
<1>14. Turns!Tell(x, y)
  <2>1. told' = [told EXCEPT ![x][y] = k] /\ told'[x][y] = k
    <3>1. told' = [u \in User |-> [v \in User |-> PrivateKey(u, v)']]
      BY DEF told
    <3>2. told' = [u \in User |-> [v \in User |->
                       IF u = x /\ v = y THEN k ELSE PrivateKey(u, v)]]
      BY <1>5, <3>1
    <3>3. QED
      BY <3>2 DEF told
  <2>2. \A u, v \in User : Wire(u, v)' = Wire(u, v)
    BY <1>6, <1>7 DEF Wire
  <2>3. UNCHANGED <<heard, wire, opened>>
    BY <1>6, <1>11, <2>2 DEF heard, wire, opened
  <2>4. used' = used \cup {k}
    BY <1>4, <1>5 DEF used
  <2>5. k \notin used
    <3>1. ASSUME NEW u \in User, NEW v \in User, k \in ToldKeys(u, v)  PROVE FALSE
      <4>1. k.by = u /\ k.for = v
        BY <3>1 DEF Inv, PairInv, KeyInv
      <4>2. k.nr < k.nr
        BY <1>10, <3>1, <4>1
      <4>3. QED
        BY <1>10, <4>2
    <3>2. QED
      BY <3>1 DEF used
  <2>6. QED
    BY <2>1, <2>3, <2>4, <2>5, Zenon DEF Turns!Tell
<1>15. Growing
  <2>1. \A u, v \in User : PrivateKey(u, v).nr \in Nat /\ PublicKey(v, u).nr \in Nat
    BY <1>1, NumberFacts
  <2>2. PrivateKey(x, y).nr < k.nr
    BY <1>1, <1>4, <1>10, KeyFacts
  <2>3. \A u, v \in User : PrivateKey(u, v).nr <= PrivateKey(u, v)'.nr
    BY <1>4, <1>5, <1>10, <2>1, <2>2
  <2>4. QED
    BY <1>5, <1>11, <2>1, <2>3 DEF Growing
<1>16. QED
  BY <1>4, <1>12, <1>13, <1>14, <1>15 DEF Turns!Next

\* The message is locked: it is sent.
LEMMA StepEncrypt ==
  ASSUME Inv, NEW x \in User, EncryptAESKey(x)
  PROVE  /\ \A u, v \in User : PairInv(u, v)'
         /\ Turns!Next
<1>1. ThreadType /\ ConnType /\ TableType /\ Fit /\ TypeOK
  BY TypeParts DEF Inv
<1>2. UNCHANGED <<messages, made, missed, outbox, inbox, received>> /\ made \in Nat
  BY <1>1, ConversationAssumption DEF EncryptAESKey, ClientUnchanged, TableType
<1>3. thread[x]["main"] = "stored" /\ thread'[x]["main"] = "ready"
      /\ \A u \in User \ {x} : thread'[u]["main"] = thread[u]["main"]
  BY <1>1, GotoFacts, PointFacts DEF EncryptAESKey, At, MainBusy
<1>a. message[x] # Nothing /\ message[x].to \in User /\ message[x] \in Message
  BY <1>1, <1>3, BusyFacts DEF Fit, MainBusy
<1>b. PICK y \in User : y = message[x].to
  BY <1>a
<1>c. PICK m : m = [message[x] EXCEPT !.lock = PublicKey(x, y)]
  OBVIOUS
<1>d. PICK c : c = [key |-> PrivateKey(x, y), lock |-> PublicKey(x, y)]
  OBVIOUS
<1>4. /\ y = message[x].to
      /\ m = [message[x] EXCEPT !.lock = PublicKey(x, message[x].to)]
      /\ c = [key |-> PrivateKey(x, y), lock |-> PublicKey(x, y)]
  BY <1>b, <1>c, <1>d
<1>5. message' = [message EXCEPT ![x] = m]
  BY <1>4 DEF EncryptAESKey
<1>6. m.to = y /\ m.key = message[x].key /\ m.lock = PublicKey(x, y)
  BY <1>a, <1>4 DEF Message
<1>7. message'[x] = m /\ \A u \in User \ {x} : message'[u] = message[u]
  BY <1>1, <1>5 DEF TableType
<1>8. m # Nothing
  <2>1. TypeOK'
    BY <1>1, TypeSend
  <2>2. Fit'
    BY <2>1, TypePartsNext
  <2>3. QED
    BY <1>3, <1>7, <2>2 DEF Fit, MainBusy
<1>9. \A u, v \in User :
          /\ ToldKeys(u, v)' = ToldKeys(u, v)
          /\ PrivateKey(u, v)' = PrivateKey(u, v) /\ PublicKey(u, v)' = PublicKey(u, v)
          /\ Sending(u, v)' = Sending(u, v) /\ SendingInOrder(u, v)'
          /\ Coming(u, v)' = Coming(u, v) /\ ComingInOrder(u, v)'
          /\ Opened(v, u)' = Opened(v, u)
  BY <1>2, SameTable, SameOutbox, SameInbox, SameReceived DEF Inv, PairInv, OrderInv
<1>10. \A u \in User : Unstored(u)' = Unstored(u)
  BY <1>3 DEF Unstored
<1>11. ASSUME NEW u \in User, NEW v \in User, u # x \/ v # y
       PROVE  Written(u, v)' = Written(u, v) /\ Locked(u, v)' = Locked(u, v)
  <2>1. CASE u # x
    BY <1>3, <1>7, <2>1, SameMessage, SameLocked
  <2>2. CASE u = x
    BY <1>4, <1>6, <1>7, <1>11, <2>2 DEF Written, Locked
  <2>3. QED
    BY <2>1, <2>2
<1>12. /\ Written(x, y) = {Content(message[x])} /\ Written(x, y)' = {Content(m)}
       /\ Content(m).key = Content(message[x]).key
       /\ Locked(x, y) = {} /\ Locked(x, y)' = {Content(m)}
  BY <1>3, <1>a, <1>4, <1>6, <1>7, <1>8, ContentFacts DEF Written, Locked
<1>13. Content(m) = c
  <2>1. ~Unstored(x)
    BY <1>3 DEF Unstored
  <2>2. message[x].key = PrivateKey(x, y)
    BY <1>4, <1>12, <2>1, ContentFacts DEF Inv, PairInv, KeyInv
  <2>3. QED
    BY <1>4, <1>6, <2>2 DEF Content
<1>14. ASSUME NEW u \in User, NEW v \in User, u # x \/ v # y
       PROVE  PairInv(u, v)'
  BY <1>1, <1>2, <1>9, <1>10, <1>11, <1>14, PairSame DEF Inv
<1>15. PairInv(x, y)'
  <2>1. PairInv(x, y)
    BY <1>4 DEF Inv
  <2>2. /\ \A n \in Way(x, y)' : \E o \in Way(x, y) : n.key = o.key
        /\ \A o \in Way(x, y) : \E n \in Way(x, y)' : n.key = o.key
    BY <1>4, <1>9, <1>12 DEF Way
  <2>3. OrderInv(x, y)'
    BY <1>4, <1>9, <1>12, <2>1 DEF PairInv, OrderInv, Before
  <2>4. KeyInv(x, y)'
    BY <1>2, <1>4, <1>9, <1>10, <1>12, <2>1, <2>2 DEF PairInv, KeyInv
  <2>5. HeardInv(x, y)'
    BY <1>4, <1>9, <2>1, <2>2 DEF PairInv, HeardInv
  <2>6. FollowInv(x, y)'
    BY <1>2, <1>4, <1>9, <2>1, <2>2 DEF PairInv, FollowInv
  <2>7. QED
    BY <2>3, <2>4, <2>5, <2>6 DEF PairInv
<1>16. Turns!Send(x, y)
  <2>1. /\ Wire(x, y)' = Wire(x, y) \cup {c}
        /\ \A u, v \in User : u # x \/ v # y => Wire(u, v)' = Wire(u, v)
    BY <1>4, <1>9, <1>11, <1>12, <1>13 DEF Wire
  <2>2. wire' = [wire EXCEPT ![x][y] = @ \cup {c}]
    BY <1>4, <2>1 DEF wire
  <2>3. c = [key |-> told[x][y], lock |-> heard[x][y]]
    BY <1>4 DEF told, heard
  <2>4. UNCHANGED <<told, heard, opened, used>>
    BY <1>9 DEF told, heard, opened, used
  <2>5. QED
    BY <2>2, <2>3, <2>4, Zenon DEF Turns!Send
<1>17. QED
  BY <1>4, <1>14, <1>15, <1>16 DEF Turns!Next

\* Messages that disappear are lost.
LEMMA LoseFacts ==
  ASSUME TypeOK,
         \A u, v \in User :
            /\ Wire(u, v)' \subseteq Wire(u, v) /\ Opened(u, v)' \subseteq Opened(u, v)
            /\ ToldKeys(u, v)' = ToldKeys(u, v)
            /\ PrivateKey(u, v)' = PrivateKey(u, v) /\ PublicKey(u, v)' = PublicKey(u, v)
  PROVE  Turns!Next
<1>1. UNCHANGED <<told, heard, used>>
  BY DEF told, heard, used
<1>2. \A u, v \in User : Wire(u, v) \subseteq Turns!Message /\ Opened(u, v) \subseteq Turns!Message
  BY WayType DEF Wire, Way
<1>3. /\ wire' \in [User -> [User -> SUBSET Turns!Message]]
      /\ opened' \in [User -> [User -> SUBSET Turns!Message]]
  BY <1>2 DEF wire, opened
<1>4. \A u, v \in User : wire'[u][v] \subseteq wire[u][v] /\ opened'[u][v] \subseteq opened[u][v]
  BY DEF wire, opened
<1>5. Turns!Lose
  BY <1>1, <1>3, <1>4 DEF Turns!Lose
<1>6. QED
  BY <1>5 DEF Turns!Next

\* The process ends: what it was sending or about to read is lost.
LEMMA StepEnd ==
  ASSUME Inv, NEW x \in User, StopClient(x) \/ DecryptionDies(x)
  PROVE  /\ \A u, v \in User : PairInv(u, v)'
         /\ Turns!Next
<1>1. ThreadType /\ ConnType /\ TableType /\ Fit /\ TypeOK
  BY TypeParts DEF Inv
<1>2. End(x)
  BY DEF StopClient, DecryptionDies
<1>3. UNCHANGED <<messages, made>> /\ made \in Nat
      /\ missed' = missed \cup {<<x, v>> : v \in Unsent(x)} \cup {<<v, x>> : v \in Unread(x)}
  BY <1>1, <1>2, ConversationAssumption DEF End, TableType
<1>4. /\ message'[x] = Nothing /\ received'[x] = Nothing
      /\ outbox'[x] = << >> /\ inbox'[x] = << >>
      /\ thread'[x]["main"] = "idle"
      /\ \A u \in User \ {x} :
            /\ message'[u] = message[u] /\ received'[u] = received[u]
            /\ outbox'[u] = outbox[u] /\ inbox'[u] = inbox[u] /\ thread'[u] = thread[u]
  BY <1>1, <1>2, PointFacts DEF End, Stop, ThreadType, ConnType, TableType
<1>5. \A u, v \in User :
          /\ ToldKeys(u, v)' = ToldKeys(u, v)
          /\ PrivateKey(u, v)' = PrivateKey(u, v) /\ PublicKey(u, v)' = PublicKey(u, v)
  BY <1>3, SameTable
<1>6. ASSUME NEW u \in User, NEW v \in User
      PROVE  /\ SendingInOrder(u, v)'
             /\ Sending(u, v)' = IF u = x THEN {} ELSE Sending(u, v)
             /\ Written(u, v)' = IF u = x THEN {} ELSE Written(u, v)
             /\ Locked(u, v)' = IF u = x THEN {} ELSE Locked(u, v)
             /\ u # x => Unstored(u)' = Unstored(u)
  <2>1. CASE u # x
    BY <1>4, <2>1, SameOutbox, SameMessage, SameLocked DEF Unstored, Inv, PairInv, OrderInv
  <2>2. CASE u = x
    <3>1. Posted(x, v)' = {}
      BY <1>4 DEF Posted
    <3>2. QED
      BY <1>4, <2>2, <3>1 DEF Sending, SendingInOrder, Written, Locked
  <2>3. QED
    BY <2>1, <2>2
<1>7. ASSUME NEW u \in User, NEW v \in User
      PROVE  /\ ComingInOrder(u, v)'
             /\ Coming(u, v)' = IF v = x THEN {} ELSE Coming(u, v)
             /\ Opened(v, u)' = IF v = x THEN {} ELSE Opened(v, u)
  <2>1. CASE v # x
    BY <1>4, <2>1, SameInbox, SameReceived DEF Inv, PairInv, OrderInv
  <2>2. CASE v = x
    <3>1. Arrived(u, x)' = {}
      BY <1>4 DEF Arrived
    <3>2. QED
      BY <1>4, <2>2, <3>1 DEF Coming, ComingInOrder, Opened
  <2>3. QED
    BY <2>1, <2>2
<1>8. ASSUME NEW u \in User, NEW v \in User
      PROVE  Way(u, v)' = Way(u, v) \/ <<u, v>> \in missed'
  <2>1. CASE u = x /\ Sending(u, v) \cup Written(u, v) # {}
    <3>1. v \in Unsent(x)
      BY <2>1 DEF Unsent, Sending, Written
    <3>2. QED
      BY <1>3, <2>1, <3>1
  <2>2. CASE v = x /\ Coming(u, v) \cup Opened(v, u) # {}
    <3>1. u \in Unread(x)
      BY <2>2 DEF Unread, Coming, Opened
    <3>2. QED
      BY <1>3, <2>2, <3>1
  <2>3. CASE /\ u # x \/ Sending(u, v) \cup Written(u, v) = {}
             /\ v # x \/ Coming(u, v) \cup Opened(v, u) = {}
    BY <1>6, <1>7, <2>3 DEF Way
  <2>4. QED
    BY <2>1, <2>2, <2>3
<1>9. ASSUME NEW u \in User, NEW v \in User  PROVE PairInv(u, v)'
  <2>1. /\ Opened(v, u)' \subseteq Opened(v, u) /\ Coming(u, v)' \subseteq Coming(u, v)
        /\ Sending(u, v)' \subseteq Sending(u, v) /\ Written(u, v)' \subseteq Written(u, v)
        /\ Written(u, v)' # {} => Unstored(u)' = Unstored(u)
    BY <1>6, <1>7
  <2>2. PairInv(u, v) /\ missed \subseteq missed' /\ made' \in Nat /\ made <= made'
    BY <1>3 DEF Inv
  <2>3. SendingInOrder(u, v)' /\ ComingInOrder(u, v)'
    BY <1>6, <1>7
  <2>4. QED
    BY <1>1, <1>5, <1>8, <2>1, <2>2, <2>3, PairFewer
<1>10. \A u, v \in User : Wire(u, v)' \subseteq Wire(u, v) /\ Opened(u, v)' \subseteq Opened(u, v)
  BY <1>6, <1>7 DEF Wire
<1>11. QED
  BY <1>1, <1>5, <1>9, <1>10, LoseFacts

\* The reader decrypts a message: it is opened.
LEMMA StepDecrypt ==
  ASSUME Inv, NEW x \in User, DecryptMessage(x)
  PROVE  /\ \A u, v \in User : PairInv(u, v)'
         /\ Turns!Next
<1>1. ThreadType /\ ConnType /\ TableType /\ Fit /\ TypeOK
  BY TypeParts DEF Inv
<1>2. UNCHANGED <<messages, made, missed, outbox, message>> /\ made \in Nat
  BY <1>1, ConversationAssumption DEF DecryptMessage, TableType
<1>3. HasFrame(x, "message") /\ thread[x]["reader"] = "idle"
      /\ \A u \in User : thread'[u]["main"] = thread[u]["main"]
  BY <1>1, GotoFacts, PointFacts DEF DecryptMessage, HasFrame, At, ReaderBusy, Threads
<1>4. PICK f : f = Head(inbox[x])
  OBVIOUS
<1>a. PICK w \in User : w = f.from
  BY <1>1, <1>3, <1>4, FrameFacts
<1>b. PICK c : c = Content(f)
  OBVIOUS
<1>5. w = f.from /\ c = Content(f) /\ f.kind = "message"
  BY <1>1, <1>3, <1>4, <1>a, <1>b, FrameFacts
<1>6. c.lock = PrivateKey(x, w) /\ c.key = f.key
  BY <1>4, <1>5, ContentFacts DEF DecryptMessage
<1>7. /\ inbox[x] # << >> /\ inbox'[x] = Tail(inbox[x])
      /\ \A v \in User \ {x} : inbox'[v] = inbox[v]
  BY <1>1, <1>3, FrameFacts DEF DecryptMessage, ConnType
<1>8. /\ received[x] = Nothing
      /\ \A v \in User \ {x} : received'[v] = received[v]
      /\ received'[x] = [from |-> f.from, key |-> f.key, lock |-> f.lock, conversation |-> 0]
  BY <1>1, <1>3, <1>4, PointFacts DEF DecryptMessage, TableType, Fit, ReaderBusy
<1>9. received'[x] # Nothing
  <2>1. TypeOK'
    BY <1>1, TypeRead
  <2>2. Fit' /\ thread'[x]["reader"] = "opened"
    BY <1>1, <2>1, TypePartsNext, GotoFacts, PointFacts DEF DecryptMessage, ReaderBusy
  <2>3. QED
    BY <2>2 DEF Fit, ReaderBusy
<1>10. /\ \A u \in User : Opened(x, u) = {}
       /\ \A u \in User : Opened(x, u)' = IF u = w THEN {c} ELSE {}
       /\ \A u, v \in User : v # x => Opened(v, u)' = Opened(v, u)
  BY <1>5, <1>8, <1>9, SameReceived DEF Opened, Content
<1>11. \A u, v \in User :
          /\ ToldKeys(u, v)' = ToldKeys(u, v)
          /\ PrivateKey(u, v)' = PrivateKey(u, v) /\ PublicKey(u, v)' = PublicKey(u, v)
          /\ Sending(u, v)' = Sending(u, v) /\ SendingInOrder(u, v)'
          /\ Written(u, v)' = Written(u, v) /\ Locked(u, v)' = Locked(u, v)
          /\ Unstored(u)' = Unstored(u)
  BY <1>2, <1>3, SameTable, SameOutbox, SameMessage, SameLocked
     DEF Inv, PairInv, OrderInv, Unstored
<1>12. ASSUME NEW u \in User
       PROVE  /\ Coming(u, x) = (IF u = w THEN {c} ELSE {}) \cup Coming(u, x)'
              /\ u = w => Before({c}, Coming(u, x)')
              /\ ComingInOrder(u, x)'
  <2>1. ComingInOrder(u, x)
    BY DEF Inv, PairInv, OrderInv
  <2>2. LET first == IF f.kind = "message" /\ f.from = u THEN {Content(f)} ELSE {}
        IN  /\ Coming(u, x) = first \cup Coming(u, x)'
            /\ Before(first, Coming(u, x)')
            /\ ComingInOrder(u, x)'
    BY <1>1, <1>4, <1>7, <2>1, ComingTail, Zenon
  <2>3. QED
    BY <1>5, <2>2
<1>13. \A u, v \in User : v # x => Coming(u, v)' = Coming(u, v) /\ ComingInOrder(u, v)'
  BY <1>7, SameInbox DEF Inv, PairInv, OrderInv
<1>14. ASSUME NEW u \in User, NEW v \in User, u # w \/ v # x
       PROVE  PairInv(u, v)'
  <2>1. /\ Opened(v, u)' = Opened(v, u)
        /\ Coming(u, v)' = Coming(u, v) /\ ComingInOrder(u, v)'
    <3>1. CASE v # x
      BY <1>10, <1>13, <3>1
    <3>2. CASE v = x
      BY <1>10, <1>12, <1>14, <3>2
    <3>3. QED
      BY <3>1, <3>2
  <2>2. QED
    BY <1>1, <1>2, <1>11, <2>1, PairSame DEF Inv
<1>15. /\ Coming(w, x) = {c} \cup Coming(w, x)' /\ Before({c}, Coming(w, x)')
       /\ ComingInOrder(w, x)'
  BY <1>12
<1>16. PairInv(w, x)'
  <2>1. PairInv(w, x)
    BY DEF Inv
  <2>2. Opened(x, w)' = {c} /\ Opened(x, w) = {}
    BY <1>10
  <2>3. Way(w, x)' = Way(w, x)
    BY <1>11, <1>15, <2>2 DEF Way
  <2>4. OrderInv(w, x)'
    BY <1>11, <1>15, <2>1, <2>2 DEF PairInv, OrderInv, Before
  <2>5. KeyInv(w, x)'
    BY <1>2, <1>11, <2>1, <2>3 DEF PairInv, KeyInv
  <2>6. HeardInv(w, x)'
    BY <1>11, <1>15, <2>1, <2>2, <2>3 DEF PairInv, HeardInv
  <2>7. FollowInv(w, x)'
    BY <1>2, <1>11, <2>1, <2>3 DEF PairInv, FollowInv
  <2>8. QED
    BY <2>4, <2>5, <2>6, <2>7 DEF PairInv
<1>17. Turns!Open(x, w)
  <2>1. c \notin Coming(w, x)' \cup Sending(w, x) \cup Locked(w, x)
    <3>1. Locked(w, x) \subseteq Written(w, x) /\ c.key.nr \in Nat
      BY <1>1, <1>15, WayType, NumberFacts DEF Way
    <3>2. \A m \in Coming(w, x)' \cup Sending(w, x) \cup Written(w, x) : c.key.nr < m.key.nr
      BY <1>15 DEF Inv, PairInv, OrderInv, Before
    <3>3. QED
      BY <3>1, <3>2
  <2>2. /\ Wire(w, x)' = Wire(w, x) \ {c} /\ c \in Wire(w, x)
        /\ \A u, v \in User : u # w \/ v # x => Wire(u, v)' = Wire(u, v)
    <3>1. Wire(w, x)' = Wire(w, x) \ {c} /\ c \in Wire(w, x)
      BY <1>11, <1>15, <2>1 DEF Wire
    <3>2. ASSUME NEW u \in User, NEW v \in User, u # w \/ v # x
          PROVE  Wire(u, v)' = Wire(u, v)
      <4>1. Coming(u, v)' = Coming(u, v)
        <5>1. CASE v # x
          BY <1>13, <5>1
        <5>2. CASE v = x
          BY <1>12, <3>2, <5>2
        <5>3. QED
          BY <5>1, <5>2
      <4>2. QED
        BY <1>11, <4>1 DEF Wire
    <3>3. QED
      BY <3>1, <3>2
  <2>3. wire' = [wire EXCEPT ![w][x] = @ \ {c}] /\ c \in wire[w][x]
    <3>1. wire' = [u \in User |-> [v \in User |-> Wire(u, v)']]
      BY DEF wire
    <3>2. wire' = [u \in User |-> [v \in User |->
                      IF u = w /\ v = x THEN Wire(w, x) \ {c} ELSE Wire(u, v)]]
      BY <2>2, <3>1
    <3>3. wire' = [wire EXCEPT ![w][x] = Wire(w, x) \ {c}] /\ wire[w][x] = Wire(w, x)
      BY <3>2 DEF wire
    <3>4. QED
      BY <2>2, <3>3
  <2>4. opened' = [opened EXCEPT ![x][w] = @ \cup {c}]
    <3>1. opened' = [u \in User |-> [v \in User |-> Opened(u, v)']]
      BY DEF opened
    <3>a. \A u, v \in User : Opened(u, v)' = IF u = x /\ v = w THEN {c} ELSE Opened(u, v)
      BY <1>10
    <3>2. opened' = [u \in User |-> [v \in User |->
                        IF u = x /\ v = w THEN {c} ELSE Opened(u, v)]]
      BY <3>1, <3>a
    <3>3. Opened(x, w) \cup {c} = {c}
      BY <1>10
    <3>4. QED
      BY <3>2, <3>3 DEF opened
  <2>5. c.lock = told[x][w]
    BY <1>6 DEF told
  <2>6. UNCHANGED <<told, heard, used>>
    BY <1>11 DEF told, heard, used
  <2>7. QED
    BY <2>3, <2>4, <2>5, <2>6, Zenon DEF Turns!Open
<1>18. QED
  BY <1>14, <1>16, <1>17 DEF Turns!Next

\* The reader stores the key of a message: it is heard.
LEMMA StepHear ==
  ASSUME Inv, NEW x \in User, StoreReceived(x)
  PROVE  /\ \A u, v \in User : PairInv(u, v)'
         /\ Turns!Next
         /\ Growing
<1>1. ThreadType /\ ConnType /\ TableType /\ Fit /\ TypeOK
  BY TypeParts DEF Inv
<1>2. UNCHANGED <<made, missed, outbox, inbox, message>> /\ made \in Nat
  BY <1>1, ConversationAssumption DEF StoreReceived, TableType
<1>3. thread[x]["reader"] = "filed" /\ \A u \in User : thread'[u]["main"] = thread[u]["main"]
  BY <1>1, GotoFacts, PointFacts DEF StoreReceived, Lower, At, ReaderBusy, Threads
<1>4. /\ received[x] # Nothing
      /\ received[x].from \in User /\ received[x].key \in Pairs /\ received[x].conversation \in Nat
  BY <1>1, <1>3, BusyFacts DEF Fit, ReaderBusy
<1>a. PICK w \in User, k \in Pairs : received[x].from = w /\ received[x].key = k
  BY <1>4
<1>b. PICK c : c = Content(received[x])
  OBVIOUS
<1>5. received[x].from = w /\ received[x].key = k /\ c = Content(received[x]) /\ c.key = k
  BY <1>4, <1>a, <1>b, ContentFacts
<1>6. received'[x] = Nothing /\ \A v \in User \ {x} : received'[v] = received[v]
  BY <1>1 DEF StoreReceived, TableType
<1>7. /\ Opened(x, w) = {c}
      /\ \A u \in User \ {w} : Opened(x, u) = {}
      /\ \A u \in User : Opened(x, u)' = {}
      /\ \A u, v \in User : v # x => Opened(v, u)' = Opened(v, u)
  BY <1>4, <1>5, <1>6, SameReceived DEF Opened
<1>8. w # x
  <2>1. c \in Way(w, x)
    BY <1>7 DEF Way
  <2>2. QED
    BY <2>1 DEF Inv, PairInv, KeyInv
<1>9. /\ PublicKey(x, w)' = k
      /\ \A u, v \in User : u # x \/ v # w => PublicKey(u, v)' = PublicKey(u, v)
      /\ \A u, v \in User : PrivateKey(u, v)' = PrivateKey(u, v)
      /\ \A u, v \in User : ToldKeys(u, v)' = ToldKeys(u, v)
  <2>1. Insert(x, w, w, received[x])
    BY <1>5 DEF StoreReceived
  <2>2. /\ LastKey(x, w, w)' = k
        /\ \A a, b, t \in User :
               a # x \/ b # w \/ t # w => LastKey(a, b, t)' = LastKey(a, b, t)
        /\ \A a, b \in User :
               ToldKeys(a, b)' = ToldKeys(a, b) \cup
                   (IF a = x /\ b = w /\ w = x THEN {k} ELSE {})
    BY <1>1, <1>4, <1>5, <2>1, InsertFacts
  <2>3. \A a, b \in User : ToldKeys(a, b)' = ToldKeys(a, b) \cup {}
    BY <1>8, <2>2
  <2>4. QED
    BY <1>8, <2>2, <2>3 DEF PrivateKey, PublicKey
<1>10. \A u, v \in User :
          /\ Sending(u, v)' = Sending(u, v) /\ SendingInOrder(u, v)'
          /\ Coming(u, v)' = Coming(u, v) /\ ComingInOrder(u, v)'
          /\ Written(u, v)' = Written(u, v) /\ Locked(u, v)' = Locked(u, v)
          /\ Unstored(u)' = Unstored(u)
  BY <1>2, <1>3, SameOutbox, SameInbox, SameMessage, SameLocked
     DEF Inv, PairInv, OrderInv, Unstored
<1>11. ASSUME NEW u \in User, NEW v \in User, u # w \/ v # x
       PROVE  PairInv(u, v)'
  <2>1. Opened(v, u)' = Opened(v, u) /\ PublicKey(v, u)' = PublicKey(v, u)
    BY <1>7, <1>9, <1>11
  <2>2. PairInv(u, v) /\ missed \subseteq missed' /\ made' \in Nat /\ made <= made'
    BY <1>2 DEF Inv
  <2>3. QED
    BY <1>1, <1>9, <1>10, <2>1, <2>2, PairSame
<1>12. PairInv(w, x)'
  <2>1. PairInv(w, x)
    BY DEF Inv
  <2>2. Opened(x, w)' = {} /\ Opened(x, w) = {c}
    BY <1>7
  <2>3. Way(w, x) = Way(w, x)' \cup {c}
    BY <1>10, <2>2 DEF Way
  <2>4. OrderInv(w, x)'
    BY <1>10, <2>1, <2>2 DEF PairInv, OrderInv, Before
  <2>5. KeyInv(w, x)'
    BY <1>2, <1>9, <1>10, <2>1, <2>3 DEF PairInv, KeyInv
  <2>6. \A m \in Way(w, x)' : k.nr < m.key.nr
    BY <1>5, <1>10, <2>1, <2>2 DEF PairInv, OrderInv, Before, Way
  <2>7. k.nr <= PrivateKey(w, x).nr /\ PublicKey(x, w).nr < k.nr
    BY <1>5, <2>1, <2>2, <2>3 DEF PairInv, HeardInv
  <2>8. HeardInv(w, x)'
    BY <1>9, <1>10, <2>1, <2>2, <2>6, <2>7 DEF PairInv, HeardInv
  <2>9. FollowInv(w, x)'
    <3>1. PublicKey(x, w) # PrivateKey(w, x)
      <4>1. k.nr \in Nat /\ PublicKey(x, w).nr \in Nat /\ PrivateKey(w, x).nr \in Nat
        BY <1>1, <1>5, <2>3, NumberFacts
      <4>2. QED
        BY <2>7, <4>1
    <3>2. ASSUME NEW m \in Way(w, x), m.key = PrivateKey(w, x)
          PROVE  PublicKey(x, w)' = PrivateKey(w, x) \/ m \in Way(w, x)'
      BY <1>5, <1>9, <2>3, <3>2
    <3>3. QED
      BY <1>2, <1>9, <2>1, <3>1, <3>2 DEF PairInv, FollowInv
  <2>10. QED
    BY <2>4, <2>5, <2>8, <2>9 DEF PairInv
<1>13. Turns!Hear(x, w)
  <2>1. heard' = [heard EXCEPT ![x][w] = c.key]
    <3>1. heard' = [u \in User |-> [v \in User |-> PublicKey(u, v)']]
      BY DEF heard
    <3>2. heard' = [u \in User |-> [v \in User |-> IF u = x /\ v = w THEN k ELSE PublicKey(u, v)]]
      BY <1>9, <3>1
    <3>3. QED
      BY <1>5, <3>2 DEF heard
  <2>2. opened' = [opened EXCEPT ![x][w] = @ \ {c}] /\ c \in opened[x][w]
    <3>1. opened' = [u \in User |-> [v \in User |-> Opened(u, v)']]
      BY DEF opened
    <3>2. opened' = [u \in User |-> [v \in User |->
                        IF u = x /\ v = w THEN {} ELSE Opened(u, v)]]
      BY <1>7, <3>1
    <3>3. Opened(x, w) \ {c} = {}
      BY <1>7
    <3>4. /\ opened[x][w] = {c}
          /\ \A u, v \in User : opened[u][v] = Opened(u, v)
      BY <1>7 DEF opened
    <3>5. [opened EXCEPT ![x][w] = @ \ {c}] =
          [u \in User |-> [v \in User |-> IF u = x /\ v = w THEN {} ELSE Opened(u, v)]]
      BY <3>3, <3>4 DEF opened
    <3>6. QED
      BY <3>2, <3>4, <3>5
  <2>3. \A u, v \in User : Wire(u, v)' = Wire(u, v)
    BY <1>10 DEF Wire
  <2>4. UNCHANGED <<told, wire, used>>
    BY <1>9, <2>3 DEF told, wire, used
  <2>5. QED
    BY <2>1, <2>2, <2>4, Zenon DEF Turns!Hear
<1>14. Growing
  <2>1. \A u, v \in User : PrivateKey(u, v).nr \in Nat /\ PublicKey(v, u).nr \in Nat
    BY <1>1, NumberFacts
  <2>2. PublicKey(x, w).nr < k.nr /\ c.key.nr \in Nat
    <3>1. c \in Way(w, x)
      BY <1>7 DEF Way
    <3>2. QED
      BY <1>1, <1>5, <3>1, NumberFacts DEF Inv, PairInv, HeardInv
  <2>3. \A u, v \in User : PublicKey(v, u).nr <= PublicKey(v, u)'.nr
    BY <1>5, <1>9, <2>1, <2>2
  <2>4. QED
    BY <1>9, <2>1, <2>3 DEF Growing
<1>15. QED
  BY <1>11, <1>12, <1>13, <1>14 DEF Turns!Next

\* The server passes a message on, or it is lost.
LEMMA StepRelay ==
  ASSUME Inv, NEW x \in User, RelayMessage(x)
  PROVE  /\ \A u, v \in User : PairInv(u, v)'
         /\ Turns!Next \/ UNCHANGED Turns!vars
<1>1. ThreadType /\ ConnType /\ TableType /\ Fit /\ TypeOK
  BY TypeParts DEF Inv
<1>a. PICK e : e = Head(outbox[x])
  OBVIOUS
<1>b. PICK y \in User : y = e.request.to
  BY <1>1, <1>a, RelayFacts
<1>c. PICK f : f = [kind |-> "message", from |-> x, key |-> e.request.key, lock |-> e.request.lock]
  OBVIOUS
<1>d. PICK c : c = Content(e.request)
  OBVIOUS
<1>2. /\ e = Head(outbox[x]) /\ y = e.request.to /\ e.request.kind = "message"
      /\ f = [kind |-> "message", from |-> x, key |-> e.request.key, lock |-> e.request.lock]
      /\ c = Content(e.request)
  BY <1>1, <1>a, <1>b, <1>c, <1>d, RelayFacts
<1>3. /\ f \in Frame /\ Answer("other") \in Frame
      /\ outbox[x] # << >> /\ outbox' = [outbox EXCEPT ![x] = Tail(@)]
  BY <1>1, <1>2, RelayFacts
<1>4. \/ /\ inbox' = [inbox EXCEPT ![y] = Append(@, f), ![x] = Append(@, Answer("other"))]
         /\ missed' = missed
      \/ /\ inbox' = [inbox EXCEPT ![x] = Append(@, Answer("other"))]
         /\ missed' = missed \cup {<<x, y>>}
  BY <1>1, <1>2, RelayFacts
<1>5. UNCHANGED <<thread, messages, made, message, received>> /\ made \in Nat
  <2>1. UNCHANGED <<thread, messages, made, message, received>>
    BY <1>1, RelayFacts
  <2>2. QED
    BY <1>1, <2>1, ConversationAssumption DEF TableType
<1>6. Content(f) = c /\ f.kind = "message" /\ f.from = x /\ c.key = f.key /\ c.key = e.request.key
  BY <1>2, ContentFacts DEF Content
<1>7. Answer("other").kind = "response"
  BY DEF Answer
<1>8. \A u, v \in User :
          /\ ToldKeys(u, v)' = ToldKeys(u, v)
          /\ PrivateKey(u, v)' = PrivateKey(u, v) /\ PublicKey(u, v)' = PublicKey(u, v)
          /\ Opened(v, u)' = Opened(v, u)
          /\ Written(u, v)' = Written(u, v) /\ Locked(u, v)' = Locked(u, v)
          /\ Unstored(u)' = Unstored(u)
  BY <1>5, SameTable, SameReceived, SameMessage, SameLocked DEF Unstored
<1>9. ASSUME NEW v \in User
      PROVE  /\ Sending(x, v) = (IF v = y THEN {c} ELSE {}) \cup Sending(x, v)'
             /\ v = y => Before({c}, Sending(x, v)')
             /\ SendingInOrder(x, v)'
  <2>1. SendingInOrder(x, v) /\ outbox'[x] = Tail(outbox[x])
    BY <1>1, <1>3 DEF Inv, PairInv, OrderInv, ConnType
  <2>2. LET first == IF e.request.kind = "message" /\ e.request.to = v
                     THEN {Content(e.request)} ELSE {}
        IN  /\ Sending(x, v) = first \cup Sending(x, v)'
            /\ Before(first, Sending(x, v)')
            /\ SendingInOrder(x, v)'
    BY <1>1, <1>2, <1>3, <2>1, SendingTail, Zenon
  <2>3. QED
    BY <1>2, <2>2
<1>10. ASSUME NEW u \in User, NEW v \in User, u # x
       PROVE  Sending(u, v)' = Sending(u, v) /\ SendingInOrder(u, v)'
  <2>1. outbox'[u] = outbox[u]
    BY <1>1, <1>3, <1>10 DEF ConnType
  <2>2. QED
    BY <2>1, SameOutbox DEF Inv, PairInv, OrderInv
<1>11. PairInv(x, y) /\ c \in Sending(x, y) /\ c \in Way(x, y)
  BY <1>9 DEF Inv, Way
<1>12. x # y
  BY <1>11 DEF PairInv, KeyInv
<1>13. ASSUME NEW u \in User, NEW v \in User, NEW a \in Frame,
              inbox'[v] = Append(inbox[v], a), a.kind # "message" \/ a.from # u
       PROVE  Coming(u, v)' = Coming(u, v) /\ ComingInOrder(u, v)'
  <2>1. ComingInOrder(u, v)
    BY DEF Inv, PairInv, OrderInv
  <2>2. /\ Coming(u, v)' = Coming(u, v) \cup
              (IF a.kind = "message" /\ a.from = u THEN {Content(a)} ELSE {})
        /\ ComingInOrder(u, v)'
    BY <1>1, <1>13, <2>1, ComingAppend
  <2>3. QED
    BY <1>13, <2>2
<1>14. ASSUME NEW u \in User, NEW v \in User, inbox'[v] = inbox[v]
       PROVE  Coming(u, v)' = Coming(u, v) /\ ComingInOrder(u, v)'
  BY <1>14, SameInbox DEF Inv, PairInv, OrderInv
<1>15. \A v \in User :
          \/ v \notin {x, y} /\ inbox'[v] = inbox[v]
          \/ v = x /\ inbox'[v] = Append(inbox[v], Answer("other"))
          \/ v = y /\ inbox'[v] \in {inbox[v], Append(inbox[v], f)}
  BY <1>1, <1>4, <1>12 DEF ConnType
<1>16. ASSUME NEW u \in User, NEW v \in User, u # x \/ v # y
       PROVE  Coming(u, v)' = Coming(u, v) /\ ComingInOrder(u, v)'
  <2>1. CASE inbox'[v] = inbox[v]
    BY <1>14, <2>1
  <2>2. CASE inbox'[v] = Append(inbox[v], Answer("other"))
    BY <1>3, <1>7, <1>13, <2>2
  <2>3. CASE v = y /\ inbox'[v] = Append(inbox[v], f)
    BY <1>3, <1>6, <1>13, <1>16, <2>3
  <2>4. QED
    BY <1>15, <2>1, <2>2, <2>3
<1>17. \A u, v \in User : u # x \/ v # y => Sending(u, v)' = Sending(u, v) /\ SendingInOrder(u, v)'
  <2>1. ASSUME NEW v \in User, v # y
        PROVE  Sending(x, v)' = Sending(x, v) /\ SendingInOrder(x, v)'
    BY <1>9, <2>1
  <2>2. QED
    BY <1>10, <2>1
<1>18. ASSUME NEW u \in User, NEW v \in User, u # x \/ v # y
       PROVE  PairInv(u, v)' /\ Wire(u, v)' = Wire(u, v)
  <2>1. PairInv(u, v) /\ missed \subseteq missed' /\ made' \in Nat /\ made <= made'
    BY <1>4, <1>5 DEF Inv
  <2>2. /\ Coming(u, v)' = Coming(u, v) /\ ComingInOrder(u, v)'
        /\ Sending(u, v)' = Sending(u, v) /\ SendingInOrder(u, v)'
    BY <1>16, <1>17, <1>18
  <2>3. Wire(u, v)' = Wire(u, v)
    BY <1>8, <2>2 DEF Wire
  <2>4. QED
    BY <1>1, <1>8, <2>1, <2>2, <2>3, PairSame
<1>19. Sending(x, y) = {c} \cup Sending(x, y)' /\ Before({c}, Sending(x, y)') /\ SendingInOrder(x, y)'
  BY <1>9
<1>20. CASE inbox' = [inbox EXCEPT ![y] = Append(@, f), ![x] = Append(@, Answer("other"))]
            /\ missed' = missed
  <2>1. inbox'[y] = Append(inbox[y], f)
    BY <1>1, <1>12, <1>20 DEF ConnType
  <2>2. Coming(x, y)' = Coming(x, y) \cup {c} /\ ComingInOrder(x, y)'
    <3>1. ComingInOrder(x, y) /\ \A m \in Coming(x, y) : m.key.nr < f.key.nr
      BY <1>6, <1>11 DEF PairInv, OrderInv, Before
    <3>2. /\ Coming(x, y)' = Coming(x, y) \cup
                (IF f.kind = "message" /\ f.from = x THEN {Content(f)} ELSE {})
          /\ ComingInOrder(x, y)'
      BY <1>1, <1>3, <2>1, <3>1, ComingAppend
    <3>3. QED
      BY <1>6, <3>2
  <2>3. Way(x, y)' = Way(x, y) /\ Wire(x, y)' = Wire(x, y)
    BY <1>8, <1>19, <2>2 DEF Way, Wire
  <2>4. PairInv(x, y)'
    <3>1. OrderInv(x, y)'
      BY <1>8, <1>11, <1>19, <2>2 DEF PairInv, OrderInv, Before
    <3>2. KeyInv(x, y)'
      BY <1>5, <1>8, <1>11, <2>3 DEF PairInv, KeyInv
    <3>3. HeardInv(x, y)'
      BY <1>8, <1>11, <1>19, <2>2, <2>3 DEF PairInv, HeardInv
    <3>4. FollowInv(x, y)'
      BY <1>8, <1>11, <1>20, <2>3 DEF PairInv, FollowInv
    <3>5. QED
      BY <3>1, <3>2, <3>3, <3>4 DEF PairInv
  <2>5. \A u, v \in User : Wire(u, v)' = Wire(u, v)
    BY <1>18, <2>3
  <2>6. UNCHANGED Turns!vars
    BY <1>8, <2>5, Stutter
  <2>7. QED
    BY <1>18, <2>4, <2>6
<1>21. CASE inbox' = [inbox EXCEPT ![x] = Append(@, Answer("other"))]
            /\ missed' = missed \cup {<<x, y>>}
  <2>1. inbox'[y] = inbox[y]
    BY <1>1, <1>12, <1>21 DEF ConnType
  <2>2. Coming(x, y)' = Coming(x, y) /\ ComingInOrder(x, y)'
    BY <1>14, <2>1
  <2>3. Sending(x, y)' \subseteq Sending(x, y)
    BY <1>19
  <2>4. /\ <<x, y>> \in missed' /\ missed \subseteq missed' /\ made' \in Nat /\ made <= made'
    BY <1>5, <1>21
  <2>5. PairInv(x, y)'
    BY <1>1, <1>8, <1>11, <1>19, <2>2, <2>3, <2>4, PairFewer
  <2>6. \A u, v \in User : Wire(u, v)' \subseteq Wire(u, v) /\ Opened(u, v)' \subseteq Opened(u, v)
    <3>1. Wire(x, y)' \subseteq Wire(x, y)
      BY <1>8, <2>2, <2>3 DEF Wire
    <3>2. QED
      BY <1>8, <1>18, <3>1
  <2>7. Turns!Next
    BY <1>1, <1>8, <2>6, LoseFacts
  <2>8. QED
    BY <1>18, <2>5, <2>7
<1>22. QED
  BY <1>4, <1>20, <1>21
----------------------------------------------------------------------------
(* The theorems *)

\* The tables are empty at first: all keys are those of the exchange.
LEMMA InitKeys ==
  ASSUME Init, NEW u \in User, NEW v \in User
  PROVE  /\ PrivateKey(u, v) = ExchangedPair(u, v) /\ PublicKey(u, v) = ExchangedPair(v, u)
         /\ ToldKeys(u, v) = {ExchangedPair(u, v)}
         /\ Opened(u, v) = {} /\ Wire(u, v) = {} /\ Way(u, v) = {}
         /\ Posted(u, v) = {} /\ Arrived(u, v) = {}
<1>1. messages[u][v] = << >> /\ DOMAIN messages[u][v] = {}
  BY DEF Init
<1>2. PrivateKey(u, v) = ExchangedPair(u, v) /\ PublicKey(u, v) = ExchangedPair(v, u)
  BY <1>1 DEF PrivateKey, PublicKey, LastKey
<1>3. OwnRows(u, v) = {}
  BY <1>1 DEF OwnRows
<1>4. ToldKeys(u, v) = {ExchangedPair(u, v)}
  BY <1>3 DEF ToldKeys
<1>5. outbox[u] = << >> /\ inbox[v] = << >> /\ thread[u]["main"] = "idle"
      /\ message[u] = Nothing /\ received[u] = Nothing /\ received[v] = Nothing
  BY PointFacts DEF Init, ConnInit
<1>6. Posted(u, v) = {} /\ Arrived(u, v) = {}
  BY <1>5 DEF Posted, Arrived
<1>7. Opened(u, v) = {} /\ Opened(v, u) = {} /\ Sending(u, v) = {} /\ Coming(u, v) = {}
      /\ Written(u, v) = {} /\ Locked(u, v) = {}
  BY <1>5, <1>6 DEF Opened, Sending, Coming, Written, Locked
<1>8. QED
  BY <1>2, <1>4, <1>6, <1>7 DEF Wire, Way

\* The initial state satisfies the invariant.
LEMMA InvInit == Init => Inv
<1> SUFFICES ASSUME Init  PROVE Inv
  OBVIOUS
<1>1. TypeOK /\ made = 0
  BY TypeInit DEF Init
<1>2. ASSUME NEW u \in User, NEW v \in User  PROVE PairInv(u, v)
  <2>1. /\ PrivateKey(u, v) = ExchangedPair(u, v) /\ PublicKey(v, u) = ExchangedPair(u, v)
        /\ ToldKeys(u, v) = {ExchangedPair(u, v)}
        /\ Opened(v, u) = {} /\ Way(u, v) = {}
        /\ Posted(u, v) = {} /\ Arrived(u, v) = {}
    BY InitKeys
  <2>2. ExchangedPair(u, v).by = u /\ ExchangedPair(u, v).for = v /\ ExchangedPair(u, v).nr = 0
    BY DEF ExchangedPair
  <2>3. Sending(u, v) = {} /\ Coming(u, v) = {} /\ Written(u, v) = {}
    BY <2>1 DEF Way
  <2>4. OrderInv(u, v)
    BY <2>1, <2>3 DEF OrderInv, Before, SendingInOrder, ComingInOrder
  <2>5. KeyInv(u, v)
    BY <1>1, <2>1, <2>2, <2>3 DEF KeyInv
  <2>6. HeardInv(u, v) /\ FollowInv(u, v)
    BY <2>1, <2>2, <2>3 DEF HeardInv, FollowInv
  <2>7. QED
    BY <2>4, <2>5, <2>6 DEF PairInv
<1>3. QED
  BY <1>1, <1>2 DEF Inv

\* A step keeps the invariant, and is one of the protocol or invisible in it.
LEMMA Step ==
  ASSUME Inv, [Next]_vars
  PROVE  Inv' /\ [Turns!Next]_Turns!vars
<1>1. TypeOK'
  BY TypeNext DEF Inv
<1>2. ASSUME Idle  PROVE Inv' /\ [Turns!Next]_Turns!vars
  BY <1>1, <1>2, IdleKeeps, IdleStutter DEF Inv
<1>3. CASE UNCHANGED vars
  <2>1. UNCHANGED <<messages, made, missed, outbox, inbox, message, received, thread>>
        /\ made \in Nat
    BY <1>3, ConversationAssumption DEF vars, connVars, conversationVars, Inv, TypeOK
  <2>2. \A u, v \in User :
            /\ Opened(v, u)' = Opened(v, u) /\ Coming(u, v)' = Coming(u, v)
            /\ Sending(u, v)' = Sending(u, v) /\ Written(u, v)' = Written(u, v)
            /\ Locked(u, v)' = Locked(u, v)
            /\ SendingInOrder(u, v)' /\ ComingInOrder(u, v)'
            /\ ToldKeys(u, v)' = ToldKeys(u, v)
            /\ PrivateKey(u, v)' = PrivateKey(u, v) /\ PublicKey(u, v)' = PublicKey(u, v)
            /\ Unstored(u)' = Unstored(u)
    BY <2>1, SameTable, SameOutbox, SameInbox, SameMessage, SameReceived, SameLocked
       DEF Inv, PairInv, OrderInv, Unstored
  <2>3. Idle
    BY <2>1, <2>2 DEF Idle
  <2>4. QED
    BY <1>2, <2>3
<1>4. ASSUME NEW u \in User, UserStep(u)  PROVE Inv' /\ [Turns!Next]_Turns!vars
  BY <1>1, <1>2, <1>4, IdleConnection, StepWrite, StepEnd DEF UserStep, Inv
<1>5. ASSUME NEW u \in User, MainStep(u)  PROVE Inv' /\ [Turns!Next]_Turns!vars
  BY <1>1, <1>2, <1>5, IdleConnection, IdleSelect, StepStore, StepEncrypt, StepSend
     DEF MainStep, Inv
<1>6. ASSUME NEW u \in User, ReaderStep(u)  PROVE Inv' /\ [Turns!Next]_Turns!vars
  BY <1>1, <1>2, <1>6, IdleConnection, IdleSelect, StepDecrypt, StepEnd, StepHear
     DEF ReaderStep, Inv
<1>7. ASSUME NEW u \in User, ServerStep(u)  PROVE Inv' /\ [Turns!Next]_Turns!vars
  BY <1>1, <1>2, <1>7, IdleConnection, StepRelay DEF ServerStep, Inv
<1>8. QED
  BY <1>3, <1>4, <1>5, <1>6, <1>7 DEF Next

\* The protocol begins as it should.
LEMMA TurnsInit == Init => Turns!Init
<1> SUFFICES ASSUME Init  PROVE Turns!Init
  OBVIOUS
<1>1. told = [u \in User |-> [v \in User |-> ExchangedPair(u, v)]]
  BY InitKeys DEF told
<1>2. heard = [u \in User |-> [v \in User |-> ExchangedPair(v, u)]]
  BY InitKeys DEF heard
<1>3. wire = [u \in User |-> [v \in User |-> {}]]
  BY InitKeys DEF wire
<1>4. opened = [u \in User |-> [v \in User |-> {}]]
  BY InitKeys DEF opened
<1>5. used = {ExchangedPair(u, v) : u, v \in User}
  BY InitKeys DEF used
<1>6. \A u, v \in User : ExchangedPair(u, v) \in Pairs
  BY ConversationAssumption DEF ExchangedPair, Pairs
<1>7. \A u, v, x, y \in User : ExchangedPair(u, v) = ExchangedPair(x, y) => u = x /\ v = y
  BY DEF ExchangedPair
<1>8. told \in [User -> [User -> Pairs]]
      /\ \A u, v, x, y \in User : told[u][v] = told[x][y] => u = x /\ v = y
  BY <1>1, <1>6, <1>7
<1>9. heard = [u \in User |-> [v \in User |-> told[v][u]]]
  BY <1>1, <1>2
<1>10. used = {told[u][v] : u, v \in User}
  BY <1>1, <1>5
<1>11. QED
  BY <1>3, <1>4, <1>8, <1>9, <1>10 DEF Turns!Init

\* The client implements the protocol: with two threads, stops, losses and keys taken
\* from tables, it reads a message only if it answers the last one it stored.
THEOREM Implements == Spec => TakesTurns
<1>1. Inv /\ [Next]_vars => Inv' /\ [Turns!Next]_Turns!vars
  BY Step
<1>2. QED
  BY <1>1, InvInit, TurnsInit, PTL DEF Spec, TakesTurns, Turns!Spec

\* With nothing on its way and nothing lost, the keys of two tables belong together.
THEOREM Follows == Spec => []KeysFollow
<1>1. Inv => KeysFollow
  <2>1. SUFFICES ASSUME Inv, NEW u \in User, NEW v \in User,
                        u # v, v \notin Unsent(u), u \notin Unread(v), <<u, v>> \notin missed
                 PROVE  PublicKey(v, u) = PrivateKey(u, v)
    BY DEF KeysFollow
  <2>2. Written(u, v) = {} /\ Posted(u, v) = {}
    BY <2>1 DEF Unsent, Written
  <2>3. Opened(v, u) = {} /\ Arrived(u, v) = {}
    BY <2>1 DEF Unread, Opened
  <2>4. Way(u, v) = {}
    BY <2>2, <2>3 DEF Way, Sending, Coming
  <2>5. QED
    BY <2>1, <2>4 DEF Inv, PairInv, FollowInv
<1>2. Inv /\ [Next]_vars => Inv'
  BY Step
<1>3. QED
  BY <1>1, <1>2, InvInit, PTL DEF Spec

TurnProofs == INSTANCE TurnTakingProofs WITH Key <- Pairs

\* When neither end can read what the other sends, this stays so.
THEOREM StuckRemains == Spec => StuckForGood
<1>1. Turns!Spec => TurnProofs!Spec
  <2>1. Turns!Init => TurnProofs!Init
    BY DEF Turns!Init, TurnProofs!Init
  <2>2. [Turns!Next]_Turns!vars => [TurnProofs!Next]_TurnProofs!vars
    BY Zenon DEF Turns!Next, TurnProofs!Next, Turns!vars, TurnProofs!vars,
           Turns!Tell, TurnProofs!Tell, Turns!Send, TurnProofs!Send, Turns!Open, TurnProofs!Open,
           Turns!Hear, TurnProofs!Hear, Turns!Lose, TurnProofs!Lose,
           Turns!Message, TurnProofs!Message
  <2>3. QED
    BY <2>1, <2>2, PTL DEF Turns!Spec, TurnProofs!Spec
<1>2. TurnProofs!Spec => TurnProofs!StuckForGood
  BY TurnProofs!StuckStays
<1>3. TurnProofs!StuckForGood => StuckForGood
  <2>1. [\A u, v \in User : TurnProofs!Stuck(u, v) => TurnProofs!Stuck(u, v)']_TurnProofs!vars
          => [\A u, v \in User : Turns!Stuck(u, v) => Turns!Stuck(u, v)']_Turns!vars
    BY Zenon DEF Turns!Stuck, TurnProofs!Stuck, Turns!Deaf, TurnProofs!Deaf, Turns!vars, TurnProofs!vars
  <2>2. QED
    BY <2>1, PTL DEF TurnProofs!StuckForGood, StuckForGood, Turns!StuckForGood
<1>4. Spec => Turns!Spec
  BY Implements DEF TakesTurns
<1>5. QED
  BY <1>1, <1>2, <1>3, <1>4, PTL

----------------------------------------------------------------------------
(* The keys of the tables, and the locks *)

\* Every step keeps the tables as they are, or lets them grow.
LEMMA Grows ==
  ASSUME Inv, [Next]_vars
  PROVE  Growing
<1>1. ASSUME messages' = messages  PROVE Growing
  <2>1. \A u, v \in User : PrivateKey(u, v).nr \in Nat /\ PublicKey(v, u).nr \in Nat
    BY NumberFacts DEF Inv
  <2>2. QED
    BY <1>1, <2>1, SameTable DEF Growing
<1>2. CASE UNCHANGED vars
  BY <1>1, <1>2 DEF vars, conversationVars
<1>3. ASSUME NEW u \in User, UserStep(u)  PROVE Growing
  BY <1>1, <1>3, Zenon DEF UserStep, conversationVars, WriteMessage, StopClient, End
<1>4. ASSUME NEW u \in User, MainStep(u)  PROVE Growing
  BY <1>1, <1>4, StepStore, Zenon
     DEF MainStep, conversationVars, SelectOwn, EncryptAESKey, SendMessage
<1>5. ASSUME NEW u \in User, ReaderStep(u)  PROVE Growing
  BY <1>1, <1>5, StepHear, Zenon
     DEF ReaderStep, conversationVars, DecryptMessage, DecryptionDies, End, SelectReceived
<1>6. ASSUME NEW u \in User, ServerStep(u)  PROVE Growing
  BY <1>1, <1>6, Zenon DEF ServerStep, conversationVars, RelayMessage
<1>7. QED
  BY <1>2, <1>3, <1>4, <1>5, <1>6 DEF Next

\* The key that a client opens with and the one that its peer locks with are never replaced
\* by an older one (Message::storeToDatabase, getLastKeyFromDatabase), although both threads
\* write rows and messages cross, are lost or die with a process.
THEOREM KeysNeverReturn == Spec => KeysMoveOn
<1>1. Inv /\ [Next]_vars => Inv'
  BY Step
<1>2. Inv /\ [Next]_vars =>
        [\A u, v \in User : /\ PrivateKey(u, v).nr <= PrivateKey(u, v)'.nr
                            /\ PublicKey(v, u).nr <= PublicKey(v, u)'.nr]_vars
  BY Grows DEF Growing
<1>3. QED
  BY <1>1, <1>2, InvInit, PTL DEF Spec, KeysMoveOn

\* What is heard, opened or on the wire speaks of keys that were told.
LockInv ==
    \A u, v \in User :
        /\ PublicKey(u, v) \in ToldKeys(v, u)
        /\ \A m \in Opened(u, v) : m.key \in ToldKeys(v, u)
        /\ \A m \in Wire(u, v) : m.key \in ToldKeys(u, v) /\ m.lock \in ToldKeys(v, u)

\* The state of the protocol, by pairs of users, before and after a step.
LEMMA TurnsFacts ==
  ASSUME NEW u \in User, NEW v \in User
  PROVE  /\ told[u][v] = PrivateKey(u, v) /\ told'[u][v] = PrivateKey(u, v)'
         /\ heard[u][v] = PublicKey(u, v) /\ heard'[u][v] = PublicKey(u, v)'
         /\ wire[u][v] = Wire(u, v) /\ wire'[u][v] = Wire(u, v)'
         /\ opened[u][v] = Opened(u, v) /\ opened'[u][v] = Opened(u, v)'
  BY Zenon DEF told, heard, wire, opened

\* A step of the protocol sends and opens nothing else.
LEMMA LockNext ==
  ASSUME Inv, LockInv, [Next]_vars
  PROVE  LockInv'
<1>1. TypeOK /\ Growing /\ [Turns!Next]_Turns!vars
  BY Step, Grows DEF Inv
<1>2. \A u, v \in User : PrivateKey(u, v) \in ToldKeys(u, v)
  BY <1>1, KeyFacts
<1> DEFINE new(u, v) == [key |-> told[u][v], lock |-> heard[u][v]]
           Moved(u, v) ==
               /\ \/ heard'[u][v] = heard[u][v]
                  \/ \E m \in opened[u][v] : heard'[u][v] = m.key
               /\ \A m \in opened'[u][v] : m \in opened[u][v] \/ m \in wire[v][u]
               /\ \A m \in wire'[u][v] : m \in wire[u][v] \/ m = new(u, v)
<1>3. ASSUME NEW u \in User, NEW v \in User  PROVE Moved(u, v)
  <2>1. /\ heard = [x \in User |-> [y \in User |-> PublicKey(x, y)]]
        /\ wire = [x \in User |-> [y \in User |-> Wire(x, y)]]
        /\ opened = [x \in User |-> [y \in User |-> Opened(x, y)]]
    BY DEF heard, wire, opened
  <2> HIDE DEF new
  <2>2. ASSUME NEW x \in User, NEW y \in User, Turns!Tell(x, y)  PROVE Moved(u, v)
    BY <2>2 DEF Turns!Tell
  <2>3. ASSUME NEW x \in User, NEW y \in User, Turns!Send(x, y)  PROVE Moved(u, v)
    <3>1. wire' = [wire EXCEPT ![x][y] = @ \cup {new(x, y)}] /\ UNCHANGED <<opened, heard>>
      BY <2>3 DEF Turns!Send, new
    <3>2. QED
      BY <2>1, <3>1
  <2>4. ASSUME NEW x \in User, NEW y \in User, Turns!Open(x, y)  PROVE Moved(u, v)
    <3>1. PICK m \in wire[y][x] :
             /\ wire' = [wire EXCEPT ![y][x] = @ \ {m}]
             /\ opened' = [opened EXCEPT ![x][y] = @ \cup {m}]
             /\ heard' = heard
      BY <2>4 DEF Turns!Open
    <3>2. QED
      BY <2>1, <3>1
  <2>5. ASSUME NEW x \in User, NEW y \in User, Turns!Hear(x, y)  PROVE Moved(u, v)
    <3>1. PICK m \in opened[x][y] :
             /\ heard' = [heard EXCEPT ![x][y] = m.key]
             /\ opened' = [opened EXCEPT ![x][y] = @ \ {m}]
             /\ wire' = wire
      BY <2>5 DEF Turns!Hear
    <3>2. QED
      BY <2>1, <3>1
  <2>6. CASE Turns!Lose
    BY <2>6 DEF Turns!Lose
  <2>7. CASE UNCHANGED Turns!vars
    BY <2>7 DEF Turns!vars
  <2>8. QED
    BY <1>1, <2>2, <2>3, <2>4, <2>5, <2>6, <2>7 DEF Turns!Next
<1>4. SUFFICES ASSUME NEW u \in User, NEW v \in User
               PROVE  /\ PublicKey(u, v)' \in ToldKeys(v, u)'
                      /\ \A m \in Opened(u, v)' : m.key \in ToldKeys(v, u)'
                      /\ \A m \in Wire(u, v)' : /\ m.key \in ToldKeys(u, v)'
                                                /\ m.lock \in ToldKeys(v, u)'
  BY DEF LockInv
<1>5. /\ heard[u][v] \in ToldKeys(v, u) /\ told[u][v] \in ToldKeys(u, v)
      /\ \A m \in opened[u][v] : m.key \in ToldKeys(v, u)
      /\ \A m \in wire[v][u] : m.key \in ToldKeys(v, u)
      /\ \A m \in wire[u][v] : m.key \in ToldKeys(u, v) /\ m.lock \in ToldKeys(v, u)
  BY <1>2, TurnsFacts DEF LockInv
<1>6. ToldKeys(u, v) \subseteq ToldKeys(u, v)' /\ ToldKeys(v, u) \subseteq ToldKeys(v, u)'
  BY <1>1 DEF Growing
<1>7. new(u, v).key = told[u][v] /\ new(u, v).lock = heard[u][v]
  OBVIOUS
<1> HIDE DEF new
<1>8. PublicKey(u, v)' \in ToldKeys(v, u)'
  BY <1>3, <1>5, <1>6, TurnsFacts
<1>9. \A m \in Opened(u, v)' : m.key \in ToldKeys(v, u)'
  BY <1>3, <1>5, <1>6, TurnsFacts
<1>10. \A m \in Wire(u, v)' : m.key \in ToldKeys(u, v)' /\ m.lock \in ToldKeys(v, u)'
  BY <1>3, <1>5, <1>6, <1>7, TurnsFacts
<1>11. QED
  BY <1>8, <1>9, <1>10

\* A message that comes in is locked with a key that its reader told the sender
\* (Message::encryptAESKey takes it from the sender's table): what cannot be opened is not
\* foreign, it was overtaken by what the reader wrote meanwhile.
THEOREM LocksAreTold == Spec => []LocksWereTold
<1>1. Init => LockInv
  <2>1. SUFFICES ASSUME Init, NEW u \in User, NEW v \in User
                 PROVE  /\ PublicKey(u, v) \in ToldKeys(v, u)
                        /\ Opened(u, v) = {} /\ Wire(u, v) = {}
    BY DEF LockInv
  <2>2. PublicKey(u, v) \in ToldKeys(v, u)
    BY <2>1, InitKeys DEF ToldKeys
  <2>3. QED
    BY <2>1, <2>2, InitKeys
<1>2. LockInv => LocksWereTold
  <2>1. SUFFICES ASSUME LockInv, NEW u \in User, NEW v \in User, NEW i \in Arrived(u, v)
                 PROVE  inbox[v][i].lock \in ToldKeys(v, u)
    BY DEF LocksWereTold
  <2>2. Content(inbox[v][i]) \in Wire(u, v)
    BY <2>1 DEF Wire, Coming
  <2>3. QED
    BY <2>1, <2>2, ContentFacts DEF LockInv
<1>3. Inv /\ LockInv /\ [Next]_vars => Inv' /\ LockInv'
  BY Step, LockNext
<1>4. QED
  BY <1>1, <1>2, <1>3, InvInit, PTL DEF Spec
=============================================================================
