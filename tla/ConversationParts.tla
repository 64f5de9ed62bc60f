-------------------------- MODULE ConversationParts --------------------------
(***************************************************************************)
(* The inductive invariant of Conversation, and what the steps do to the   *)
(* parts it speaks of: the messages in an outbox and an inbox, the one     *)
(* that is written and the one that is read, and the keys of a table.      *)
(***************************************************************************)
EXTENDS ConversationProofs

----------------------------------------------------------------------------
(* The inductive invariant *)

\* The message for v that the main thread of u is busy with.
Written(u, v) ==
    IF message[u] # Nothing /\ message[u].to = v THEN {Content(message[u])} ELSE {}

\* Its key is not yet in the table.
Unstored(u) == thread[u]["main"] \in {"typed", "selected"}

\* All keys in one set were made before those in the other.
Before(S, T) == \A m \in S, n \in T : m.key.nr < n.key.nr

\* The messages of an outbox, and of an inbox, stand in the order in which their keys
\* were made.
SendingInOrder(u, v) ==
    \A i, j \in Posted(u, v) : i < j => outbox[u][i].request.key.nr < outbox[u][j].request.key.nr

ComingInOrder(u, v) ==
    \A i, j \in Arrived(u, v) : i < j => inbox[v][i].key.nr < inbox[v][j].key.nr

\* The messages on their way are those of u for v, in order: the one that v has opened,
\* those in its inbox, those in the outbox of u, and the one that u is writing.
OrderInv(u, v) ==
    /\ SendingInOrder(u, v)
    /\ ComingInOrder(u, v)
    /\ Before(Opened(v, u), Coming(u, v) \cup Sending(u, v) \cup Written(u, v))
    /\ Before(Coming(u, v), Sending(u, v) \cup Written(u, v))
    /\ Before(Sending(u, v), Written(u, v))

Way(u, v) == Opened(v, u) \cup Coming(u, v) \cup Sending(u, v) \cup Written(u, v)

\* Keys belong to those who use them, and a new one is newer than all others.
KeyInv(u, v) ==
    /\ \A k \in ToldKeys(u, v) : k.by = u /\ k.for = v /\ k.nr <= made
    /\ Way(u, v) # {} => u # v
    /\ \A m \in Written(u, v) :
          /\ m.key.by = u /\ m.key.for = v /\ m.key.nr <= made
          /\ Unstored(u) => \A k \in ToldKeys(u, v) : k.nr < m.key.nr
          /\ ~Unstored(u) => m.key = PrivateKey(u, v)

\* What v has heard is older than what is on its way, and this is not newer than what
\* u has told last.
HeardInv(u, v) ==
    /\ \A m \in Way(u, v) : PublicKey(v, u).nr < m.key.nr
    /\ \A m \in Opened(v, u) \cup Coming(u, v) \cup Sending(u, v) : m.key.nr <= PrivateKey(u, v).nr
    /\ PublicKey(v, u).nr <= PrivateKey(u, v).nr

\* Unless a message was lost, the key told last is heard or on its way.
FollowInv(u, v) ==
    u # v /\ <<u, v>> \notin missed =>
        \/ PublicKey(v, u) = PrivateKey(u, v)
        \/ \E m \in Way(u, v) : m.key = PrivateKey(u, v)

PairInv(u, v) == OrderInv(u, v) /\ KeyInv(u, v) /\ HeardInv(u, v) /\ FollowInv(u, v)

Inv == TypeOK /\ \A u, v \in User : PairInv(u, v)

----------------------------------------------------------------------------
(* What the parts of a conversation are *)

\* What is kept of a message.
LEMMA ContentFacts == \A m : Content(m).key = m.key /\ Content(m).lock = m.lock
  BY DEF Content

\* The messages of an outbox, and of an inbox, by their positions.
LEMMA PlaceFacts ==
  ASSUME TypeOK, NEW u \in User, NEW v \in User
  PROVE  /\ \A i \in Posted(u, v) :
               /\ i \in 1 .. Len(outbox[u])
               /\ outbox[u][i].request.key \in Pairs /\ outbox[u][i].request.lock \in Pairs
         /\ \A i \in Arrived(u, v) :
               /\ i \in 1 .. Len(inbox[v])
               /\ inbox[v][i].key \in Pairs /\ inbox[v][i].lock \in Pairs
<1>1. outbox[u] \in Seq(Sent) /\ inbox[v] \in Seq(Frame)
  BY TypeParts DEF ConnType
<1>2. ASSUME NEW i \in Posted(u, v)
      PROVE  /\ i \in 1 .. Len(outbox[u])
             /\ outbox[u][i].request.key \in Pairs /\ outbox[u][i].request.lock \in Pairs
  <2>1. i \in DOMAIN outbox[u] /\ outbox[u][i].request.kind = "message"
    BY <1>2 DEF Posted
  <2>2. outbox[u][i] \in Sent /\ i \in 1 .. Len(outbox[u])
    BY <1>1, <2>1, SeqFacts
  <2>3. outbox[u][i].request \in Request
    BY <2>2 DEF Sent
  <2>4. QED
    BY <2>1, <2>2, <2>3 DEF Request
<1>3. ASSUME NEW i \in Arrived(u, v)
      PROVE  /\ i \in 1 .. Len(inbox[v])
             /\ inbox[v][i].key \in Pairs /\ inbox[v][i].lock \in Pairs
  <2>1. i \in DOMAIN inbox[v] /\ inbox[v][i].kind = "message"
    BY <1>3 DEF Arrived
  <2>2. inbox[v][i] \in Frame /\ i \in 1 .. Len(inbox[v])
    BY <1>1, <2>1, SeqFacts
  <2>3. QED
    BY <2>1, <2>2 DEF Frame
<1>4. QED
  BY <1>2, <1>3

\* Messages consist of two keys.
LEMMA WayType ==
  ASSUME TypeOK, NEW u \in User, NEW v \in User
  PROVE  /\ Way(u, v) \subseteq Turns!Message
         /\ Locked(u, v) \subseteq Written(u, v)
<1>1. Sending(u, v) \subseteq Turns!Message /\ Coming(u, v) \subseteq Turns!Message
  BY PlaceFacts DEF Sending, Coming, Content, Turns!Message
<1>2. Written(u, v) \subseteq Turns!Message
  BY TypeParts DEF TableType, Written, Content, Message, Turns!Message
<1>3. Opened(v, u) \subseteq Turns!Message
  BY TypeParts DEF TableType, Opened, Content, Received, Turns!Message
<1>4. Locked(u, v) \subseteq Written(u, v)
  BY TypeParts DEF Fit, MainBusy, Locked, Written
<1>5. QED
  BY <1>1, <1>2, <1>3, <1>4 DEF Way

\* The keys of the tables.
LEMMA KeyFacts ==
  ASSUME TypeOK, NEW u \in User, NEW v \in User
  PROVE  /\ PrivateKey(u, v) \in Pairs /\ PublicKey(u, v) \in Pairs
         /\ ToldKeys(u, v) \subseteq Pairs
         /\ PrivateKey(u, v) \in ToldKeys(u, v)
<1>1. messages \in [User -> [User -> Seq(Row)]]
  BY TypeParts DEF TableType
<1>2. PrivateKey(u, v) \in Pairs /\ PublicKey(u, v) \in Pairs
  BY <1>1, LastKeyType DEF PrivateKey, PublicKey
<1>3. ToldKeys(u, v) \subseteq Pairs
  <2>1. ExchangedPair(u, v) \in Pairs
    BY ConversationAssumption DEF ExchangedPair, Pairs
  <2>2. messages[u][v] \in Seq(Row)
    BY <1>1
  <2>3. \A i \in DOMAIN messages[u][v] : messages[u][v][i].key \in Pairs
    <3>1. \A i \in DOMAIN messages[u][v] : messages[u][v][i] \in Row
      BY <2>2, SeqFacts
    <3>2. QED
      BY <3>1 DEF Row
  <2>4. {messages[u][v][i].key : i \in OwnRows(u, v)} \subseteq Pairs
    BY <2>3 DEF OwnRows
  <2>5. QED
    BY <2>1, <2>4 DEF ToldKeys
<1>4. PrivateKey(u, v) \in ToldKeys(u, v)
  <2>1. CASE OwnRows(u, v) = {}
    BY <2>1 DEF PrivateKey, LastKey, OwnRows, ToldKeys
  <2>2. CASE OwnRows(u, v) # {}
    <3>1. PICK i \in DOMAIN messages[u][v] :
             messages[u][v][i].sender = u /\ LastKey(u, v, u) = messages[u][v][i].key
      BY <1>1, <2>2, LastRowFacts DEF OwnRows
    <3>2. QED
      BY <3>1 DEF PrivateKey, ToldKeys, OwnRows
  <2>3. QED
    BY <2>1, <2>2
<1>5. QED
  BY <1>2, <1>3, <1>4

\* The numbers of keys.
LEMMA NumberFacts ==
  ASSUME TypeOK, NEW u \in User, NEW v \in User
  PROVE  /\ \A m \in Way(u, v) : m.key.nr \in Nat
         /\ \A k \in ToldKeys(u, v) : k.nr \in Nat
         /\ PrivateKey(u, v).nr \in Nat /\ PublicKey(u, v).nr \in Nat
         /\ made \in Nat
<1>1. \A k \in Pairs : k.nr \in Nat
  BY ConversationAssumption DEF Pairs
<1>2. \A m \in Turns!Message : m.key \in Pairs
  BY DEF Turns!Message
<1>3. made \in Nat
  BY ConversationAssumption DEF TypeOK
<1>4. QED
  BY <1>1, <1>2, <1>3, WayType, KeyFacts

----------------------------------------------------------------------------
(* How the parts of a conversation change *)

\* A request is put last into an outbox.
LEMMA SendingAppend ==
  ASSUME TypeOK, NEW u \in User, NEW v \in User, NEW e \in Sent,
         outbox'[u] = Append(outbox[u], e),
         SendingInOrder(u, v),
         e.request.kind = "message" /\ e.request.to = v =>
             \A m \in Sending(u, v) : m.key.nr < e.request.key.nr
  PROVE  /\ Sending(u, v)' = Sending(u, v) \cup
                (IF e.request.kind = "message" /\ e.request.to = v
                 THEN {Content(e.request)} ELSE {})
         /\ SendingInOrder(u, v)'
<1> DEFINE n == Len(outbox[u]) + 1
           Is == e.request.kind = "message" /\ e.request.to = v
<1>1. outbox[u] \in Seq(Sent)
  BY TypeParts DEF ConnType
<1>2. /\ DOMAIN outbox[u] = 1 .. Len(outbox[u]) /\ Len(outbox[u]) \in Nat
      /\ DOMAIN outbox'[u] = 1 .. n
      /\ \A i \in 1 .. Len(outbox[u]) : outbox'[u][i] = outbox[u][i]
      /\ outbox'[u][n] = e
  BY <1>1, AppendFacts, SeqFacts
<1>3. Posted(u, v)' = Posted(u, v) \cup (IF Is THEN {n} ELSE {})
  BY <1>2 DEF Posted
<1>4. /\ \A i \in Posted(u, v) : i \in 1 .. Len(outbox[u]) /\ outbox'[u][i] = outbox[u][i]
      /\ n \notin Posted(u, v)
  BY <1>2 DEF Posted
<1>5. Sending(u, v)' = Sending(u, v) \cup (IF Is THEN {Content(e.request)} ELSE {})
  BY <1>2, <1>3, <1>4 DEF Sending
<1>6. SendingInOrder(u, v)'
  <2>1. \A i \in Posted(u, v) : Is => outbox[u][i].request.key.nr < e.request.key.nr
    <3>1. \A i \in Posted(u, v) : Content(outbox[u][i].request) \in Sending(u, v)
      BY DEF Sending
    <3>2. QED
      BY <3>1, ContentFacts
  <2>2. SUFFICES ASSUME NEW i \in Posted(u, v)', NEW j \in Posted(u, v)', i < j
                 PROVE  outbox'[u][i].request.key.nr < outbox'[u][j].request.key.nr
    BY DEF SendingInOrder
  <2>3. i \in Posted(u, v)
    BY <1>2, <1>3, <1>4, <2>2
  <2>4. CASE j \in Posted(u, v)
    BY <1>4, <2>2, <2>3, <2>4 DEF SendingInOrder
  <2>5. CASE j = n /\ Is
    BY <1>2, <1>4, <2>1, <2>3, <2>5
  <2>6. QED
    BY <1>3, <2>4, <2>5
<1>7. QED
  BY <1>5, <1>6

\* The first request of an outbox is taken.
LEMMA SendingTail ==
  ASSUME TypeOK, NEW u \in User, NEW v \in User,
         outbox[u] # << >>, outbox'[u] = Tail(outbox[u]),
         SendingInOrder(u, v)
  PROVE  LET e == Head(outbox[u])
             first == IF e.request.kind = "message" /\ e.request.to = v
                      THEN {Content(e.request)} ELSE {}
         IN  /\ Sending(u, v) = first \cup Sending(u, v)'
             /\ Before(first, Sending(u, v)')
             /\ SendingInOrder(u, v)'
<1> DEFINE e == Head(outbox[u])
           n == Len(outbox[u])
           Is == e.request.kind = "message" /\ e.request.to = v
           first == IF Is THEN {Content(e.request)} ELSE {}
<1>1. outbox[u] \in Seq(Sent)
  BY TypeParts DEF ConnType
<1>2. /\ DOMAIN outbox[u] = 1 .. n /\ n \in Nat \ {0}
      /\ DOMAIN outbox'[u] = 1 .. (n - 1)
      /\ \A i \in 1 .. (n - 1) : outbox'[u][i] = outbox[u][i + 1]
      /\ outbox[u][1] = e
  BY <1>1, TailFacts, SeqFacts
<1> HIDE DEF e, n
<1>3. \A i \in Posted(u, v)' :
          i \in 1 .. (n - 1) /\ i + 1 \in Posted(u, v) /\ outbox'[u][i] = outbox[u][i + 1]
  BY <1>2 DEF Posted
<1>4. \A i \in Posted(u, v) : i \in 1 .. n
          /\ (i # 1 => i - 1 \in Posted(u, v)' /\ outbox[u][i] = outbox'[u][i - 1])
  BY <1>2 DEF Posted
<1>5. Is <=> 1 \in Posted(u, v)
  BY <1>2 DEF Posted
<1>6. Sending(u, v) = first \cup Sending(u, v)'
  <2>1. Sending(u, v) \subseteq first \cup Sending(u, v)'
    <3>1. SUFFICES ASSUME NEW i \in Posted(u, v)
                   PROVE  Content(outbox[u][i].request) \in first \cup Sending(u, v)'
      BY DEF Sending
    <3>2. CASE i = 1
      BY <1>2, <1>5, <3>1, <3>2
    <3>3. CASE i # 1
      BY <1>4, <3>1, <3>3 DEF Sending
    <3>4. QED
      BY <3>2, <3>3
  <2>2. first \subseteq Sending(u, v)
    BY <1>2, <1>5 DEF Sending
  <2>3. Sending(u, v)' \subseteq Sending(u, v)
    <3>1. SUFFICES ASSUME NEW i \in Posted(u, v)'
                   PROVE  Content(outbox'[u][i].request) \in Sending(u, v)
      BY DEF Sending
    <3>2. QED
      BY <1>3, <3>1 DEF Sending
  <2>4. QED
    BY <2>1, <2>2, <2>3
<1>7. Before(first, Sending(u, v)')
  <2>1. SUFFICES ASSUME Is, NEW i \in Posted(u, v)'
                 PROVE  e.request.key.nr < outbox'[u][i].request.key.nr
    BY ContentFacts DEF Before, Sending
  <2>2. 1 \in Posted(u, v) /\ i + 1 \in Posted(u, v) /\ 1 < i + 1
    BY <1>2, <1>3, <1>5, <2>1
  <2>3. outbox[u][1].request.key.nr < outbox[u][i + 1].request.key.nr
    BY <2>2 DEF SendingInOrder
  <2>4. QED
    BY <1>2, <1>3, <2>1, <2>3
<1>8. SendingInOrder(u, v)'
  <2>1. SUFFICES ASSUME NEW i \in Posted(u, v)', NEW j \in Posted(u, v)', i < j
                 PROVE  outbox'[u][i].request.key.nr < outbox'[u][j].request.key.nr
    BY DEF SendingInOrder
  <2>2. i + 1 \in Posted(u, v) /\ j + 1 \in Posted(u, v) /\ i + 1 < j + 1
    BY <1>2, <1>3, <2>1
  <2>3. QED
    BY <1>3, <2>1, <2>2 DEF SendingInOrder
<1>9. QED
  BY <1>6, <1>7, <1>8 DEF e

\* A frame is put last into an inbox.
LEMMA ComingAppend ==
  ASSUME TypeOK, NEW u \in User, NEW v \in User, NEW e \in Frame,
         inbox'[v] = Append(inbox[v], e),
         ComingInOrder(u, v),
         e.kind = "message" /\ e.from = u => \A m \in Coming(u, v) : m.key.nr < e.key.nr
  PROVE  /\ Coming(u, v)' = Coming(u, v) \cup
                (IF e.kind = "message" /\ e.from = u THEN {Content(e)} ELSE {})
         /\ ComingInOrder(u, v)'
<1> DEFINE n == Len(inbox[v]) + 1
           Is == e.kind = "message" /\ e.from = u
<1>1. inbox[v] \in Seq(Frame)
  BY TypeParts DEF ConnType
<1>2. /\ DOMAIN inbox[v] = 1 .. Len(inbox[v]) /\ Len(inbox[v]) \in Nat
      /\ DOMAIN inbox'[v] = 1 .. n
      /\ \A i \in 1 .. Len(inbox[v]) : inbox'[v][i] = inbox[v][i]
      /\ inbox'[v][n] = e
  BY <1>1, AppendFacts, SeqFacts
<1>3. Arrived(u, v)' = Arrived(u, v) \cup (IF Is THEN {n} ELSE {})
  BY <1>2 DEF Arrived
<1>4. /\ \A i \in Arrived(u, v) : i \in 1 .. Len(inbox[v]) /\ inbox'[v][i] = inbox[v][i]
      /\ n \notin Arrived(u, v)
  BY <1>2 DEF Arrived
<1>5. Coming(u, v)' = Coming(u, v) \cup (IF Is THEN {Content(e)} ELSE {})
  BY <1>2, <1>3, <1>4 DEF Coming
<1>6. ComingInOrder(u, v)'
  <2>1. \A i \in Arrived(u, v) : Is => inbox[v][i].key.nr < e.key.nr
    <3>1. \A i \in Arrived(u, v) : Content(inbox[v][i]) \in Coming(u, v)
      BY DEF Coming
    <3>2. QED
      BY <3>1, ContentFacts
  <2>2. SUFFICES ASSUME NEW i \in Arrived(u, v)', NEW j \in Arrived(u, v)', i < j
                 PROVE  inbox'[v][i].key.nr < inbox'[v][j].key.nr
    BY DEF ComingInOrder
  <2>3. i \in Arrived(u, v)
    BY <1>2, <1>3, <1>4, <2>2
  <2>4. CASE j \in Arrived(u, v)
    BY <1>4, <2>2, <2>3, <2>4 DEF ComingInOrder
  <2>5. CASE j = n /\ Is
    BY <1>2, <1>4, <2>1, <2>3, <2>5
  <2>6. QED
    BY <1>3, <2>4, <2>5
<1>7. QED
  BY <1>5, <1>6

\* The first frame of an inbox is taken.
LEMMA ComingTail ==
  ASSUME TypeOK, NEW u \in User, NEW v \in User,
         inbox[v] # << >>, inbox'[v] = Tail(inbox[v]),
         ComingInOrder(u, v)
  PROVE  LET e == Head(inbox[v])
             first == IF e.kind = "message" /\ e.from = u THEN {Content(e)} ELSE {}
         IN  /\ Coming(u, v) = first \cup Coming(u, v)'
             /\ Before(first, Coming(u, v)')
             /\ ComingInOrder(u, v)'
<1> DEFINE e == Head(inbox[v])
           n == Len(inbox[v])
           Is == e.kind = "message" /\ e.from = u
           first == IF Is THEN {Content(e)} ELSE {}
<1>1. inbox[v] \in Seq(Frame)
  BY TypeParts DEF ConnType
<1>2. /\ DOMAIN inbox[v] = 1 .. n /\ n \in Nat \ {0}
      /\ DOMAIN inbox'[v] = 1 .. (n - 1)
      /\ \A i \in 1 .. (n - 1) : inbox'[v][i] = inbox[v][i + 1]
      /\ inbox[v][1] = e
  BY <1>1, TailFacts, SeqFacts
<1> HIDE DEF e, n
<1>3. \A i \in Arrived(u, v)' :
          i \in 1 .. (n - 1) /\ i + 1 \in Arrived(u, v) /\ inbox'[v][i] = inbox[v][i + 1]
  BY <1>2 DEF Arrived
<1>4. \A i \in Arrived(u, v) : i \in 1 .. n
          /\ (i # 1 => i - 1 \in Arrived(u, v)' /\ inbox[v][i] = inbox'[v][i - 1])
  BY <1>2 DEF Arrived
<1>5. Is <=> 1 \in Arrived(u, v)
  BY <1>2 DEF Arrived
<1>6. Coming(u, v) = first \cup Coming(u, v)'
  <2>1. Coming(u, v) \subseteq first \cup Coming(u, v)'
    <3>1. SUFFICES ASSUME NEW i \in Arrived(u, v)
                   PROVE  Content(inbox[v][i]) \in first \cup Coming(u, v)'
      BY DEF Coming
    <3>2. CASE i = 1
      BY <1>2, <1>5, <3>1, <3>2
    <3>3. CASE i # 1
      BY <1>4, <3>1, <3>3 DEF Coming
    <3>4. QED
      BY <3>2, <3>3
  <2>2. first \subseteq Coming(u, v)
    BY <1>2, <1>5 DEF Coming
  <2>3. Coming(u, v)' \subseteq Coming(u, v)
    <3>1. SUFFICES ASSUME NEW i \in Arrived(u, v)'
                   PROVE  Content(inbox'[v][i]) \in Coming(u, v)
      BY DEF Coming
    <3>2. QED
      BY <1>3, <3>1 DEF Coming
  <2>4. QED
    BY <2>1, <2>2, <2>3
<1>7. Before(first, Coming(u, v)')
  <2>1. SUFFICES ASSUME Is, NEW i \in Arrived(u, v)'
                 PROVE  e.key.nr < inbox'[v][i].key.nr
    BY ContentFacts DEF Before, Coming
  <2>2. 1 \in Arrived(u, v) /\ i + 1 \in Arrived(u, v) /\ 1 < i + 1
    BY <1>2, <1>3, <1>5, <2>1
  <2>3. inbox[v][1].key.nr < inbox[v][i + 1].key.nr
    BY <2>2 DEF ComingInOrder
  <2>4. QED
    BY <1>2, <1>3, <2>1, <2>3
<1>8. ComingInOrder(u, v)'
  <2>1. SUFFICES ASSUME NEW i \in Arrived(u, v)', NEW j \in Arrived(u, v)', i < j
                 PROVE  inbox'[v][i].key.nr < inbox'[v][j].key.nr
    BY DEF ComingInOrder
  <2>2. i + 1 \in Arrived(u, v) /\ j + 1 \in Arrived(u, v) /\ i + 1 < j + 1
    BY <1>2, <1>3, <2>1
  <2>3. QED
    BY <1>3, <2>1, <2>2 DEF ComingInOrder
<1>9. QED
  BY <1>6, <1>7, <1>8 DEF e

\* A row is put last into a table.
LEMMA InsertFacts ==
  ASSUME TypeOK, NEW x \in User, NEW y \in User, NEW s \in User, NEW content,
         content.key \in Pairs, content.conversation \in Nat, Insert(x, y, s, content)
  PROVE  /\ LastKey(x, y, s)' = content.key
         /\ \A a, b, t \in User :
               a # x \/ b # y \/ t # s => LastKey(a, b, t)' = LastKey(a, b, t)
         /\ \A a, b \in User :
               ToldKeys(a, b)' = ToldKeys(a, b) \cup
                   (IF a = x /\ b = y /\ s = x THEN {content.key} ELSE {})
<1> DEFINE old == messages[x][y]
           n == Len(old) + 1
           row == [sender |-> s, key |-> content.key, conversation |-> content.conversation]
           rows(t) == {i \in DOMAIN old : old[i].sender = t}
           rowsNext(t) == {i \in DOMAIN messages'[x][y] : messages'[x][y][i].sender = t}
<1>1. messages \in [User -> [User -> Seq(Row)]]
  BY TypeParts DEF TableType
<1>2. old \in Seq(Row) /\ row \in Row /\ row.sender = s /\ row.key = content.key
  BY <1>1 DEF Row
<1>3. messages' = [messages EXCEPT ![x][y] = Append(old, row)]
  BY DEF Insert
<1>4. messages'[x][y] = Append(old, row)
  BY <1>1, <1>3
<1>5. \A a, b \in User : a # x \/ b # y => messages'[a][b] = messages[a][b]
  BY <1>1, <1>3
<1> HIDE DEF row
<1>6. /\ DOMAIN old = 1 .. Len(old) /\ Len(old) \in Nat /\ n \in Nat
      /\ DOMAIN messages'[x][y] = 1 .. n
      /\ \A i \in 1 .. Len(old) : messages'[x][y][i] = old[i]
      /\ messages'[x][y][n] = row
  BY <1>2, <1>4, AppendFacts, SeqFacts
<1>7. /\ \A t : t # s => rowsNext(t) = rows(t)
      /\ rowsNext(s) = rows(s) \cup {n}
      /\ \A t : rows(t) \in SUBSET (1 .. Len(old))
      /\ rowsNext(s) \in SUBSET (1 .. n)
  <2>1. /\ DOMAIN messages'[x][y] = DOMAIN old \cup {n} /\ n \notin DOMAIN old
        /\ \A i \in DOMAIN old : messages'[x][y][i].sender = old[i].sender
        /\ messages'[x][y][n].sender = s
    BY <1>2, <1>6
  <2>2. \A t : rows(t) \in SUBSET (1 .. Len(old))
    BY <1>6
  <2>3. rowsNext(s) \in SUBSET (1 .. n)
    BY <1>6
  <2> HIDE DEF old, n
  <2>4. \A t : t # s => rowsNext(t) = rows(t)
    BY <2>1
  <2>5. rowsNext(s) = rows(s) \cup {n}
    BY <2>1
  <2>6. QED
    BY <2>2, <2>3, <2>4, <2>5
<1>8. LastKey(x, y, s)' = content.key
  <2>1. Max(rowsNext(s)) = n
    <3>1. rowsNext(s) \in SUBSET (1 .. n) /\ n \in rowsNext(s) /\ n \in Nat
      BY <1>6, <1>7
    <3> HIDE DEF rowsNext, n
    <3>2. Max(rowsNext(s)) \in rowsNext(s) /\ n <= Max(rowsNext(s))
      BY <3>1, MaxFacts
    <3>3. QED
      BY <3>1, <3>2
  <2>2. LastKey(x, y, s)' = messages'[x][y][Max(rowsNext(s))].key
    BY <1>7 DEF LastKey
  <2>3. QED
    BY <1>2, <1>6, <2>1, <2>2
<1>9. ASSUME NEW a \in User, NEW b \in User, NEW t \in User, a # x \/ b # y \/ t # s
      PROVE  LastKey(a, b, t)' = LastKey(a, b, t)
  <2>1. CASE a # x \/ b # y
    <3>1. messages'[a][b] = messages[a][b]
      BY <1>5, <2>1
    <3>2. QED
      BY <3>1, Zenon DEF LastKey, ExchangedPair
  <2>2. CASE a = x /\ b = y
    <3>1. t # s /\ rowsNext(t) = rows(t)
      BY <1>7, <1>9, <2>2
    <3>2. rows(t) # {} => Max(rows(t)) \in rows(t) /\ Max(rows(t)) \in 1 .. Len(old)
      <4>1. rows(t) \in SUBSET (1 .. Len(old)) /\ Len(old) \in Nat
        BY <1>6, <1>7
      <4> HIDE DEF rows
      <4>2. QED
        BY <4>1, MaxFacts
    <3>3. rows(t) # {} => messages'[x][y][Max(rows(t))] = old[Max(rows(t))]
      BY <1>6, <3>2
    <3>4. LastKey(x, y, t) = IF rows(t) = {} THEN ExchangedPair(t, IF t = x THEN y ELSE x)
                             ELSE old[Max(rows(t))].key
      BY DEF LastKey
    <3>5. LastKey(x, y, t)' = IF rowsNext(t) = {} THEN ExchangedPair(t, IF t = x THEN y ELSE x)
                              ELSE messages'[x][y][Max(rowsNext(t))].key
      BY DEF LastKey, ExchangedPair
    <3> HIDE DEF rows, rowsNext
    <3>6. QED
      BY <2>2, <3>1, <3>3, <3>4, <3>5
  <2>3. QED
    BY <2>1, <2>2
<1>10. ASSUME NEW a \in User, NEW b \in User
       PROVE  ToldKeys(a, b)' = ToldKeys(a, b) \cup
                  (IF a = x /\ b = y /\ s = x THEN {content.key} ELSE {})
  <2>1. CASE a # x \/ b # y
    BY <1>5, <2>1 DEF ToldKeys, OwnRows, ExchangedPair
  <2>2. CASE a = x /\ b = y
    <3>1. OwnRows(x, y)' = rowsNext(x) /\ OwnRows(x, y) = rows(x)
      BY DEF OwnRows
    <3>2. OwnRows(x, y)' = OwnRows(x, y) \cup (IF s = x THEN {n} ELSE {})
      BY <1>7, <3>1
    <3>3. \A i \in OwnRows(x, y) : messages'[x][y][i] = old[i]
      BY <1>6 DEF OwnRows
    <3>4. messages'[x][y][n].key = content.key
      BY <1>2, <1>6
    <3>5. {messages'[x][y][i].key : i \in OwnRows(x, y)'} =
             {old[i].key : i \in OwnRows(x, y)} \cup (IF s = x THEN {content.key} ELSE {})
      BY <3>2, <3>3, <3>4
    <3>6. QED
      BY <2>2, <3>5 DEF ToldKeys, ExchangedPair
  <2>3. QED
    BY <2>1, <2>2
<1>11. QED
  BY <1>8, <1>9, <1>10

\* What does not change while the tables do not change.
LEMMA SameTable ==
  ASSUME UNCHANGED messages, NEW u, NEW v
  PROVE  /\ PrivateKey(u, v)' = PrivateKey(u, v)
         /\ PublicKey(u, v)' = PublicKey(u, v)
         /\ ToldKeys(u, v)' = ToldKeys(u, v)
  BY Zenon DEF PrivateKey, PublicKey, LastKey, ToldKeys, OwnRows, ExchangedPair

\* ... while an outbox does not change.
LEMMA SameOutbox ==
  ASSUME NEW u, NEW v, outbox'[u] = outbox[u]
  PROVE  /\ Sending(u, v)' = Sending(u, v)
         /\ SendingInOrder(u, v)' <=> SendingInOrder(u, v)
  BY DEF Sending, SendingInOrder, Posted, Content

\* ... while an inbox does not change.
LEMMA SameInbox ==
  ASSUME NEW u, NEW v, inbox'[v] = inbox[v]
  PROVE  /\ Coming(u, v)' = Coming(u, v)
         /\ ComingInOrder(u, v)' <=> ComingInOrder(u, v)
  BY DEF Coming, ComingInOrder, Arrived, Content

\* ... while the message of a main thread does not change.
LEMMA SameMessage ==
  ASSUME NEW u, NEW v, message'[u] = message[u]
  PROVE  Written(u, v)' = Written(u, v)
  BY DEF Written, Content

\* ... while the message of a reader does not change.
LEMMA SameReceived ==
  ASSUME NEW u, NEW v, received'[v] = received[v]
  PROVE  Opened(v, u)' = Opened(v, u)
  BY DEF Opened, Content

\* A step that puts nothing on the way of u to v, and counts what it takes as lost.
LEMMA PairFewer ==
  ASSUME TypeOK, NEW u \in User, NEW v \in User, PairInv(u, v),
         SendingInOrder(u, v)', ComingInOrder(u, v)',
         Opened(v, u)' \subseteq Opened(v, u), Coming(u, v)' \subseteq Coming(u, v),
         Sending(u, v)' \subseteq Sending(u, v), Written(u, v)' \subseteq Written(u, v),
         Way(u, v)' = Way(u, v) \/ <<u, v>> \in missed',
         missed \subseteq missed',
         ToldKeys(u, v)' = ToldKeys(u, v),
         PrivateKey(u, v)' = PrivateKey(u, v), PublicKey(v, u)' = PublicKey(v, u),
         Written(u, v)' # {} => Unstored(u)' = Unstored(u),
         made' \in Nat, made <= made'
  PROVE  PairInv(u, v)'
<1>1. OrderInv(u, v)'
  BY DEF PairInv, OrderInv, Before
<1>2. Way(u, v)' \subseteq Way(u, v)
  BY DEF Way
<1>3. KeyInv(u, v)'
  <2>1. \A k \in ToldKeys(u, v)' : k.by = u /\ k.for = v /\ k.nr <= made'
    BY NumberFacts DEF PairInv, KeyInv
  <2>2. Way(u, v)' # {} => u # v
    BY <1>2 DEF PairInv, KeyInv
  <2>3. ASSUME NEW m \in Written(u, v)'
        PROVE  /\ m.key.by = u /\ m.key.for = v /\ m.key.nr <= made'
               /\ Unstored(u)' => \A k \in ToldKeys(u, v)' : k.nr < m.key.nr
               /\ ~Unstored(u)' => m.key = PrivateKey(u, v)'
    <3>1. m \in Written(u, v) /\ m \in Way(u, v) /\ Unstored(u)' = Unstored(u)
      BY <2>3 DEF Way
    <3>2. m.key.nr \in Nat
      BY <3>1, NumberFacts
    <3>3. QED
      BY <3>1, <3>2, NumberFacts DEF PairInv, KeyInv
  <2>4. QED
    BY <2>1, <2>2, <2>3 DEF KeyInv
<1>4. HeardInv(u, v)'
  BY <1>2 DEF PairInv, HeardInv
<1>5. FollowInv(u, v)'
  BY DEF PairInv, FollowInv
<1>6. QED
  BY <1>1, <1>3, <1>4, <1>5 DEF PairInv

\* A step that changes nothing of this.
LEMMA PairSame ==
  ASSUME TypeOK, NEW u \in User, NEW v \in User, PairInv(u, v),
         SendingInOrder(u, v)', ComingInOrder(u, v)',
         Opened(v, u)' = Opened(v, u), Coming(u, v)' = Coming(u, v),
         Sending(u, v)' = Sending(u, v), Written(u, v)' = Written(u, v),
         missed \subseteq missed',
         ToldKeys(u, v)' = ToldKeys(u, v),
         PrivateKey(u, v)' = PrivateKey(u, v), PublicKey(v, u)' = PublicKey(v, u),
         Written(u, v)' # {} => Unstored(u)' = Unstored(u),
         made' \in Nat, made <= made'
  PROVE  PairInv(u, v)'
<1>1. Way(u, v)' = Way(u, v)
  BY DEF Way
<1>2. QED
  BY <1>1, PairFewer
=============================================================================
