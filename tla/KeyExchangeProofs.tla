-------------------------- MODULE KeyExchangeProofs --------------------------
(***************************************************************************)
(* Theorems about KeyExchange, for every set of users and all bounds.      *)
(***************************************************************************)
EXTENDS KeyExchange, TLAPS

----------------------------------------------------------------------------
(* Sequences *)

\* What Append does, position by position.
LEMMA AppendFacts ==
  ASSUME NEW S, NEW s \in Seq(S), NEW e \in S
  PROVE  /\ Append(s, e) \in Seq(S)
         /\ DOMAIN Append(s, e) = 1 .. (Len(s) + 1)
         /\ \A i \in 1 .. Len(s) : Append(s, e)[i] = s[i]
         /\ Append(s, e)[Len(s) + 1] = e
         /\ Append(s, e) # << >>
  OBVIOUS

\* What Head and Tail do.
LEMMA TailFacts ==
  ASSUME NEW S, NEW s \in Seq(S), s # << >>
  PROVE  /\ Head(s) \in S
         /\ Head(s) = s[1]
         /\ Len(s) \in Nat \ {0}
         /\ Tail(s) \in Seq(S)
         /\ DOMAIN Tail(s) = 1 .. (Len(s) - 1)
         /\ \A i \in 1 .. (Len(s) - 1) : Tail(s)[i] = s[i + 1]
  OBVIOUS

\* What the elements of a sequence are.
LEMMA SeqFacts ==
  ASSUME NEW S, NEW s \in Seq(S)
  PROVE  /\ Len(s) \in Nat
         /\ DOMAIN s = 1 .. Len(s)
         /\ \A i \in DOMAIN s : s[i] \in S
  OBVIOUS

----------------------------------------------------------------------------
(* Type correctness *)

ThreadType == thread \in [User -> [Threads -> Points]]

\* The parts of the type invariant, as they concern the connection, and the table.
ConnType ==
    /\ running \subseteq User
    /\ online \subseteq User
    /\ refusals \in 0 .. MaxRefusals
    /\ isAuthenticatedUser \in [User -> BOOLEAN]
    /\ isLastResponseReaded \in [User -> BOOLEAN]
    /\ lastResponse \in [User -> {"authenticated", "other", NoResponse}]
    /\ isEncryptionEnabled \in [User -> BOOLEAN]
    /\ outbox \in [User -> Seq(Sent)]
    /\ inbox \in [User -> Seq(Frame)]

TableType ==
    /\ requests \in [User -> [User -> Seq(Row)]]
    /\ made \in 0 .. MaxPairs
    /\ making \in [User -> [Threads -> Made]]
    /\ stops \in 0 .. MaxStops
    /\ arrived \in [User -> Made]
    /\ spoiled \subseteq User \X User

\* What a thread has in its hands is in step with where it stands.
Fit ==
    \A u \in User :
        /\ \A t \in Threads : thread[u][t] \in Preparing <=> making[u][t] # Nothing
        /\ thread[u]["main"] \notin {"updating", "window"}
        /\ thread[u]["main"] \in Preparing => isAuthenticatedUser[u]
        /\ thread[u]["reader"] \in {"idle", "window"} <=> arrived[u] = Nothing

\* These are all parts of the type invariant.
LEMMA TypeParts == TypeOK <=> ThreadType /\ ConnType /\ TableType /\ Fit
  BY DEF TypeOK, ThreadType, ConnType, TableType, Fit

\* The same of the next state.
LEMMA TypePartsNext == TypeOK' <=> (ThreadType /\ ConnType /\ TableType /\ Fit)'
  BY DEF TypeOK, ThreadType, ConnType, TableType, Fit

\* The points of the two threads.
LEMMA PointFacts ==
  /\ Threads = {"main", "reader"} /\ "main" # "reader"
  /\ Preparing \subseteq Points
  /\ {"idle", "written", "awaiting", "updating", "window"} \subseteq Points \ Preparing
  BY DEF Threads, Points, Preparing

\* What Goto does.
LEMMA GotoFacts ==
  ASSUME ThreadType, NEW u \in User, NEW t \in Threads, NEW p \in Points, Goto(u, t, p)
  PROVE  /\ ThreadType'
         /\ thread'[u][t] = p
         /\ \A x \in User, s \in Threads : x # u \/ s # t => thread'[x][s] = thread[x][s]
  BY DEF ThreadType, Goto

\* A pair that is being made, and nothing.
LEMMA MadeFacts ==
  /\ Nothing \in Made
  /\ \A v \in User, k \in Pairs :
        [peer |-> v, pair |-> k] \in Made /\ [peer |-> v, pair |-> k] # Nothing
  /\ \A m \in Made : m # Nothing => m.peer \in User /\ m.pair \in Pairs
  /\ Nothing.peer \notin User
<1>1. NoKey \notin User
  BY ExchangeAssumption
<1>2. \A v \in User, k \in Pairs :
         [peer |-> v, pair |-> k] \in Made /\ [peer |-> v, pair |-> k] # Nothing
  BY <1>1 DEF Made, Nothing
<1>3. \A m \in Made : m # Nothing => m.peer \in User /\ m.pair \in Pairs
  BY DEF Made
<1>4. QED
  BY <1>1, <1>2, <1>3 DEF Made, Nothing

\* The initial state has the types.
LEMMA TypeInit == Init => TypeOK
<1> SUFFICES ASSUME Init  PROVE TypeOK
  OBVIOUS
<1>1. ThreadType
  BY PointFacts DEF Init, ConnInit, ThreadType
<1>2. ConnType
  BY ConnectionAssumption DEF Init, ConnInit, ConnType
<1>3. TableType
  BY ExchangeAssumption, MadeFacts DEF Init, TableType
<1>4. Fit
  BY PointFacts DEF Init, ConnInit, Fit
<1>5. QED
  BY <1>1, <1>2, <1>3, <1>4, TypeParts

\* A thread goes on, and has in its hands what belongs to where it stands then.
LEMMA FitStep ==
  ASSUME Fit, ThreadType, NEW u \in User, NEW t \in Threads, NEW p \in Points, Goto(u, t, p),
         \A x \in User, s \in Threads : x # u \/ s # t => making'[x][s] = making[x][s],
         p \in Preparing <=> making'[u][t] # Nothing,
         \A x \in User : x # u \/ t = "main" => arrived'[x] = arrived[x],
         t = "main" => /\ p \notin {"updating", "window"}
                       /\ p \in Preparing => isAuthenticatedUser[u],
         t = "reader" => (p \in {"idle", "window"} <=> arrived'[u] = Nothing),
         \A x \in User : isAuthenticatedUser[x] => isAuthenticatedUser'[x]
  PROVE  Fit'
<1> SUFFICES ASSUME NEW x \in User
             PROVE  /\ \A s \in Threads : thread'[x][s] \in Preparing <=> making'[x][s] # Nothing
                    /\ thread'[x]["main"] \notin {"updating", "window"}
                    /\ thread'[x]["main"] \in Preparing => isAuthenticatedUser'[x]
                    /\ thread'[x]["reader"] \in {"idle", "window"} <=> arrived'[x] = Nothing
  BY DEF Fit
<1>1. \A s \in Threads : x # u \/ s # t => thread'[x][s] = thread[x][s]
  BY GotoFacts
<1>2. thread'[u][t] = p
  BY GotoFacts
<1>3. \A s \in Threads : thread'[x][s] \in Preparing <=> making'[x][s] # Nothing
  BY <1>1, <1>2 DEF Fit
<1>4. thread'[x]["main"] \notin {"updating", "window"}
  BY <1>1, <1>2, PointFacts DEF Fit
<1>5. thread'[x]["main"] \in Preparing => isAuthenticatedUser'[x]
  BY <1>1, <1>2, PointFacts DEF Fit
<1>6. thread'[x]["reader"] \in {"idle", "window"} <=> arrived'[x] = Nothing
  BY <1>1, <1>2, PointFacts DEF Fit
<1>7. QED
  BY <1>3, <1>4, <1>5, <1>6

\* The same when nothing is taken up or put down.
LEMMA FitElsewhere ==
  ASSUME Fit, ThreadType, NEW u \in User, NEW t \in Threads, NEW p \in Points, Goto(u, t, p),
         UNCHANGED <<making, arrived>>,
         thread[u][t] \in Preparing <=> p \in Preparing,
         t = "main" => p \notin {"updating", "window"},
         t = "reader" => (thread[u][t] \in {"idle", "window"} <=> p \in {"idle", "window"}),
         \A x \in User : isAuthenticatedUser[x] => isAuthenticatedUser'[x]
  PROVE  Fit'
<1>1. p \in Preparing <=> making'[u][t] # Nothing
  BY DEF Fit
<1>2. t = "main" /\ p \in Preparing => isAuthenticatedUser[u]
  BY DEF Fit
<1>3. t = "reader" => (p \in {"idle", "window"} <=> arrived'[u] = Nothing)
  BY DEF Fit
<1>4. QED
  BY <1>1, <1>2, <1>3, FitStep

\* The steps of the connection keep the types.
LEMMA TypeConnection ==
  ASSUME TypeOK, NEW u \in User, NEW t \in Threads, UNCHANGED exchangeVars,
         \/ Connect(u) \/ SignIn(u) \/ TakeResponse(u) \/ HandleRead(u)
         \/ ChangeEntry(u) \/ HandleLogin(u)
         \/ DisableEncryption(u, t) \/ EnableEncryption(u, t) \/ ReadResponse(u, t)
  PROVE  TypeOK'
<1>1. ThreadType /\ ConnType /\ TableType /\ Fit
  BY TypeParts
<1>2. TableType' /\ UNCHANGED <<making, arrived>>
  BY <1>1 DEF TableType, exchangeVars
<1>3. ASSUME ConnType', thread' = thread, isAuthenticatedUser' = isAuthenticatedUser
      PROVE  TypeOK'
  BY <1>1, <1>2, <1>3, TypePartsNext DEF ThreadType, Fit
<1>4. ASSUME ConnType', NEW s \in Threads, NEW p \in Points, Goto(u, s, p),
             thread[u][s] \in Preparing <=> p \in Preparing,
             s = "main" => p \notin {"updating", "window"},
             s = "reader" => (thread[u][s] \in {"idle", "window"} <=> p \in {"idle", "window"}),
             \A x \in User : isAuthenticatedUser[x] => isAuthenticatedUser'[x]
      PROVE  TypeOK'
  BY <1>1, <1>2, <1>4, TypePartsNext, GotoFacts, FitElsewhere
<1>5. CASE Connect(u)
  BY <1>1, <1>3, <1>5 DEF Connect, ConnType
<1>6. CASE SignIn(u)
  <2>1. [request |-> [kind |-> "login", to |-> u], plain |-> ~isEncryptionEnabled[u]] \in Sent
    BY <1>1 DEF Sent, Request, ConnType
  <2>2. ConnType'
    BY <1>1, <1>6, <2>1 DEF SignIn, SendRequest, ConnType
  <2>3. QED
    BY <1>4, <1>6, <2>2, PointFacts DEF SignIn, SendRequest, At, Preparing
<1>7. CASE TakeResponse(u)
  <2>1. inbox[u] \in Seq(Frame) /\ inbox[u] # << >>
    BY <1>1, <1>7 DEF ConnType, TakeResponse, HasFrame
  <2>2. Head(inbox[u]) \in Frame /\ Tail(inbox[u]) \in Seq(Frame)
    BY <2>1, TailFacts
  <2>3. Head(inbox[u]).what \in {"authenticated", "other"}
    BY <1>7, <2>2 DEF TakeResponse, HasFrame, Frame
  <2>4. ConnType'
    BY <1>1, <1>7, <2>2, <2>3 DEF TakeResponse, Lower, ConnType
  <2>5. QED
    BY <1>4, <1>7, <2>4, PointFacts DEF TakeResponse, HasFrame, Lower, At, Preparing
<1>8. CASE HandleRead(u)
  <2>1. ConnType'
    BY <1>1, <1>8 DEF HandleRead, ConnType
  <2>2. QED
    BY <1>4, <1>8, <2>1, PointFacts DEF HandleRead, At, Preparing
<1>9. CASE HandleLogin(u)
  <2>1. Answer("authenticated") \in Frame /\ Answer("other") \in Frame
    BY DEF Answer, Frame
  <2>2. /\ inbox[u] \in Seq(Frame) /\ outbox[u] \in Seq(Sent)
        /\ outbox[u] # << >>
    BY <1>1, <1>9 DEF ConnType, HandleLogin
  <2>3. /\ Append(inbox[u], Answer("authenticated")) \in Seq(Frame)
        /\ Append(inbox[u], Answer("other")) \in Seq(Frame)
        /\ Tail(outbox[u]) \in Seq(Sent)
    BY <2>1, <2>2, TailFacts
  <2>4. \/ /\ refusals' = refusals
           /\ inbox' = [inbox EXCEPT ![u] = Append(@, Answer("authenticated"))]
        \/ /\ refusals < MaxRefusals /\ refusals' = refusals + 1
           /\ inbox' = [inbox EXCEPT ![u] = Append(@, Answer("other"))]
    BY <1>9, Zenon DEF HandleLogin
  <2>5. inbox' \in [User -> Seq(Frame)]
    BY <1>1, <2>3, <2>4 DEF ConnType
  <2>6. refusals' \in 0 .. MaxRefusals
    BY <1>1, <2>4, ConnectionAssumption DEF ConnType
  <2>7. outbox' \in [User -> Seq(Sent)]
    BY <1>1, <1>9, <2>3 DEF HandleLogin, ConnType
  <2>8. ConnType'
    BY <1>1, <1>9, <2>5, <2>6, <2>7 DEF HandleLogin, ConnType
  <2>9. QED
    BY <1>3, <1>9, <2>8 DEF HandleLogin
<1>10. CASE DisableEncryption(u, t)
  <2>1. ConnType'
    BY <1>1, <1>10 DEF DisableEncryption, ConnType
  <2>2. QED
    BY <1>4, <1>10, <2>1, PointFacts DEF DisableEncryption, At, Preparing
<1>11. CASE EnableEncryption(u, t)
  <2>1. ConnType'
    BY <1>1, <1>11 DEF EnableEncryption, ConnType
  <2>2. QED
    BY <1>4, <1>11, <2>1, PointFacts DEF EnableEncryption, At, Preparing
<1>12. CASE ReadResponse(u, t)
  <2>1. ConnType' /\ \A x \in User : isAuthenticatedUser[x] => isAuthenticatedUser'[x]
    BY <1>1, <1>12 DEF ReadResponse, ConnType
  <2>2. QED
    BY <1>4, <1>12, <2>1, PointFacts DEF ReadResponse, Awoken, At, Preparing
<1>13. CASE ChangeEntry(u)
  <2>1. online' \subseteq User
    BY <1>1, <1>13 DEF ChangeEntry, ConnType
  <2>2. ConnType'
    BY <1>1, <1>13, <2>1 DEF ChangeEntry, ConnType
  <2>3. QED
    BY <1>3, <1>13, <2>2 DEF ChangeEntry
<1>14. QED
  BY <1>5, <1>6, <1>7, <1>8, <1>9, <1>10, <1>11, <1>12, <1>13

\* Nothing of the connection changes but where a thread stands.
LEMMA TypeQuiet ==
  ASSUME ConnType,
         UNCHANGED <<running, isAuthenticatedUser, isLastResponseReaded, lastResponse,
                     isEncryptionEnabled, outbox, inbox, online, refusals>>
  PROVE  ConnType'
  BY DEF ConnType

\* What a thread makes a request with, and what the reader holds.
LEMMA HandFacts ==
  ASSUME TypeOK, NEW u \in User, NEW t \in Threads
  PROVE  /\ thread[u][t] \in Preparing =>
                making[u][t].peer \in User /\ making[u][t].pair \in Pairs
         /\ arrived[u].peer \in User => arrived[u] # Nothing
         /\ thread[u]["reader"] \notin {"idle", "window"} =>
                arrived[u].peer \in User /\ arrived[u].pair \in Pairs
         /\ arrived[u] # Nothing => arrived[u].peer \in User /\ arrived[u].pair \in Pairs
<1>1. making[u][t] \in Made /\ arrived[u] \in Made
  BY TypeParts DEF TableType
<1>2. QED
  BY <1>1, TypeParts, MadeFacts DEF Fit

\* A key in an inbox.
LEMMA FrameFacts ==
  ASSUME TypeOK, NEW u \in User, HasFrame(u, "key")
  PROVE  /\ inbox[u] \in Seq(Frame) /\ inbox[u] # << >>
         /\ Head(inbox[u]) \in Frame /\ Tail(inbox[u]) \in Seq(Frame)
         /\ Head(inbox[u]).kind = "key"
         /\ Head(inbox[u]).from \in User /\ Head(inbox[u]).pair \in Pairs
         /\ thread[u]["reader"] = "idle"
<1>1. /\ inbox[u] \in Seq(Frame) /\ inbox[u] # << >> /\ Head(inbox[u]).kind = "key"
      /\ thread[u]["reader"] = "idle"
  BY TypeParts DEF ConnType, HasFrame, At
<1>2. Head(inbox[u]) \in Frame /\ Tail(inbox[u]) \in Seq(Frame)
  BY <1>1, TailFacts
<1>3. QED
  BY <1>1, <1>2 DEF Frame

\* A key that the server takes, and what it does with it.
LEMMA RelayFacts ==
  ASSUME TypeOK, NEW u \in User, RelayKey(u)
  PROVE  LET e == Head(outbox[u])
             v == e.request.to
             f == [kind |-> "key", from |-> u, pair |-> e.request.pair]
         IN  /\ outbox[u] \in Seq(Sent) /\ outbox[u] # << >>
             /\ e \in Sent /\ Tail(outbox[u]) \in Seq(Sent)
             /\ outbox' = [outbox EXCEPT ![u] = Tail(@)]
             /\ e.request.kind = "key" /\ v \in User /\ e.request.pair \in Pairs
             /\ f \in Frame /\ Answer("other") \in Frame
             /\ \/ /\ inbox' = [inbox EXCEPT ![v] = Append(@, f), ![u] = Append(@, Answer("other"))]
                   /\ spoiled' = spoiled
                \/ /\ inbox' = [inbox EXCEPT ![u] = Append(@, Answer("other"))]
                   /\ spoiled' = spoiled \cup {<<u, v>>}
             /\ UNCHANGED <<running, thread, isAuthenticatedUser, isLastResponseReaded,
                            lastResponse, isEncryptionEnabled, online, refusals, requests, made,
                            making, stops, arrived>>
<1> DEFINE e == Head(outbox[u])
           v == e.request.to
           f == [kind |-> "key", from |-> u, pair |-> e.request.pair]
<1>1. outbox[u] \in Seq(Sent) /\ outbox[u] # << >> /\ e.request.kind = "key"
  BY TypeParts DEF ConnType, RelayKey
<1>2. e \in Sent /\ Tail(outbox[u]) \in Seq(Sent)
  BY <1>1, TailFacts
<1>3. v \in User /\ e.request.pair \in Pairs
  BY <1>1, <1>2 DEF Sent, Request
<1>4. f \in Frame /\ Answer("other") \in Frame
  BY <1>3 DEF Frame, Answer
<1>5. \/ /\ inbox' = [inbox EXCEPT ![v] = Append(@, f), ![u] = Append(@, Answer("other"))]
         /\ spoiled' = spoiled
      \/ /\ inbox' = [inbox EXCEPT ![u] = Append(@, Answer("other"))]
         /\ spoiled' = spoiled \cup {<<u, v>>}
  BY Zenon DEF RelayKey
<1>6. /\ outbox' = [outbox EXCEPT ![u] = Tail(@)]
      /\ UNCHANGED <<running, thread, isAuthenticatedUser, isLastResponseReaded,
                     lastResponse, isEncryptionEnabled, online, refusals, requests, made,
                     making, stops, arrived>>
  BY DEF RelayKey
<1>7. QED
  BY <1>1, <1>2, <1>3, <1>4, <1>5, <1>6, Zenon

\* Keys are generated on one thread.
LEMMA TypeGenerate ==
  ASSUME ThreadType, Fit, TableType, NEW u \in User, NEW t \in Threads, NEW v \in User,
         Generate(u, t, v), UNCHANGED <<requests, stops, isAuthenticatedUser>>,
         arrived' \in [User -> Made],
         \A x \in User : x # u \/ t = "main" => arrived'[x] = arrived[x],
         t = "main" => isAuthenticatedUser[u],
         t = "reader" => arrived'[u] # Nothing
  PROVE  ThreadType' /\ Fit' /\ TableType'
<1>1. made' = made + 1 /\ made' \in Pairs /\ made' \in 0 .. MaxPairs
  BY ExchangeAssumption DEF Generate, TableType, Pairs
<1> DEFINE m == [peer |-> v, pair |-> made']
<1>2. m \in Made /\ m # Nothing
  BY <1>1, MadeFacts
<1>3. making' = [making EXCEPT ![u][t] = m]
  BY DEF Generate
<1>4. /\ making' \in [User -> [Threads -> Made]] /\ making'[u][t] = m
      /\ \A x \in User, s \in Threads : x # u \/ s # t => making'[x][s] = making[x][s]
  BY <1>2, <1>3 DEF TableType
<1>5. spoiled' \subseteq User \X User
  BY DEF Generate, TableType
<1>6. TableType'
  BY <1>1, <1>4, <1>5 DEF TableType
<1>7. "chosen" \in Preparing /\ "chosen" \in Points /\ Goto(u, t, "chosen")
  BY DEF Preparing, Points, Generate
<1>8. Fit'
  BY <1>2, <1>4, <1>7, FitStep
<1>9. QED
  BY <1>6, <1>7, <1>8, GotoFacts

\* The end of a process.
LEMMA TypeEnd ==
  ASSUME TypeOK, NEW u \in User, End(u)
  PROVE  TypeOK'
<1>1. ThreadType /\ ConnType /\ TableType /\ Fit
  BY TypeParts
<1>2. ThreadType'
  BY <1>1, PointFacts DEF ThreadType, End, Stop
<1>3. ConnType'
  <2>1. << >> \in Seq(Sent) /\ << >> \in Seq(Frame)
    OBVIOUS
  <2>2. /\ outbox' \in [User -> Seq(Sent)]
        /\ inbox' \in [User -> Seq(Frame)]
    BY <1>1, <2>1 DEF ConnType, End, Stop
  <2>3. /\ running' \subseteq User /\ online' \subseteq User /\ refusals' \in 0 .. MaxRefusals
        /\ isAuthenticatedUser' \in [User -> BOOLEAN]
        /\ isLastResponseReaded' \in [User -> BOOLEAN]
        /\ lastResponse' \in [User -> {"authenticated", "other", NoResponse}]
        /\ isEncryptionEnabled' \in [User -> BOOLEAN]
    BY <1>1 DEF ConnType, End, Stop
  <2>4. QED
    BY <2>2, <2>3 DEF ConnType
<1>4. TableType'
  <2>1. making' \in [User -> [Threads -> Made]] /\ arrived' \in [User -> Made]
    BY <1>1, MadeFacts DEF TableType, End
  <2>2. stops' \in 0 .. MaxStops
    BY <1>1, ExchangeAssumption DEF TableType, End
  <2>3. LostBy(u) \subseteq User \X User
    <3>1. \A i \in DOMAIN outbox[u] : outbox[u][i].request.to \in User
      <4>1. \A i \in DOMAIN outbox[u] : outbox[u][i] \in Sent
        BY <1>1, SeqFacts DEF ConnType
      <4>2. QED
        BY <4>1 DEF Sent, Request
    <3>2. \A i \in DOMAIN inbox[u] : inbox[u][i].kind = "key" => inbox[u][i].from \in User
      <4>1. \A i \in DOMAIN inbox[u] : inbox[u][i] \in Frame
        BY <1>1, SeqFacts DEF ConnType
      <4>2. QED
        BY <4>1 DEF Frame
    <3>3. thread[u]["reader"] = "updating" => arrived[u].peer \in User
      BY HandFacts, PointFacts
    <3>4. QED
      BY <3>1, <3>2, <3>3 DEF LostBy
  <2>4. spoiled' \subseteq User \X User
    BY <1>1, <2>3 DEF TableType, End
  <2>5. QED
    BY <1>1, <2>1, <2>2, <2>4 DEF TableType, End
<1>5. Fit'
  <2>1. SUFFICES ASSUME NEW x \in User
                 PROVE  /\ \A s \in Threads :
                              thread'[x][s] \in Preparing <=> making'[x][s] # Nothing
                        /\ thread'[x]["main"] \notin {"updating", "window"}
                        /\ thread'[x]["main"] \in Preparing => isAuthenticatedUser'[x]
                        /\ thread'[x]["reader"] \in {"idle", "window"} <=> arrived'[x] = Nothing
    BY DEF Fit
  <2>2. CASE x = u
    <3>1. \A s \in Threads : thread'[u][s] = "idle" /\ making'[u][s] = Nothing
      BY <1>1 DEF ThreadType, TableType, End, Stop
    <3>2. arrived'[u] = Nothing
      BY <1>1 DEF TableType, End
    <3>3. QED
      BY <2>2, <3>1, <3>2, PointFacts
  <2>3. CASE x # u
    <3>1. /\ thread'[x] = thread[x] /\ making'[x] = making[x] /\ arrived'[x] = arrived[x]
          /\ isAuthenticatedUser'[x] = isAuthenticatedUser[x]
      BY <1>1, <2>3 DEF ThreadType, TableType, ConnType, End, Stop
    <3>2. QED
      BY <1>1, <3>1 DEF Fit
  <2>4. QED
    BY <2>2, <2>3
<1>6. QED
  BY <1>2, <1>3, <1>4, <1>5, TypePartsNext

\* A thread makes a request for keys, step by step.
LEMMA TypeThread ==
  ASSUME TypeOK, NEW u \in User, NEW t \in Threads,
         DeleteRequest(u, t) \/ InsertRequest(u, t) \/ SendKey(u, t)
  PROVE  TypeOK'
<1>1. ThreadType /\ ConnType /\ TableType /\ Fit
  BY TypeParts
<1> DEFINE v == making[u][t].peer
<1>2. thread[u][t] \in Preparing
  BY DEF DeleteRequest, InsertRequest, SendKey, At, Preparing
<1>3. v \in User /\ making[u][t].pair \in Pairs
  BY <1>2, HandFacts
<1>4. requests[u][v] \in Seq(Row)
  BY <1>1, <1>3 DEF TableType
<1>5. CASE DeleteRequest(u, t)
  <2>1. << >> \in Seq(Row)
    OBVIOUS
  <2>2. requests' = [requests EXCEPT ![u][v] = << >>]
    BY <1>5 DEF DeleteRequest
  <2>3. requests' \in [User -> [User -> Seq(Row)]]
    BY <1>1, <1>3, <2>1, <2>2 DEF TableType
  <2>4. TableType'
    BY <1>1, <1>5, <2>3 DEF DeleteRequest, TableType
  <2>5. ConnType'
    BY <1>1, <1>5, TypeQuiet DEF DeleteRequest
  <2>6. Goto(u, t, "deleted") /\ UNCHANGED <<making, arrived, isAuthenticatedUser>>
    BY <1>5 DEF DeleteRequest
  <2>7. "deleted" \in Points /\ "deleted" \in Preparing
    BY DEF Points, Preparing
  <2>8. ThreadType' /\ Fit'
    BY <1>1, <1>2, <2>6, <2>7, PointFacts, GotoFacts, FitElsewhere
  <2>9. QED
    BY <2>4, <2>5, <2>8, TypePartsNext
<1>6. CASE InsertRequest(u, t)
  <2> DEFINE row == [private |-> making[u][t].pair, public |-> NoKey]
  <2>1. row \in Row
    BY <1>3 DEF Row
  <2>2. requests' = [requests EXCEPT ![u][v] = Append(requests[u][v], row)]
    BY <1>6 DEF InsertRequest
  <2> HIDE DEF row
  <2>3. Append(requests[u][v], row) \in Seq(Row)
    BY <1>4, <2>1, AppendFacts
  <2>4. requests' \in [User -> [User -> Seq(Row)]]
    BY <1>1, <1>3, <2>2, <2>3 DEF TableType
  <2>5. TableType'
    BY <1>1, <1>6, <2>4 DEF InsertRequest, TableType
  <2>6. ConnType'
    BY <1>1, <1>6, TypeQuiet DEF InsertRequest
  <2>7. Goto(u, t, "ready") /\ UNCHANGED <<making, arrived, isAuthenticatedUser>>
    BY <1>6 DEF InsertRequest
  <2>8. "ready" \in Points /\ "ready" \in Preparing
    BY DEF Points, Preparing
  <2>9. ThreadType' /\ Fit'
    BY <1>1, <1>2, <2>7, <2>8, PointFacts, GotoFacts, FitElsewhere
  <2>10. QED
    BY <2>5, <2>6, <2>9, TypePartsNext
<1>7. CASE SendKey(u, t)
  <2> DEFINE e == [request |-> [kind |-> "key", to |-> v, pair |-> making[u][t].pair],
                   plain |-> ~isEncryptionEnabled[u]]
  <2>1. e \in Sent
    BY <1>1, <1>3 DEF Sent, Request, ConnType
  <2>2. outbox' = [outbox EXCEPT ![u] = Append(@, e)]
    BY <1>7 DEF SendKey, SendRequest
  <2> HIDE DEF e
  <2>3. outbox' \in [User -> Seq(Sent)]
    <3>1. Append(outbox[u], e) \in Seq(Sent)
      BY <1>1, <2>1, AppendFacts DEF ConnType
    <3>2. QED
      BY <1>1, <2>2, <3>1 DEF ConnType
  <2>4. ConnType'
    BY <1>1, <1>7, <2>3 DEF SendKey, SendRequest, ConnType
  <2>5. making' = [making EXCEPT ![u][t] = Nothing] /\ arrived' = arrived
    BY <1>7 DEF SendKey
  <2>6. /\ making' \in [User -> [Threads -> Made]] /\ making'[u][t] = Nothing
        /\ \A x \in User, s \in Threads : x # u \/ s # t => making'[x][s] = making[x][s]
    BY <1>1, <2>5, MadeFacts DEF TableType
  <2>7. TableType'
    BY <1>1, <1>7, <2>6 DEF SendKey, TableType
  <2>8. PICK p \in {"awaiting", "written"} : Goto(u, t, p)
    BY <1>7 DEF SendKey, SendRequest
  <2>9. thread[u]["reader"] \notin {"idle", "window"} \/ t = "main"
    BY <1>2, PointFacts
  <2>10. isAuthenticatedUser' = isAuthenticatedUser
    BY <1>7 DEF SendKey, SendRequest
  <2>11. p \in Points /\ p \notin Preparing /\ p \notin {"idle", "window", "updating"}
    BY <2>8, PointFacts
  <2>12. t = "reader" => arrived'[u] # Nothing
    BY <1>1, <2>5, <2>9, PointFacts DEF Fit
  <2>13. ThreadType' /\ Fit'
    BY <1>1, <2>5, <2>6, <2>8, <2>10, <2>11, <2>12, GotoFacts, FitStep
  <2>14. QED
    BY <2>4, <2>7, <2>13, TypePartsNext
<1>8. QED
  BY <1>5, <1>6, <1>7

\* The command `request`.
LEMMA TypeRequest ==
  ASSUME TypeOK, NEW u \in User, NEW v \in User, RequestKeys(u, v)
  PROVE  TypeOK'
<1>1. ThreadType /\ ConnType /\ TableType /\ Fit
  BY TypeParts
<1>2. ConnType'
  BY <1>1, TypeQuiet DEF RequestKeys
<1>3. ThreadType' /\ Fit' /\ TableType'
  BY <1>1, PointFacts, TypeGenerate DEF RequestKeys, TableType
<1>4. QED
  BY <1>2, <1>3, TypePartsNext

\* The reader takes a key in.
LEMMA TypeTake ==
  ASSUME TypeOK, NEW u \in User, TakeKey(u)
  PROVE  TypeOK'
<1>1. ThreadType /\ ConnType /\ TableType /\ Fit
  BY TypeParts
<1>2. HasFrame(u, "key")
  BY DEF TakeKey
<1> DEFINE f == Head(inbox[u])
           m == [peer |-> f.from, pair |-> f.pair]
<1>3. /\ f.from \in User /\ f.pair \in Pairs /\ Tail(inbox[u]) \in Seq(Frame)
      /\ thread[u]["reader"] = "idle"
  BY <1>2, FrameFacts
<1>4. arrived' = [arrived EXCEPT ![u] = m]
  BY DEF TakeKey
<1>5. m \in Made /\ m # Nothing
  BY <1>3, MadeFacts
<1>6. /\ arrived' \in [User -> Made] /\ arrived'[u] # Nothing
      /\ \A x \in User : x # u => arrived'[x] = arrived[x]
  BY <1>1, <1>4, <1>5 DEF TableType
<1>7. inbox' \in [User -> Seq(Frame)]
  BY <1>1, <1>3 DEF TakeKey, ConnType
<1>8. ConnType'
  BY <1>1, <1>7 DEF TakeKey, ConnType
<1>9. UNCHANGED <<requests, stops, isAuthenticatedUser>>
  BY DEF TakeKey
<1>10. CASE Goto(u, "reader", "updating") /\ UNCHANGED <<made, making, spoiled>>
  <2>1. TableType'
    BY <1>1, <1>6, <1>9, <1>10 DEF TableType
  <2>2. "updating" \in Points /\ "updating" \notin Preparing /\ making[u]["reader"] = Nothing
    BY <1>1, <1>3, PointFacts DEF Fit
  <2>3. ThreadType' /\ Fit'
    BY <1>1, <1>6, <1>9, <1>10, <2>2, PointFacts, GotoFacts, FitStep
  <2>4. QED
    BY <1>8, <2>1, <2>3, TypePartsNext
<1>11. CASE Generate(u, "reader", f.from)
  <2>1. ThreadType' /\ Fit' /\ TableType'
    BY <1>1, <1>3, <1>6, <1>9, <1>11, PointFacts, TypeGenerate
  <2>2. QED
    BY <1>8, <2>1, TypePartsNext
<1>12. QED
  BY <1>10, <1>11 DEF TakeKey

\* The reader stores a key.
LEMMA TypeStore ==
  ASSUME TypeOK, NEW u \in User, StoreKey(u)
  PROVE  TypeOK'
<1>1. ThreadType /\ ConnType /\ TableType /\ Fit
  BY TypeParts
<1> DEFINE v == arrived[u].peer
           k == arrived[u].pair
           rows == [i \in DOMAIN requests[u][v] |-> [requests[u][v][i] EXCEPT !.public = k]]
<1>2. thread[u]["reader"] = "updating"
  BY DEF StoreKey, At
<1>3. v \in User /\ k \in Pairs
  BY <1>2, HandFacts, PointFacts
<1>4. rows \in Seq(Row)
  <2>1. requests[u][v] \in Seq(Row)
    BY <1>1, <1>3 DEF TableType
  <2>2. Len(requests[u][v]) \in Nat /\ DOMAIN requests[u][v] = 1 .. Len(requests[u][v])
    BY <2>1, SeqFacts
  <2>3. \A i \in DOMAIN requests[u][v] : [requests[u][v][i] EXCEPT !.public = k] \in Row
    <3>1. \A i \in DOMAIN requests[u][v] : requests[u][v][i] \in Row
      BY <2>1, SeqFacts
    <3>2. QED
      BY <1>3, <3>1 DEF Row
  <2>4. rows \in [1 .. Len(requests[u][v]) -> Row]
    BY <2>2, <2>3
  <2>5. QED
    BY <2>2, <2>4
<1>5. requests' = [requests EXCEPT ![u][v] = rows]
  BY DEF StoreKey
<1>6. requests' \in [User -> [User -> Seq(Row)]]
  <2> HIDE DEF rows
  <2> QED
    BY <1>1, <1>3, <1>4, <1>5 DEF TableType
<1>7. arrived' = [arrived EXCEPT ![u] = Nothing] /\ UNCHANGED <<made, making, stops, spoiled>>
  BY DEF StoreKey
<1>8. arrived' \in [User -> Made] /\ arrived'[u] = Nothing
      /\ \A x \in User : x # u => arrived'[x] = arrived[x]
  BY <1>1, <1>7, MadeFacts DEF TableType
<1>9. TableType'
  BY <1>1, <1>6, <1>7, <1>8 DEF TableType
<1>10. Goto(u, "reader", "window") /\ isAuthenticatedUser' = isAuthenticatedUser
  BY DEF StoreKey, Lower
<1>11. ConnType'
  BY <1>1 DEF StoreKey, Lower, ConnType
<1>12. "window" \in Points /\ "window" \notin Preparing /\ making[u]["reader"] = Nothing
  BY <1>1, <1>2, PointFacts DEF Fit
<1>13. ThreadType' /\ Fit'
  BY <1>1, <1>7, <1>8, <1>10, <1>12, PointFacts, GotoFacts, FitStep
<1>14. QED
  BY <1>9, <1>11, <1>13, TypePartsNext

\* The server relays a key.
LEMMA TypeRelay ==
  ASSUME TypeOK, NEW u \in User, RelayKey(u)
  PROVE  TypeOK'
<1>1. ThreadType /\ ConnType /\ TableType /\ Fit
  BY TypeParts
<1> DEFINE e == Head(outbox[u])
           f == [kind |-> "key", from |-> u, pair |-> e.request.pair]
<1>2. PICK v \in User : v = e.request.to
  BY RelayFacts
<1>3. f \in Frame /\ Answer("other") \in Frame /\ Tail(outbox[u]) \in Seq(Sent)
  BY RelayFacts
<1>4. \/ inbox' = [inbox EXCEPT ![v] = Append(@, f), ![u] = Append(@, Answer("other"))]
      \/ inbox' = [inbox EXCEPT ![u] = Append(@, Answer("other"))]
  BY <1>2, RelayFacts, Zenon
<1>5. inbox' \in [User -> Seq(Frame)]
  <2> HIDE DEF f
  <2>1. inbox \in [User -> Seq(Frame)]
    BY <1>1 DEF ConnType
  <2>2. /\ Append(inbox[v], f) \in Seq(Frame)
        /\ Append(inbox[u], Answer("other")) \in Seq(Frame)
        /\ Append(Append(inbox[u], f), Answer("other")) \in Seq(Frame)
    BY <1>3, <2>1, AppendFacts
  <2>3. QED
    BY <1>4, <2>1, <2>2
<1>6. outbox' = [outbox EXCEPT ![u] = Tail(@)]
  BY RelayFacts
<1>7. outbox' \in [User -> Seq(Sent)]
  BY <1>1, <1>3, <1>6 DEF ConnType
<1>8. UNCHANGED <<running, thread, isAuthenticatedUser, isLastResponseReaded, lastResponse,
                  isEncryptionEnabled, online, refusals, requests, made, making, stops, arrived>>
  BY RelayFacts
<1>9. spoiled' = spoiled \/ spoiled' = spoiled \cup {<<u, v>>}
  BY <1>2, RelayFacts
<1>10. ConnType'
  BY <1>1, <1>5, <1>7, <1>8 DEF ConnType
<1>11. TableType'
  BY <1>1, <1>8, <1>9 DEF TableType
<1>12. ThreadType' /\ Fit'
  BY <1>1, <1>8 DEF ThreadType, Fit
<1>13. QED
  BY <1>10, <1>11, <1>12, TypePartsNext

\* Every step keeps the types.
LEMMA TypeNext == TypeOK /\ [Next]_vars => TypeOK'
<1> SUFFICES ASSUME TypeOK, [Next]_vars  PROVE TypeOK'
  OBVIOUS
<1>1. ASSUME NEW u \in User, UserStep(u)  PROVE TypeOK'
  BY <1>1, TypeConnection, TypeRequest, TypeEnd, PointFacts DEF UserStep
<1>2. ASSUME NEW u \in User, NEW t \in Threads, ThreadStep(u, t)  PROVE TypeOK'
  BY <1>2, TypeConnection, TypeThread DEF ThreadStep
<1>3. ASSUME NEW u \in User, ReaderStep(u)  PROVE TypeOK'
  BY <1>3, TypeConnection, TypeTake, TypeStore, PointFacts DEF ReaderStep
<1>4. ASSUME NEW u \in User, ServerStep(u)  PROVE TypeOK'
  BY <1>4, TypeConnection, TypeRelay, PointFacts DEF ServerStep
<1>5. CASE UNCHANGED vars
  BY <1>5 DEF vars, connVars, exchangeVars, TypeOK, Preparing
<1>6. QED
  BY <1>1, <1>2, <1>3, <1>4, <1>5 DEF Next

\* The variables of the key exchange keep their types, and what a thread or the reader has in
\* its hands is in step with the statement at which it stands (createRequest, exchangeKeys).
THEOREM TypeCorrect == Spec => []TypeOK
<1>1. QED
  BY TypeInit, TypeNext, PTL DEF Spec
----------------------------------------------------------------------------
(* The flag that a response is there *)

\* The flag is down only in the window between two statements of the reader.
FlagInv == \A u \in running : ~isLastResponseReaded[u] => thread[u]["reader"] = "window"

\* No step but handleRead, which raises the flag, takes the reader out of the window.
LEMMA FlagNext == TypeOK /\ FlagInv /\ [Next]_vars => FlagInv'
<1> SUFFICES ASSUME TypeOK, FlagInv, [Next]_vars  PROVE FlagInv'
  OBVIOUS
<1>1. ThreadType /\ ConnType
  BY TypeParts
<1>2. ASSUME UNCHANGED <<running, isLastResponseReaded, thread>>  PROVE FlagInv'
  BY <1>2 DEF FlagInv
<1>3. ASSUME UNCHANGED <<running, isLastResponseReaded>>,
             NEW x \in User, NEW t \in Threads, NEW p \in Points, Goto(x, t, p),
             t = "reader" => thread[x][t] # "window"
      PROVE  FlagInv'
  <2>1. \A u \in User : thread[u]["reader"] = "window" => thread'[u]["reader"] = "window"
    BY <1>1, <1>3, GotoFacts, PointFacts
  <2>2. QED
    BY <1>1, <1>3, <2>1 DEF FlagInv, ConnType
<1>4. ASSUME NEW x \in User, NEW t \in Threads, t = "main", NEW v \in User, Generate(x, t, v),
             UNCHANGED <<running, isLastResponseReaded>>
      PROVE  FlagInv'
  BY <1>3, <1>4, PointFacts DEF Generate, Points
<1>5. ASSUME NEW x \in User, UserStep(x)  PROVE FlagInv'
  <2>1. CASE Connect(x)
    BY <1>1, <2>1 DEF Connect, ConnType, FlagInv
  <2>2. CASE SignIn(x)
    BY <1>3, <2>2, PointFacts DEF SignIn, SendRequest
  <2>3. ASSUME NEW v \in User, RequestKeys(x, v)  PROVE FlagInv'
    BY <1>4, <2>3, PointFacts DEF RequestKeys
  <2>4. CASE End(x)
    BY <1>1, <2>4 DEF End, Stop, ThreadType, ConnType, FlagInv
  <2>5. QED
    BY <1>5, <2>1, <2>2, <2>3, <2>4 DEF UserStep
<1>6. ASSUME NEW x \in User, NEW t \in Threads, ThreadStep(x, t)  PROVE FlagInv'
  <2>1. /\ running' = running /\ isLastResponseReaded' = isLastResponseReaded
        /\ \E p, q \in Points : thread[x][t] = p /\ p # "window" /\ Goto(x, t, q)
    BY <1>6, PointFacts
       DEF ThreadStep, DisableEncryption, EnableEncryption, ReadResponse, Awoken, DeleteRequest,
           InsertRequest, SendKey, SendRequest, At, Points
  <2>2. QED
    BY <1>3, <2>1
<1>7. ASSUME NEW x \in User, ReaderStep(x)  PROVE FlagInv'
  <2>1. CASE TakeResponse(x) \/ StoreKey(x)
    <3>1. /\ running' = running /\ Goto(x, "reader", "window")
          /\ isLastResponseReaded' = [isLastResponseReaded EXCEPT ![x] = FALSE]
      BY <2>1 DEF TakeResponse, StoreKey, Lower
    <3>2. QED
      BY <1>1, <3>1, PointFacts DEF Goto, ThreadType, ConnType, FlagInv
  <2>2. CASE HandleRead(x)
    BY <1>1, <2>2 DEF HandleRead, Goto, ThreadType, ConnType, FlagInv
  <2>3. CASE TakeKey(x)
    <3>1. /\ running' = running /\ isLastResponseReaded' = isLastResponseReaded
          /\ thread[x]["reader"] = "idle"
          /\ Goto(x, "reader", "updating") \/ Goto(x, "reader", "chosen")
      BY <2>3 DEF TakeKey, HasFrame, At, Generate
    <3>2. QED
      BY <1>3, <3>1, PointFacts DEF Points
  <2>4. QED
    BY <1>7, <2>1, <2>2, <2>3 DEF ReaderStep
<1>8. ASSUME NEW x \in User, ServerStep(x)  PROVE FlagInv'
  BY <1>2, <1>8 DEF ServerStep, ChangeEntry, HandleLogin, RelayKey
<1>9. CASE UNCHANGED vars
  BY <1>2, <1>9 DEF vars, connVars
<1>10. QED
  BY <1>5, <1>6, <1>7, <1>8, <1>9 DEF Next

\* With the flag up, a reader that waits for it to go down is not moved by any thread.
LEMMA WaitingReader ==
  ASSUME TypeOK, FlagInv, [Next]_vars, NEW u \in User, thread[u]["reader"] = "awaiting"
  PROVE  thread'[u]["reader"] = "awaiting" \/ u \notin running'
<1> DEFINE Waits == thread'[u]["reader"] = "awaiting" \/ u \notin running'
<1>1. ThreadType /\ ConnType
  BY TypeParts
<1>2. CASE thread' = thread
  BY <1>2
<1>3. ASSUME NEW x \in User, NEW t \in Threads, NEW p \in Points, Goto(x, t, p),
             x # u \/ t # "reader" \/ p = "awaiting"
      PROVE  Waits
  BY <1>1, <1>3, GotoFacts, PointFacts
<1>4. ASSUME NEW x \in User, UserStep(x)  PROVE Waits
  <2>1. CASE Connect(x)
    BY <1>2, <2>1 DEF Connect
  <2>2. CASE SignIn(x)
    BY <1>3, <2>2, PointFacts DEF SignIn, SendRequest
  <2>3. ASSUME NEW v \in User, RequestKeys(x, v)  PROVE Waits
    BY <1>3, <2>3, PointFacts DEF RequestKeys, Generate, Points
  <2>4. CASE End(x)
    BY <1>1, <2>4 DEF End, Stop, ThreadType
  <2>5. QED
    BY <1>4, <2>1, <2>2, <2>3, <2>4 DEF UserStep
<1>5. ASSUME NEW x \in User, NEW t \in Threads, ThreadStep(x, t)  PROVE Waits
  <2>1. CASE ReadResponse(x, t)
    <3>1. t = "reader" => x # u
      BY <2>1 DEF ReadResponse, Awoken, At, FlagInv
    <3>2. QED
      BY <1>3, <2>1, <3>1, PointFacts DEF ReadResponse
  <2>2. CASE ~ReadResponse(x, t)
    <3>1. \E p, q \in Points : thread[x][t] = p /\ p # "awaiting" /\ Goto(x, t, q)
      BY <1>5, <2>2, PointFacts
         DEF ThreadStep, DisableEncryption, EnableEncryption, DeleteRequest, InsertRequest,
             SendKey, SendRequest, At, Points
    <3>2. QED
      BY <1>3, <3>1
  <2>3. QED
    BY <2>1, <2>2
<1>6. ASSUME NEW x \in User, ReaderStep(x)  PROVE Waits
  <2>1. \E p, q \in Points : thread[x]["reader"] = p /\ p # "awaiting" /\ Goto(x, "reader", q)
    BY <1>6
       DEF ReaderStep, TakeResponse, HandleRead, TakeKey, StoreKey, HasFrame, Lower, Generate, At,
           Points
  <2>2. QED
    BY <1>3, <2>1, PointFacts
<1>7. ASSUME NEW x \in User, ServerStep(x)  PROVE Waits
  BY <1>2, <1>7 DEF ServerStep, ChangeEntry, HandleLogin, RelayKey
<1>8. CASE UNCHANGED vars
  BY <1>2, <1>8 DEF vars, connVars
<1>9. QED
  BY <1>4, <1>5, <1>6, <1>7, <1>8 DEF Next

\* The flag and the types hold together from the start.
LEMMA FlagAlways == Spec => [](TypeOK /\ FlagInv)
<1>1. Init => TypeOK /\ FlagInv
  BY TypeInit DEF Init, ConnInit, FlagInv
<1>2. (TypeOK /\ FlagInv) /\ [Next]_vars => (TypeOK /\ FlagInv)'
  BY TypeNext, FlagNext
<1>3. QED
  BY <1>1, <1>2, PTL DEF Spec

\* A reader that agreed to an exchange never gets on to the UPDATE, nor to the frames
\* behind the one it read: it waits in readResponse until its process ends.
THEOREM AgreementAlwaysBlocks == Spec => AgreementBlocks
<1> DEFINE Waits ==
        \A u \in User :
           thread[u]["reader"] = "awaiting" =>
               thread'[u]["reader"] = "awaiting" \/ u \notin running'
<1>1. (TypeOK /\ FlagInv) /\ [Next]_vars => [Waits]_vars
  BY WaitingReader
<1>2. QED
  BY <1>1, FlagAlways, PTL DEF Spec, AgreementBlocks

----------------------------------------------------------------------------
(* Exchanges that have become one-sided *)

\* There is no key for v among the requests, none of u among the frames, and one in the rows.
NoneFor(v, sent) ==
    \A i \in DOMAIN sent : sent[i].request.kind = "key" => sent[i].request.to # v
NoneOf(u, frames) == \A i \in DOMAIN frames : frames[i].kind = "key" => frames[i].from # u
Holds(rows) == \E i \in DOMAIN rows : rows[i].public # NoKey

\* The parts of OneSided, of which each step disturbs a few.
Parts(u, v) ==
    /\ Holds(requests[v][u]) /\ ~Holds(requests[u][v])
    /\ Preparers(v, u) = {}
    /\ NoneFor(u, outbox[v])
    /\ NoneOf(v, inbox[u])
    /\ thread[u]["reader"] = "updating" => arrived[u].peer # v

\* OneSided is all of them.
LEMMA PartsFacts ==
  \A u, v \in User : OneSided(u, v) <=> Parts(u, v)
  BY DEF OneSided, Parts, HasExchanged, Settled, Holds, NoneFor, NoneOf

\* The same of the next state.
LEMMA PartsNext ==
  \A u, v \in User : OneSided(u, v)' <=> Parts(u, v)'
  BY DEF OneSided, Parts, HasExchanged, Settled, Holds, NoneFor, NoneOf

\* A queue of requests that moves on has no key for v unless one is put there.
LEMMA NoneForQueue ==
  ASSUME NEW s \in Seq(Sent), NEW v \in User, NoneFor(v, s)
  PROVE  /\ s # << >> => NoneFor(v, Tail(s))
         /\ \A e \in Sent :
               (e.request.kind = "key" => e.request.to # v) => NoneFor(v, Append(s, e))
<1>1. s # << >> => NoneFor(v, Tail(s))
  BY TailFacts, SeqFacts DEF NoneFor
<1>2. ASSUME NEW e \in Sent, e.request.kind = "key" => e.request.to # v
      PROVE  NoneFor(v, Append(s, e))
  BY <1>2, AppendFacts, SeqFacts DEF NoneFor
<1>3. QED
  BY <1>1, <1>2

\* The same of a queue of frames.
LEMMA NoneOfQueue ==
  ASSUME NEW s \in Seq(Frame), NEW u \in User, NoneOf(u, s)
  PROVE  /\ s # << >> => NoneOf(u, Tail(s))
         /\ \A e \in Frame : (e.kind = "key" => e.from # u) => NoneOf(u, Append(s, e))
<1>1. s # << >> => NoneOf(u, Tail(s))
  BY TailFacts, SeqFacts DEF NoneOf
<1>2. ASSUME NEW e \in Frame, e.kind = "key" => e.from # u
      PROVE  NoneOf(u, Append(s, e))
  BY <1>2, AppendFacts, SeqFacts DEF NoneOf
<1>3. QED
  BY <1>1, <1>2

\* A step that only moves a thread and the queues, and neither begins a request nor comes to
\* an UPDATE, keeps the exchange one-sided.
LEMMA OneSidedMove ==
  ASSUME TypeOK, NEW u \in User, NEW v \in User, Parts(u, v),
         UNCHANGED <<requests, making, arrived>>,
         \/ thread' = thread
         \/ \E x \in User, t \in Threads, p \in Points :
               /\ Goto(x, t, p)
               /\ p \in Preparing => thread[x][t] \in Preparing
               /\ p # "updating",
         NoneFor(u, outbox'[v]), NoneOf(v, inbox'[u])
  PROVE  Parts(u, v)'
<1>1. CASE thread' = thread
  BY <1>1 DEF Parts, Preparers
<1>2. ASSUME NEW x \in User, NEW t \in Threads, NEW p \in Points, Goto(x, t, p),
             p \in Preparing => thread[x][t] \in Preparing, p # "updating"
      PROVE  Parts(u, v)'
  <2>1. \A y \in User, s \in Threads :
           /\ thread'[y][s] \in Preparing => thread[y][s] \in Preparing
           /\ thread'[y][s] = "updating" => thread[y][s] = "updating"
    BY <1>2, GotoFacts, TypeParts
  <2>2. Preparers(v, u)' = {}
    BY <2>1 DEF Preparers, Parts
  <2>3. QED
    BY <2>1, <2>2, PointFacts DEF Parts
<1>3. QED
  BY <1>1, <1>2

\* A connection's own steps, with the flag as it is when a thread waits for it.
LEMMA OneSidedConnection ==
  ASSUME TypeOK, FlagInv, NEW u \in User, NEW v \in User, Parts(u, v), UNCHANGED exchangeVars,
         NEW x \in User, NEW t \in Threads,
         \/ Connect(x) \/ SignIn(x) \/ TakeResponse(x) \/ HandleRead(x)
         \/ ChangeEntry(x) \/ HandleLogin(x)
         \/ DisableEncryption(x, t) \/ EnableEncryption(x, t) \/ ReadResponse(x, t)
  PROVE  Parts(u, v)'
<1>1. UNCHANGED <<requests, making, arrived>>
  BY DEF exchangeVars
<1>2. \A y \in User : inbox[y] \in Seq(Frame) /\ outbox[y] \in Seq(Sent)
  BY TypeParts DEF ConnType
<1>3. inbox \in [User -> Seq(Frame)] /\ outbox \in [User -> Seq(Sent)]
  BY TypeParts DEF ConnType
<1>4. \/ thread' = thread
      \/ \E s \in Threads, p \in Points :
            /\ Goto(x, s, p)
            /\ p \in Preparing => thread[x][s] \in Preparing
            /\ p # "updating"
  <2>1. CASE Connect(x) \/ ChangeEntry(x) \/ HandleLogin(x)
    BY <2>1 DEF Connect, ChangeEntry, HandleLogin
  <2>2. CASE SignIn(x) \/ DisableEncryption(x, t) \/ EnableEncryption(x, t)
    BY <2>2, PointFacts
       DEF SignIn, SendRequest, DisableEncryption, EnableEncryption, At, Points, Preparing
  <2>3. CASE TakeResponse(x) \/ HandleRead(x)
    BY <2>3, PointFacts DEF TakeResponse, HandleRead, Lower, Points, Preparing
  <2>4. CASE ReadResponse(x, t)
    <3>1. t = "main"
      BY <2>4, PointFacts DEF ReadResponse, Awoken, At, FlagInv
    <3>2. QED
      BY <2>4, <3>1, PointFacts DEF ReadResponse, Points
  <2>5. QED
    BY <2>1, <2>2, <2>3, <2>4
<1>5. NoneFor(u, outbox'[v])
  <2>1. CASE SignIn(x)
    <3> DEFINE e == [request |-> [kind |-> "login", to |-> x], plain |-> ~isEncryptionEnabled[x]]
    <3>1. e \in Sent /\ e.request.kind # "key"
      BY TypeParts DEF Sent, Request, ConnType
    <3>2. outbox'[v] = outbox[v] \/ outbox'[v] = Append(outbox[v], e)
      BY <1>3, <2>1 DEF SignIn, SendRequest
    <3>3. QED
      BY <1>2, <3>1, <3>2, NoneForQueue DEF Parts
  <2>2. CASE HandleLogin(x)
    <3>1. outbox'[v] = outbox[v] \/ (outbox[v] # << >> /\ outbox'[v] = Tail(outbox[v]))
      BY <1>3, <2>2 DEF HandleLogin
    <3>2. QED
      BY <1>2, <3>1, NoneForQueue DEF Parts
  <2>3. CASE outbox' = outbox
    BY <2>3 DEF Parts
  <2>4. QED
    BY <2>1, <2>2, <2>3
       DEF Connect, TakeResponse, HandleRead, ChangeEntry, DisableEncryption, EnableEncryption,
           ReadResponse
<1>6. NoneOf(v, inbox'[u])
  <2>1. CASE TakeResponse(x)
    <3>1. inbox'[u] = inbox[u] \/ (inbox[u] # << >> /\ inbox'[u] = Tail(inbox[u]))
      BY <1>3, <2>1 DEF TakeResponse, HasFrame
    <3>2. QED
      BY <1>2, <3>1, NoneOfQueue DEF Parts
  <2>2. CASE HandleLogin(x)
    <3>1. \A what \in {"authenticated", "other"} :
             Answer(what) \in Frame /\ Answer(what).kind # "key"
      BY DEF Answer, Frame
    <3>2. \/ inbox' = [inbox EXCEPT ![x] = Append(@, Answer("authenticated"))]
          \/ inbox' = [inbox EXCEPT ![x] = Append(@, Answer("other"))]
      BY <2>2 DEF HandleLogin
    <3>3. \/ inbox'[u] = inbox[u]
          \/ inbox'[u] = Append(inbox[u], Answer("authenticated"))
          \/ inbox'[u] = Append(inbox[u], Answer("other"))
      BY <1>3, <3>2
    <3>4. QED
      BY <1>2, <3>1, <3>3, NoneOfQueue DEF Parts
  <2>3. CASE inbox' = inbox
    BY <2>3 DEF Parts
  <2>4. QED
    BY <2>1, <2>2, <2>3
       DEF Connect, SignIn, SendRequest, HandleRead, ChangeEntry, DisableEncryption,
           EnableEncryption, ReadResponse
<1>7. QED
  BY <1>1, <1>4, <1>5, <1>6, OneSidedMove

\* Keys are generated for another pair of users.
LEMMA OneSidedGenerate ==
  ASSUME TypeOK, NEW u \in User, NEW v \in User, Parts(u, v),
         NEW x \in User, NEW t \in Threads, NEW w \in User, x # v \/ w # u,
         Generate(x, t, w), UNCHANGED <<requests, outbox>>, NoneOf(v, inbox'[u]),
         arrived'[u] = arrived[u] \/ (x = u /\ t = "reader")
  PROVE  Parts(u, v)'
<1>1. making \in [User -> [Threads -> Made]] /\ ThreadType
  BY TypeParts DEF TableType
<1>2. /\ thread'[x][t] = "chosen"
      /\ \A y \in User, s \in Threads : y # x \/ s # t => thread'[y][s] = thread[y][s]
  BY <1>1, GotoFacts DEF Generate, Points
<1>3. making' = [making EXCEPT ![x][t] = [peer |-> w, pair |-> made']]
  BY DEF Generate
<1>4. /\ making'[x][t].peer = w
      /\ \A y \in User, s \in Threads : y # x \/ s # t => making'[y][s] = making[y][s]
  BY <1>1, <1>3
<1>5. Preparers(v, u)' = {}
  BY <1>2, <1>4 DEF Preparers, Parts
<1>6. thread'[u]["reader"] = "updating" => arrived'[u].peer # v
  BY <1>2, PointFacts DEF Parts
<1>7. QED
  BY <1>5, <1>6 DEF Parts

\* DELETE and INSERT, of a request for another pair of users or of u's own.
LEMMA OneSidedRequest ==
  ASSUME TypeOK, NEW u \in User, NEW v \in User, Parts(u, v), NEW x \in User, NEW t \in Threads,
         DeleteRequest(x, t) \/ InsertRequest(x, t)
  PROVE  Parts(u, v)'
<1>1. thread[x][t] \in Preparing
  BY DEF DeleteRequest, InsertRequest, At, Preparing
<1>2. PICK w \in User : w = making[x][t].peer
  BY <1>1, HandFacts
<1>3. x # v \/ w # u
  BY <1>1, <1>2 DEF Parts, Preparers
<1> DEFINE row == [private |-> making[x][t].pair, public |-> NoKey]
<1>4. \/ requests' = [requests EXCEPT ![x][w] = << >>]
      \/ requests' = [requests EXCEPT ![x][w] = Append(@, row)]
  BY <1>2 DEF DeleteRequest, InsertRequest
<1>5. requests[x][w] \in Seq(Row) /\ row \in Row /\ row.public = NoKey
  BY <1>1, HandFacts, TypeParts DEF TableType, Row
<1> HIDE DEF row
<1>6. ~Holds(requests[x][w]) => ~Holds(Append(requests[x][w], row))
  BY <1>5, AppendFacts, SeqFacts DEF Holds
<1>7. \/ requests' = [requests EXCEPT ![x][w] = << >>]
      \/ requests' = [requests EXCEPT ![x][w] = Append(requests[x][w], row)]
  BY <1>4, TypeParts DEF TableType
<1>8. /\ ~Holds(requests[x][w]) => ~Holds(requests'[x][w])
      /\ \A y, z \in User : y # x \/ z # w => requests'[y][z] = requests[y][z]
  <2>1. requests \in [User -> [User -> Seq(Row)]]
    BY TypeParts DEF TableType
  <2>2. requests'[x][w] = << >> \/ requests'[x][w] = Append(requests[x][w], row)
    BY <1>7, <2>1
  <2>3. ~Holds(<< >>)
    BY DEF Holds
  <2>4. ~Holds(requests[x][w]) => ~Holds(requests'[x][w])
    BY <1>6, <2>2, <2>3, Zenon
  <2>5. \A y, z \in User : y # x \/ z # w => requests'[y][z] = requests[y][z]
    <3>1. \A rows : requests' = [requests EXCEPT ![x][w] = rows] =>
             \A y, z \in User : y # x \/ z # w => requests'[y][z] = requests[y][z]
      BY <2>1
    <3>2. QED
      BY <1>7, <3>1, Zenon
  <2>6. QED
    BY <2>4, <2>5
<1>9. Holds(requests'[v][u]) /\ ~Holds(requests'[u][v])
  BY <1>3, <1>8 DEF Parts
<1>10. UNCHANGED <<making, arrived, outbox, inbox>>
  BY DEF DeleteRequest, InsertRequest
<1>11. \A y \in User, s \in Threads :
          /\ thread'[y][s] \in Preparing => thread[y][s] \in Preparing
          /\ thread'[y][s] = "updating" => thread[y][s] = "updating"
  <2>1. Goto(x, t, "deleted") \/ Goto(x, t, "ready")
    BY DEF DeleteRequest, InsertRequest
  <2>2. QED
    BY <1>1, <2>1, GotoFacts, TypeParts DEF Points
<1>12. Preparers(v, u)' = {}
  BY <1>10, <1>11 DEF Preparers, Parts
<1>13. QED
  BY <1>9, <1>10, <1>11, <1>12, PointFacts DEF Parts

\* A request goes out, for another pair of users or from u.
LEMMA OneSidedSend ==
  ASSUME TypeOK, NEW u \in User, NEW v \in User, Parts(u, v), NEW x \in User, NEW t \in Threads,
         SendKey(x, t)
  PROVE  Parts(u, v)'
<1>1. thread[x][t] \in Preparing
  BY DEF SendKey, At, Preparing
<1>2. PICK w \in User : w = making[x][t].peer
  BY <1>1, HandFacts
<1>3. x # v \/ w # u
  BY <1>1, <1>2 DEF Parts, Preparers
<1> DEFINE e == [request |-> [kind |-> "key", to |-> w, pair |-> making[x][t].pair],
                 plain |-> ~isEncryptionEnabled[x]]
<1>4. e \in Sent /\ e.request.to = w
  BY <1>1, HandFacts, TypeParts DEF Sent, Request, ConnType
<1>5. outbox' = [outbox EXCEPT ![x] = Append(@, e)]
  BY <1>2 DEF SendKey, SendRequest
<1> HIDE DEF e
<1>6. NoneFor(u, outbox'[v])
  <2>1. outbox \in [User -> Seq(Sent)]
    BY TypeParts DEF ConnType
  <2>2. outbox[v] \in Seq(Sent)
    BY <2>1
  <2>3. CASE x # v
    BY <1>5, <2>1, <2>3 DEF Parts
  <2>4. CASE x = v
    <3>1. outbox'[v] = Append(outbox[v], e)
      BY <1>5, <2>1, <2>4
    <3>2. QED
      BY <1>3, <1>4, <2>2, <2>4, <3>1, NoneForQueue DEF Parts
  <2>5. QED
    BY <2>3, <2>4
<1>7. UNCHANGED <<requests, arrived, inbox>> /\ making' = [making EXCEPT ![x][t] = Nothing]
  BY DEF SendKey, SendRequest
<1>8. \A y \in User, s \in Threads :
         /\ thread'[y][s] \in Preparing => thread[y][s] \in Preparing
         /\ thread'[y][s] = "updating" => thread[y][s] = "updating"
  <2>1. Goto(x, t, "awaiting") \/ Goto(x, t, "written")
    BY DEF SendKey, SendRequest
  <2>2. QED
    BY <2>1, GotoFacts, TypeParts, PointFacts
<1>9. \A y \in User, s \in Threads : making'[y][s] = making[y][s] \/ making'[y][s] = Nothing
  BY <1>7, TypeParts DEF TableType
<1>10. Preparers(v, u)' = {}
  BY <1>8, <1>9, MadeFacts DEF Preparers, Parts
<1>11. QED
  BY <1>6, <1>7, <1>8, <1>10, PointFacts DEF Parts

\* A key is read, by u from another user, or by somebody else.
LEMMA OneSidedTake ==
  ASSUME TypeOK, NEW u \in User, NEW v \in User, Parts(u, v), NEW x \in User, TakeKey(x)
  PROVE  Parts(u, v)'
<1> DEFINE f == Head(inbox[x])
           m == [peer |-> f.from, pair |-> f.pair]
<1>1. HasFrame(x, "key")
  BY DEF TakeKey
<1>2. /\ inbox[x] \in Seq(Frame) /\ inbox[x] # << >> /\ f.kind = "key"
      /\ f.from \in User /\ thread[x]["reader"] = "idle"
  BY <1>1, FrameFacts
<1>3. /\ inbox \in [User -> Seq(Frame)] /\ outbox' = outbox /\ requests' = requests
      /\ inbox' = [inbox EXCEPT ![x] = Tail(@)]
      /\ arrived \in [User -> Made] /\ arrived' = [arrived EXCEPT ![x] = m]
  BY TypeParts DEF TakeKey, ConnType, TableType
<1>4. NoneOf(v, inbox'[u])
  BY <1>2, <1>3, NoneOfQueue DEF Parts
<1>5. x = u => f.from # v
  <2>1. f = inbox[x][1] /\ 1 \in DOMAIN inbox[x]
    BY <1>2, TailFacts, SeqFacts
  <2>2. QED
    BY <1>2, <2>1 DEF Parts, NoneOf
<1>6. CASE Goto(x, "reader", "updating") /\ making' = making
  <2>1. /\ thread'[x]["reader"] = "updating"
        /\ \A y \in User, s \in Threads : y # x \/ s # "reader" => thread'[y][s] = thread[y][s]
    BY <1>6, GotoFacts, TypeParts, PointFacts
  <2>2. Preparers(v, u)' = {}
    BY <1>6, <2>1, PointFacts DEF Preparers, Parts
  <2>3. thread'[u]["reader"] = "updating" => arrived'[u].peer # v
    BY <1>3, <1>5, <2>1, PointFacts DEF Parts
  <2>4. QED
    BY <1>3, <1>4, <2>2, <2>3 DEF Parts
<1>7. CASE requests[x][f.from] = << >> /\ Generate(x, "reader", f.from)
  <2>1. x # v \/ f.from # u
    BY <1>7 DEF Parts, Holds
  <2>2. arrived'[u] = arrived[u] \/ x = u
    BY <1>3
  <2>3. QED
    BY <1>2, <1>3, <1>4, <1>7, <2>1, <2>2, PointFacts, OneSidedGenerate
<1>8. QED
  BY <1>6, <1>7 DEF TakeKey

\* A key is stored, by v or for another pair of users.
LEMMA OneSidedStore ==
  ASSUME TypeOK, NEW u \in User, NEW v \in User, Parts(u, v), NEW x \in User, StoreKey(x)
  PROVE  Parts(u, v)'
<1>1. thread[x]["reader"] = "updating"
  BY DEF StoreKey, At
<1>2. PICK w \in User : w = arrived[x].peer
  BY <1>1, HandFacts, PointFacts
<1>3. PICK k \in Pairs : k = arrived[x].pair
  BY <1>1, HandFacts, PointFacts
<1>4. x # u \/ w # v
  BY <1>1, <1>2 DEF Parts
<1> DEFINE rows == [i \in DOMAIN requests[x][w] |-> [requests[x][w][i] EXCEPT !.public = k]]
<1>5. requests' = [requests EXCEPT ![x][w] = rows]
  BY <1>2, <1>3, TypeParts DEF StoreKey, TableType
<1>6. Holds(requests[x][w]) => Holds(rows)
  <2>1. k # NoKey
    BY ExchangeAssumption DEF Pairs
  <2>2. requests[x][w] \in Seq(Row)
    BY TypeParts DEF TableType
  <2>3. \A i \in DOMAIN requests[x][w] : rows[i].public = k
    BY <2>2, SeqFacts DEF Row
  <2>4. QED
    BY <2>1, <2>3 DEF Holds
<1> HIDE DEF rows
<1>7. /\ requests'[x][w] = rows
      /\ \A y, z \in User : y # x \/ z # w => requests'[y][z] = requests[y][z]
  BY <1>5, TypeParts DEF TableType
<1>8. Holds(requests'[v][u]) /\ ~Holds(requests'[u][v])
  BY <1>4, <1>6, <1>7 DEF Parts
<1>9. UNCHANGED <<making, outbox, inbox>> /\ arrived' = [arrived EXCEPT ![x] = Nothing]
  BY DEF StoreKey
<1>10. /\ thread'[x]["reader"] = "window"
       /\ \A y \in User, s \in Threads : y # x \/ s # "reader" => thread'[y][s] = thread[y][s]
  BY GotoFacts, TypeParts, PointFacts DEF StoreKey, Lower
<1>11. Preparers(v, u)' = {}
  BY <1>9, <1>10, PointFacts DEF Preparers, Parts
<1>12. thread'[u]["reader"] = "updating" => arrived'[u].peer # v
  BY <1>9, <1>10, PointFacts, TypeParts DEF Parts, TableType
<1>13. QED
  BY <1>8, <1>9, <1>11, <1>12 DEF Parts

\* The server takes a request, not one of v for u.
LEMMA OneSidedRelay ==
  ASSUME TypeOK, NEW u \in User, NEW v \in User, Parts(u, v), NEW x \in User, RelayKey(x)
  PROVE  Parts(u, v)'
<1> DEFINE e == Head(outbox[x])
           f == [kind |-> "key", from |-> x, pair |-> e.request.pair]
           other == Answer("other")
<1>1. PICK w \in User : w = e.request.to
  BY RelayFacts
<1>2. /\ outbox[x] \in Seq(Sent) /\ outbox[x] # << >> /\ e.request.kind = "key"
      /\ outbox' = [outbox EXCEPT ![x] = Tail(@)]
      /\ f \in Frame /\ other \in Frame
      /\ UNCHANGED <<thread, requests, making, arrived>>
  BY RelayFacts
<1>3. other.kind # "key" /\ f.from = x
  BY DEF Answer
<1>4. x # v \/ w # u
  <2>1. e = outbox[x][1] /\ 1 \in DOMAIN outbox[x]
    BY <1>2, TailFacts, SeqFacts
  <2>2. QED
    BY <1>1, <1>2, <2>1 DEF Parts, NoneFor
<1>5. inbox \in [User -> Seq(Frame)] /\ outbox \in [User -> Seq(Sent)]
  BY TypeParts DEF ConnType
<1>6. NoneFor(u, outbox'[v])
  BY <1>2, <1>5, NoneForQueue DEF Parts
<1>7. \/ inbox' = [inbox EXCEPT ![w] = Append(@, f), ![x] = Append(@, other)]
      \/ inbox' = [inbox EXCEPT ![x] = Append(@, other)]
  BY <1>1, RelayFacts, Zenon
<1> HIDE DEF e, f, other
<1>8. NoneOf(v, inbox'[u])
  <2>1. \/ inbox'[u] = inbox[u]
        \/ inbox'[u] = Append(inbox[u], other)
        \/ u = w /\ inbox'[u] = Append(inbox[u], f)
        \/ u = w /\ inbox'[u] = Append(Append(inbox[u], f), other)
    BY <1>5, <1>7
  <2>2. inbox[u] \in Seq(Frame) /\ NoneOf(v, inbox[u])
    BY <1>5 DEF Parts
  <2>3. NoneOf(v, Append(inbox[u], other))
    BY <1>2, <1>3, <2>2, NoneOfQueue
  <2>4. ASSUME u = w  PROVE NoneOf(v, Append(inbox[u], f)) /\ Append(inbox[u], f) \in Seq(Frame)
    BY <1>2, <1>3, <1>4, <2>2, <2>4, NoneOfQueue, AppendFacts
  <2>5. ASSUME u = w  PROVE NoneOf(v, Append(Append(inbox[u], f), other))
    BY <1>2, <1>3, <2>4, <2>5, NoneOfQueue
  <2>6. QED
    BY <2>1, <2>2, <2>3, <2>4, <2>5
<1>9. QED
  BY <1>2, <1>6, <1>8, OneSidedMove

\* A process ends, and what it had on its way with it.
LEMMA OneSidedEnd ==
  ASSUME TypeOK, NEW u \in User, NEW v \in User, Parts(u, v), NEW x \in User, End(x)
  PROVE  Parts(u, v)'
<1>1. requests' = requests
  BY DEF End
<1>2. \A y \in User : /\ outbox'[y] = outbox[y] \/ outbox'[y] = << >>
                      /\ inbox'[y] = inbox[y] \/ inbox'[y] = << >>
  BY TypeParts DEF End, Stop, ConnType
<1>3. \A y \in User : \A s \in Threads :
         \/ thread'[y][s] = "idle"
         \/ thread'[y][s] = thread[y][s] /\ making'[y][s] = making[y][s] /\ arrived'[y] = arrived[y]
  BY TypeParts DEF End, Stop, ThreadType, TableType
<1>4. Preparers(v, u)' = {}
  BY <1>3, PointFacts DEF Preparers, Parts
<1>5. NoneFor(u, outbox'[v]) /\ NoneOf(v, inbox'[u])
  BY <1>2 DEF Parts, NoneFor, NoneOf
<1>6. QED
  BY <1>1, <1>3, <1>4, <1>5, PointFacts DEF Parts

\* No step of anybody makes a one-sided exchange mutual or undone.
LEMMA OneSidedNext ==
  ASSUME TypeOK, FlagInv, [Next]_vars, NEW u \in User, NEW v \in User, OneSided(u, v)
  PROVE  OneSided(u, v)'
<1>1. Parts(u, v)
  BY PartsFacts
<1>2. ASSUME NEW x \in User, UserStep(x)  PROVE Parts(u, v)'
  <2>1. ASSUME NEW w \in User, RequestKeys(x, w)  PROVE Parts(u, v)'
    <3>1. x # v \/ w # u
      BY <2>1, <1>1 DEF RequestKeys, HasExchanged, Parts, Holds
    <3>2. /\ Generate(x, "main", w) /\ UNCHANGED <<requests, outbox, inbox, arrived>>
      BY <2>1 DEF RequestKeys
    <3>3. QED
      BY <1>1, <3>1, <3>2, PointFacts, OneSidedGenerate DEF Parts
  <2>2. QED
    BY <1>1, <1>2, <2>1, PointFacts, OneSidedConnection, OneSidedEnd DEF UserStep
<1>3. ASSUME NEW x \in User, NEW t \in Threads, ThreadStep(x, t)  PROVE Parts(u, v)'
  BY <1>1, <1>3, OneSidedConnection, OneSidedRequest, OneSidedSend DEF ThreadStep
<1>4. ASSUME NEW x \in User, ReaderStep(x)  PROVE Parts(u, v)'
  BY <1>1, <1>4, PointFacts, OneSidedConnection, OneSidedTake, OneSidedStore DEF ReaderStep
<1>5. ASSUME NEW x \in User, ServerStep(x)  PROVE Parts(u, v)'
  BY <1>1, <1>5, PointFacts, OneSidedConnection, OneSidedRelay DEF ServerStep
<1>6. CASE UNCHANGED vars
  <2>1. UNCHANGED <<requests, making, arrived, thread, outbox, inbox>>
    BY <1>6 DEF vars, connVars, exchangeVars
  <2>2. NoneFor(u, outbox'[v]) /\ NoneOf(v, inbox'[u]) /\ thread' = thread
    BY <1>1, <2>1 DEF Parts
  <2>3. QED
    BY <1>1, <2>1, <2>2, OneSidedMove, PartsNext
<1>7. QED
  BY <1>2, <1>3, <1>4, <1>5, <1>6, PartsNext DEF Next

\* Once v holds a key of u, u none of v and none is on its way, no command, answer, retry or
\* restart of either client gives u one.
THEOREM OneSidedStays == Spec => OneSidedForGood
<1> DEFINE Stays == \A u, v \in User : OneSided(u, v) => OneSided(u, v)'
<1>1. (TypeOK /\ FlagInv) /\ [Next]_vars => [Stays]_vars
  BY OneSidedNext
<1>2. QED
  BY <1>1, FlagAlways, PTL DEF Spec, OneSidedForGood
=============================================================================
