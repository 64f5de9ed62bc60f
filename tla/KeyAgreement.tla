---------------------------- MODULE KeyAgreement ----------------------------
(***************************************************************************)
(* The keys that two users hold of each other agree, and a key held is     *)
(* replaced by newer ones only, for every set of users and all bounds:     *)
(* KeyExchange keeps KeysAgree and HeldKeysAdvance.                        *)
(***************************************************************************)
EXTENDS KeyExchangeProofs

----------------------------------------------------------------------------
(* The inductive invariant *)

\* The numbers that f gives to those elements of a sequence that are in A, ...
Numbers(s, A, f) == {f[s[i]] : i \in {j \in DOMAIN s : s[j] \in A}}

\* ... and that they stand there in ascending order.
InOrder(s, A, f) ==
    \A i, j \in DOMAIN s : s[i] \in A /\ s[j] \in A /\ i < j => f[s[i]] < f[s[j]]

Below(S, T) == \A i \in S, j \in T : i < j

\* The requests and the frames with keys for v, and of u.
SentKeys(v) == {e \in Sent : e.request.kind = "key" /\ e.request.to = v}
SentPair(v) == [e \in SentKeys(v) |-> e.request.pair]
KeyFrames(u) == {e \in Frame : e.kind = "key" /\ e.from = u}
FramePair(u) == [e \in KeyFrames(u) |-> e.pair]

\* The keys of u for v that are being made, those in the outbox of u and in the inbox of v,
\* and the one that the reader of v holds.
Prepared(u, v) == {making[u][t].pair : t \in Preparers(u, v)}
Sending(u, v) == Numbers(outbox[u], SentKeys(v), SentPair(v))
Coming(u, v) == Numbers(inbox[v], KeyFrames(u), FramePair(u))
Taken(u, v) == IF arrived[v].peer = u THEN {arrived[v].pair} ELSE {}
Pending(u, v) == Taken(u, v) \cup Coming(u, v) \cup Sending(u, v) \cup Prepared(u, v)

SendingInOrder(u, v) == InOrder(outbox[u], SentKeys(v), SentPair(v))
ComingInOrder(u, v) == InOrder(inbox[v], KeyFrames(u), FramePair(u))

\* Keys are on their way in the order in which they were made.
OrderInv(u, v) ==
    /\ SendingInOrder(u, v) /\ ComingInOrder(u, v)
    /\ Below(Taken(u, v), Coming(u, v) \cup Sending(u, v) \cup Prepared(u, v))
    /\ Below(Coming(u, v), Sending(u, v) \cup Prepared(u, v))
    /\ Below(Sending(u, v), Prepared(u, v))
    /\ \A k \in Pending(u, v) : k <= made

\* One thread at a time makes a key, and the row is what it has made of it.
RowInv(u, v) ==
    /\ \A s, t \in Preparers(u, v) : s = t
    /\ \A t \in Preparers(u, v) :
          /\ thread[u][t] = "deleted" => requests[u][v] = << >>
          /\ thread[u][t] \in {"ready", "disabled"} =>
                 requests[u][v] # << >> /\ Head(requests[u][v]).private = making[u][t].pair

\* The private key in the row is that of the last key on the way.
LastInv(u, v) ==
    Preparers(u, v) = {} /\ Pending(u, v) # {} =>
        /\ requests[u][v] # << >>
        /\ Head(requests[u][v]).private \in Pending(u, v)
        /\ \A k \in Pending(u, v) : k <= Head(requests[u][v]).private

\* When none is on the way, it is that of the public key that v holds, if any.
HeldInv(u, v) ==
    HasExchanged(v, u) /\ Pending(u, v) = {} =>
        /\ requests[u][v] # << >>
        /\ Head(requests[v][u]).public = Head(requests[u][v]).private

\* The public keys that the rows of v for u show.
Publics(v, u) == {requests[v][u][i].public : i \in DOMAIN requests[v][u]} \ {NoKey}

\* What is on the way is no older than what v holds, and what will be made is newer.
NewerInv(u, v) == \A p \in Publics(v, u) : p <= made /\ \A k \in Pending(u, v) : p <= k

PairInv(u, v) ==
    u # v /\ <<u, v>> \notin spoiled =>
        OrderInv(u, v) /\ RowInv(u, v) /\ LastInv(u, v) /\ HeldInv(u, v) /\ NewerInv(u, v)

\* Nobody has a key for oneself; a reader that answers a key before it stores it has no
\* other one of that user, so that nothing is lost when it is stopped meanwhile.
UserInv(u) ==
    /\ Pending(u, u) = {}
    /\ thread[u]["reader"] \notin {"idle", "window", "updating"} =>
           ~HasExchanged(u, arrived[u].peer)

Inv == TypeOK /\ (\A u \in User : UserInv(u)) /\ \A u, v \in User : PairInv(u, v)

----------------------------------------------------------------------------
(* Elements of a sequence by number *)

\* An element is put last.
LEMMA NumbersAppend ==
  ASSUME NEW S, NEW s \in Seq(S), NEW e \in S, NEW A, NEW f
  PROVE  /\ Numbers(Append(s, e), A, f) = Numbers(s, A, f) \cup (IF e \in A THEN {f[e]} ELSE {})
         /\ InOrder(s, A, f) /\ (e \in A => \A k \in Numbers(s, A, f) : k < f[e])
                => InOrder(Append(s, e), A, f)
<1> DEFINE r == Append(s, e)
           n == Len(s) + 1
<1>1. /\ DOMAIN s = 1 .. Len(s) /\ Len(s) \in Nat
      /\ DOMAIN r = 1 .. n
      /\ \A i \in 1 .. Len(s) : r[i] = s[i]
      /\ r[n] = e
  BY AppendFacts, SeqFacts
<1> HIDE DEF r
<1>2. Numbers(r, A, f) = Numbers(s, A, f) \cup (IF e \in A THEN {f[e]} ELSE {})
  <2>1. DOMAIN r = DOMAIN s \cup {n} /\ \A i \in DOMAIN s : r[i] = s[i]
    BY <1>1
  <2> HIDE DEF n
  <2>2. {j \in DOMAIN r : r[j] \in A}
            = {j \in DOMAIN s : s[j] \in A} \cup (IF e \in A THEN {n} ELSE {})
    BY <1>1, <2>1
  <2>3. \A j \in {i \in DOMAIN s : s[i] \in A} : f[r[j]] = f[s[j]]
    BY <2>1
  <2>4. QED
    BY <1>1, <2>2, <2>3 DEF Numbers
<1>3. ASSUME InOrder(s, A, f), e \in A => \A k \in Numbers(s, A, f) : k < f[e]
      PROVE  InOrder(r, A, f)
  <2>1. SUFFICES ASSUME NEW i \in DOMAIN r, NEW j \in DOMAIN r, r[i] \in A, r[j] \in A, i < j
                 PROVE  f[r[i]] < f[r[j]]
    BY DEF InOrder
  <2>2. i \in DOMAIN s /\ r[i] = s[i]
    BY <1>1, <2>1
  <2>3. CASE j \in DOMAIN s
    BY <1>1, <1>3, <2>1, <2>2, <2>3 DEF InOrder
  <2>4. CASE j = n
    <3>1. f[s[i]] \in Numbers(s, A, f)
      BY <2>1, <2>2 DEF Numbers
    <3>2. QED
      BY <1>1, <1>3, <2>1, <2>2, <2>4, <3>1
  <2>5. QED
    BY <1>1, <2>3, <2>4
<1>4. QED
  BY <1>2, <1>3 DEF r

\* The first element is taken.
LEMMA NumbersTail ==
  ASSUME NEW S, NEW s \in Seq(S), s # << >>, NEW A, NEW f
  PROVE  LET first == IF Head(s) \in A THEN {f[Head(s)]} ELSE {}
         IN  /\ Numbers(s, A, f) = first \cup Numbers(Tail(s), A, f)
             /\ InOrder(s, A, f) => /\ Below(first, Numbers(Tail(s), A, f))
                                    /\ InOrder(Tail(s), A, f)
<1> DEFINE r == Tail(s)
           n == Len(s)
           first == IF Head(s) \in A THEN {f[Head(s)]} ELSE {}
<1>1. /\ DOMAIN s = 1 .. n /\ n \in Nat \ {0}
      /\ DOMAIN r = 1 .. (n - 1)
      /\ \A i \in 1 .. (n - 1) : r[i] = s[i + 1]
      /\ Head(s) = s[1]
  BY TailFacts, SeqFacts
<1> HIDE DEF r, n
<1>2. \A i \in DOMAIN r : i + 1 \in DOMAIN s /\ r[i] = s[i + 1] /\ i \in Nat /\ 1 < i + 1
  BY <1>1
<1>3. \A i \in DOMAIN s : i # 1 => i - 1 \in DOMAIN r /\ s[i] = r[i - 1]
  BY <1>1
<1>4. Numbers(s, A, f) = first \cup Numbers(r, A, f)
  <2>1. Numbers(s, A, f) \subseteq first \cup Numbers(r, A, f)
    <3>1. SUFFICES ASSUME NEW i \in DOMAIN s, s[i] \in A
                   PROVE  f[s[i]] \in first \cup Numbers(r, A, f)
      BY DEF Numbers
    <3>2. CASE i = 1
      BY <1>1, <3>1, <3>2
    <3>3. CASE i # 1
      <4>1. i - 1 \in DOMAIN r /\ r[i - 1] \in A /\ f[s[i]] = f[r[i - 1]]
        BY <1>3, <3>1, <3>3
      <4>2. QED
        BY <4>1 DEF Numbers
    <3>4. QED
      BY <3>2, <3>3
  <2>2. first \subseteq Numbers(s, A, f)
    BY <1>1 DEF Numbers
  <2>3. Numbers(r, A, f) \subseteq Numbers(s, A, f)
    <3>1. SUFFICES ASSUME NEW i \in DOMAIN r, r[i] \in A
                   PROVE  f[r[i]] \in Numbers(s, A, f)
      BY DEF Numbers
    <3>2. i + 1 \in DOMAIN s /\ s[i + 1] \in A /\ f[r[i]] = f[s[i + 1]]
      BY <1>2, <3>1
    <3>3. QED
      BY <3>2 DEF Numbers
  <2>4. QED
    BY <2>1, <2>2, <2>3
<1>5. ASSUME InOrder(s, A, f)  PROVE Below(first, Numbers(r, A, f))
  <2>1. SUFFICES ASSUME Head(s) \in A, NEW i \in DOMAIN r, r[i] \in A
                 PROVE  f[Head(s)] < f[r[i]]
    BY DEF Below, Numbers
  <2>2. 1 \in DOMAIN s /\ i + 1 \in DOMAIN s /\ s[1] \in A /\ s[i + 1] \in A /\ 1 < i + 1
    BY <1>1, <1>2, <2>1
  <2>3. f[s[1]] < f[s[i + 1]]
    BY <1>5, <2>2 DEF InOrder
  <2>4. QED
    BY <1>1, <1>2, <2>3
<1>6. ASSUME InOrder(s, A, f)  PROVE InOrder(r, A, f)
  <2>1. SUFFICES ASSUME NEW i \in DOMAIN r, NEW j \in DOMAIN r, r[i] \in A, r[j] \in A, i < j
                 PROVE  f[r[i]] < f[r[j]]
    BY DEF InOrder
  <2>2. /\ i + 1 \in DOMAIN s /\ j + 1 \in DOMAIN s /\ i + 1 < j + 1
        /\ s[i + 1] \in A /\ s[j + 1] \in A
    BY <1>2, <2>1
  <2>3. QED
    BY <1>2, <1>6, <2>2 DEF InOrder
<1>7. QED
  BY <1>4, <1>5, <1>6 DEF r

\* An empty sequence.
LEMMA NumbersEmpty ==
  ASSUME NEW A, NEW f
  PROVE  Numbers(<< >>, A, f) = {} /\ InOrder(<< >>, A, f)
  BY DEF Numbers, InOrder
----------------------------------------------------------------------------
(* What is on the way, and how it moves *)

\* The parts of what is on the way, in the next state.
LEMMA NextParts ==
  ASSUME NEW u, NEW v
  PROVE  /\ Sending(u, v)' = Numbers(outbox'[u], SentKeys(v), SentPair(v))
         /\ Coming(u, v)' = Numbers(inbox'[v], KeyFrames(u), FramePair(u))
         /\ SendingInOrder(u, v)' <=> InOrder(outbox'[u], SentKeys(v), SentPair(v))
         /\ ComingInOrder(u, v)' <=> InOrder(inbox'[v], KeyFrames(u), FramePair(u))
<1>1. /\ Sending(u, v)' = Numbers(outbox'[u], SentKeys(v), SentPair(v))
      /\ Coming(u, v)' = Numbers(inbox'[v], KeyFrames(u), FramePair(u))
  BY DEF Sending, Coming, Numbers
<1>2. /\ SendingInOrder(u, v)' <=> InOrder(outbox'[u], SentKeys(v), SentPair(v))
      /\ ComingInOrder(u, v)' <=> InOrder(inbox'[v], KeyFrames(u), FramePair(u))
  BY DEF SendingInOrder, ComingInOrder, InOrder
<1>3. QED
  BY <1>1, <1>2

\* What is sent does not change with an outbox that does not change, ...
LEMMA SendingKept ==
  ASSUME NEW u, NEW v, outbox'[u] = outbox[u]
  PROVE  Sending(u, v)' = Sending(u, v) /\ (SendingInOrder(u, v) => SendingInOrder(u, v)')
  BY NextParts DEF Sending, SendingInOrder

\* ... nor what is coming in with an inbox, ...
LEMMA ComingKept ==
  ASSUME NEW u, NEW v, inbox'[v] = inbox[v]
  PROVE  Coming(u, v)' = Coming(u, v) /\ (ComingInOrder(u, v) => ComingInOrder(u, v)')
  BY NextParts DEF Coming, ComingInOrder

\* ... nor what the reader holds.
LEMMA TakenKept ==
  ASSUME NEW u, NEW v, arrived'[v] = arrived[v]
  PROVE  Taken(u, v)' = Taken(u, v)
  BY DEF Taken

\* A request is sent.
LEMMA SendingAppend ==
  ASSUME NEW u, NEW v, NEW e \in Sent, outbox[u] \in Seq(Sent), outbox'[u] = Append(outbox[u], e)
  PROVE  LET new == IF e.request.kind = "key" /\ e.request.to = v THEN {e.request.pair} ELSE {}
         IN  /\ Sending(u, v)' = Sending(u, v) \cup new
             /\ SendingInOrder(u, v) /\ Below(Sending(u, v), new) => SendingInOrder(u, v)'
<1>1. e \in SentKeys(v) <=> e.request.kind = "key" /\ e.request.to = v
  BY DEF SentKeys
<1>2. e \in SentKeys(v) => SentPair(v)[e] = e.request.pair
  BY DEF SentPair
<1> DEFINE n == Numbers(outbox[u], SentKeys(v), SentPair(v))
           r == Append(outbox[u], e)
<1>3. /\ Numbers(r, SentKeys(v), SentPair(v))
             = n \cup (IF e \in SentKeys(v) THEN {SentPair(v)[e]} ELSE {})
      /\ /\ InOrder(outbox[u], SentKeys(v), SentPair(v))
         /\ e \in SentKeys(v) => \A k \in n : k < SentPair(v)[e]
         => InOrder(r, SentKeys(v), SentPair(v))
  BY NumbersAppend
<1>4. /\ Sending(u, v) = n /\ Sending(u, v)' = Numbers(r, SentKeys(v), SentPair(v))
      /\ SendingInOrder(u, v) <=> InOrder(outbox[u], SentKeys(v), SentPair(v))
      /\ SendingInOrder(u, v)' <=> InOrder(r, SentKeys(v), SentPair(v))
  BY NextParts DEF Sending, SendingInOrder
<1> HIDE DEF n, r
<1>5. QED
  BY <1>1, <1>2, <1>3, <1>4 DEF Below

\* The server takes a request.
LEMMA SendingTail ==
  ASSUME NEW u, NEW v, outbox[u] \in Seq(Sent), outbox[u] # << >>, outbox'[u] = Tail(outbox[u])
  PROVE  LET e == Head(outbox[u])
             old == IF e.request.kind = "key" /\ e.request.to = v THEN {e.request.pair} ELSE {}
         IN  /\ Sending(u, v) = old \cup Sending(u, v)'
             /\ SendingInOrder(u, v) => Below(old, Sending(u, v)') /\ SendingInOrder(u, v)'
<1> DEFINE e == Head(outbox[u])
           first == IF e \in SentKeys(v) THEN {SentPair(v)[e]} ELSE {}
           r == Tail(outbox[u])
<1>1. e \in Sent
  BY TailFacts
<1>2. first = IF e.request.kind = "key" /\ e.request.to = v THEN {e.request.pair} ELSE {}
  BY <1>1 DEF SentKeys, SentPair
<1>3. /\ Numbers(outbox[u], SentKeys(v), SentPair(v))
             = first \cup Numbers(r, SentKeys(v), SentPair(v))
      /\ InOrder(outbox[u], SentKeys(v), SentPair(v))
             => /\ Below(first, Numbers(r, SentKeys(v), SentPair(v)))
                /\ InOrder(r, SentKeys(v), SentPair(v))
  BY NumbersTail
<1>4. /\ Sending(u, v) = Numbers(outbox[u], SentKeys(v), SentPair(v))
      /\ Sending(u, v)' = Numbers(r, SentKeys(v), SentPair(v))
      /\ SendingInOrder(u, v) <=> InOrder(outbox[u], SentKeys(v), SentPair(v))
      /\ SendingInOrder(u, v)' <=> InOrder(r, SentKeys(v), SentPair(v))
  BY NextParts DEF Sending, SendingInOrder
<1> HIDE DEF first, r
<1>5. /\ Sending(u, v) = first \cup Sending(u, v)'
      /\ SendingInOrder(u, v) => Below(first, Sending(u, v)') /\ SendingInOrder(u, v)'
  BY <1>3, <1>4
<1>6. QED
  BY <1>2, <1>5

\* The server sends a frame.
LEMMA ComingAppend ==
  ASSUME NEW u, NEW v, NEW e \in Frame, inbox[v] \in Seq(Frame), inbox'[v] = Append(inbox[v], e)
  PROVE  LET new == IF e.kind = "key" /\ e.from = u THEN {e.pair} ELSE {}
         IN  /\ Coming(u, v)' = Coming(u, v) \cup new
             /\ ComingInOrder(u, v) /\ Below(Coming(u, v), new) => ComingInOrder(u, v)'
<1>1. e \in KeyFrames(u) <=> e.kind = "key" /\ e.from = u
  BY DEF KeyFrames
<1>2. e \in KeyFrames(u) => FramePair(u)[e] = e.pair
  BY DEF FramePair
<1> DEFINE n == Numbers(inbox[v], KeyFrames(u), FramePair(u))
           r == Append(inbox[v], e)
<1>3. /\ Numbers(r, KeyFrames(u), FramePair(u))
             = n \cup (IF e \in KeyFrames(u) THEN {FramePair(u)[e]} ELSE {})
      /\ /\ InOrder(inbox[v], KeyFrames(u), FramePair(u))
         /\ e \in KeyFrames(u) => \A k \in n : k < FramePair(u)[e]
         => InOrder(r, KeyFrames(u), FramePair(u))
  BY NumbersAppend
<1>4. /\ Coming(u, v) = n /\ Coming(u, v)' = Numbers(r, KeyFrames(u), FramePair(u))
      /\ ComingInOrder(u, v) <=> InOrder(inbox[v], KeyFrames(u), FramePair(u))
      /\ ComingInOrder(u, v)' <=> InOrder(r, KeyFrames(u), FramePair(u))
  BY NextParts DEF Coming, ComingInOrder
<1> HIDE DEF n, r
<1>5. QED
  BY <1>1, <1>2, <1>3, <1>4 DEF Below

\* The reader takes a frame.
LEMMA ComingTail ==
  ASSUME NEW u, NEW v, inbox[v] \in Seq(Frame), inbox[v] # << >>, inbox'[v] = Tail(inbox[v])
  PROVE  LET e == Head(inbox[v])
             old == IF e.kind = "key" /\ e.from = u THEN {e.pair} ELSE {}
         IN  /\ Coming(u, v) = old \cup Coming(u, v)'
             /\ ComingInOrder(u, v) => Below(old, Coming(u, v)') /\ ComingInOrder(u, v)'
<1> DEFINE e == Head(inbox[v])
           first == IF e \in KeyFrames(u) THEN {FramePair(u)[e]} ELSE {}
           r == Tail(inbox[v])
<1>1. e \in Frame
  BY TailFacts
<1>2. first = IF e.kind = "key" /\ e.from = u THEN {e.pair} ELSE {}
  BY <1>1 DEF KeyFrames, FramePair
<1>3. /\ Numbers(inbox[v], KeyFrames(u), FramePair(u))
             = first \cup Numbers(r, KeyFrames(u), FramePair(u))
      /\ InOrder(inbox[v], KeyFrames(u), FramePair(u))
             => /\ Below(first, Numbers(r, KeyFrames(u), FramePair(u)))
                /\ InOrder(r, KeyFrames(u), FramePair(u))
  BY NumbersTail
<1>4. /\ Coming(u, v) = Numbers(inbox[v], KeyFrames(u), FramePair(u))
      /\ Coming(u, v)' = Numbers(r, KeyFrames(u), FramePair(u))
      /\ ComingInOrder(u, v) <=> InOrder(inbox[v], KeyFrames(u), FramePair(u))
      /\ ComingInOrder(u, v)' <=> InOrder(r, KeyFrames(u), FramePair(u))
  BY NextParts DEF Coming, ComingInOrder
<1> HIDE DEF first, r
<1>5. /\ Coming(u, v) = first \cup Coming(u, v)'
      /\ ComingInOrder(u, v) => Below(first, Coming(u, v)') /\ ComingInOrder(u, v)'
  BY <1>3, <1>4
<1>6. QED
  BY <1>2, <1>5

\* What is on the way is a set of numbers.
LEMMA PendingNumbers ==
  ASSUME TypeOK, NEW u \in User, NEW v \in User
  PROVE  /\ Taken(u, v) \subseteq Nat /\ Coming(u, v) \subseteq Nat /\ Sending(u, v) \subseteq Nat
         /\ Prepared(u, v) \subseteq Nat /\ Pending(u, v) \subseteq Nat /\ made \in Nat
<1>1. Pairs \subseteq Nat
  BY ExchangeAssumption DEF Pairs
<1>2. made \in Nat
  BY TypeParts, ExchangeAssumption DEF TableType
<1>3. Taken(u, v) \subseteq Nat
  BY <1>1, HandFacts, PointFacts DEF Taken
<1>4. Coming(u, v) \subseteq Nat
  <2>1. \A i \in DOMAIN inbox[v] : inbox[v][i] \in Frame
    BY TypeParts, SeqFacts DEF ConnType
  <2>2. \A e \in KeyFrames(u) : FramePair(u)[e] \in Pairs
    BY DEF KeyFrames, FramePair, Frame
  <2>3. QED
    BY <1>1, <2>1, <2>2 DEF Coming, Numbers
<1>5. Sending(u, v) \subseteq Nat
  <2>1. \A e \in SentKeys(v) : SentPair(v)[e] \in Pairs
    BY DEF SentKeys, SentPair, Sent, Request
  <2>2. QED
    BY <1>1, <2>1 DEF Sending, Numbers
<1>6. Prepared(u, v) \subseteq Nat
  BY <1>1, HandFacts DEF Prepared, Preparers
<1>7. QED
  BY <1>2, <1>3, <1>4, <1>5, <1>6 DEF Pending

\* The requests that are being made do not change.
LEMMA PreparedKept ==
  ASSUME NEW u, NEW v,
         \A t \in Threads : /\ thread'[u][t] \in Preparing <=> thread[u][t] \in Preparing
                            /\ making'[u][t] = making[u][t]
  PROVE  Preparers(u, v)' = Preparers(u, v) /\ Prepared(u, v)' = Prepared(u, v)
<1>1. Preparers(u, v)' = Preparers(u, v)
  BY DEF Preparers, Preparing
<1>2. Prepared(u, v)' = {making'[u][t].pair : t \in Preparers(u, v)'}
  BY DEF Prepared
<1>3. \A t \in Preparers(u, v) : making'[u][t].pair = making[u][t].pair
  BY DEF Preparers
<1>4. QED
  BY <1>1, <1>2, <1>3 DEF Prepared

\* What concerns other users, or is no key, does not matter.
LEMMA SendingAside ==
  ASSUME NEW u, NEW v, outbox[u] \in Seq(Sent),
         \/ outbox'[u] = outbox[u]
         \/ \E e \in Sent : /\ ~(e.request.kind = "key" /\ e.request.to = v)
                            /\ outbox'[u] = Append(outbox[u], e)
         \/ /\ outbox[u] # << >>
            /\ ~(Head(outbox[u]).request.kind = "key" /\ Head(outbox[u]).request.to = v)
            /\ outbox'[u] = Tail(outbox[u])
  PROVE  Sending(u, v)' = Sending(u, v) /\ (SendingInOrder(u, v) => SendingInOrder(u, v)')
<1>1. ASSUME NEW e \in Sent, ~(e.request.kind = "key" /\ e.request.to = v),
             outbox'[u] = Append(outbox[u], e)
      PROVE  Sending(u, v)' = Sending(u, v) /\ (SendingInOrder(u, v) => SendingInOrder(u, v)')
  <2> DEFINE new == IF e.request.kind = "key" /\ e.request.to = v THEN {e.request.pair} ELSE {}
  <2>1. new = {} /\ Below(Sending(u, v), new)
    BY <1>1 DEF Below
  <2>2. /\ Sending(u, v)' = Sending(u, v) \cup new
        /\ SendingInOrder(u, v) /\ Below(Sending(u, v), new) => SendingInOrder(u, v)'
    BY <1>1, SendingAppend
  <2>3. QED
    BY <2>1, <2>2
<1>2. ASSUME outbox[u] # << >>,
             ~(Head(outbox[u]).request.kind = "key" /\ Head(outbox[u]).request.to = v),
             outbox'[u] = Tail(outbox[u])
      PROVE  Sending(u, v)' = Sending(u, v) /\ (SendingInOrder(u, v) => SendingInOrder(u, v)')
  <2> DEFINE e == Head(outbox[u])
             old == IF e.request.kind = "key" /\ e.request.to = v THEN {e.request.pair} ELSE {}
  <2>1. old = {}
    BY <1>2
  <2>2. /\ Sending(u, v) = old \cup Sending(u, v)'
        /\ SendingInOrder(u, v) => SendingInOrder(u, v)'
    BY <1>2, SendingTail
  <2>3. QED
    BY <2>1, <2>2
<1>3. QED
  BY <1>1, <1>2, SendingKept

\* The same of the frames for a user.
LEMMA ComingAside ==
  ASSUME NEW u, NEW v, inbox[v] \in Seq(Frame),
         \/ inbox'[v] = inbox[v]
         \/ \E e \in Frame : ~(e.kind = "key" /\ e.from = u) /\ inbox'[v] = Append(inbox[v], e)
         \/ /\ inbox[v] # << >>
            /\ ~(Head(inbox[v]).kind = "key" /\ Head(inbox[v]).from = u)
            /\ inbox'[v] = Tail(inbox[v])
  PROVE  Coming(u, v)' = Coming(u, v) /\ (ComingInOrder(u, v) => ComingInOrder(u, v)')
<1>1. ASSUME NEW e \in Frame, ~(e.kind = "key" /\ e.from = u), inbox'[v] = Append(inbox[v], e)
      PROVE  Coming(u, v)' = Coming(u, v) /\ (ComingInOrder(u, v) => ComingInOrder(u, v)')
  <2> DEFINE new == IF e.kind = "key" /\ e.from = u THEN {e.pair} ELSE {}
  <2>1. new = {} /\ Below(Coming(u, v), new)
    BY <1>1 DEF Below
  <2>2. /\ Coming(u, v)' = Coming(u, v) \cup new
        /\ ComingInOrder(u, v) /\ Below(Coming(u, v), new) => ComingInOrder(u, v)'
    BY <1>1, ComingAppend
  <2>3. QED
    BY <2>1, <2>2
<1>2. ASSUME inbox[v] # << >>, ~(Head(inbox[v]).kind = "key" /\ Head(inbox[v]).from = u),
             inbox'[v] = Tail(inbox[v])
      PROVE  Coming(u, v)' = Coming(u, v) /\ (ComingInOrder(u, v) => ComingInOrder(u, v)')
  <2> DEFINE e == Head(inbox[v])
             old == IF e.kind = "key" /\ e.from = u THEN {e.pair} ELSE {}
  <2>1. old = {}
    BY <1>2
  <2>2. /\ Coming(u, v) = old \cup Coming(u, v)'
        /\ ComingInOrder(u, v) => ComingInOrder(u, v)'
    BY <1>2, ComingTail
  <2>3. QED
    BY <2>1, <2>2
<1>3. QED
  BY <1>1, <1>2, ComingKept

----------------------------------------------------------------------------
(* What keeps the invariant *)

\* Of the keys of u for v, none moves.
KeysKept(u, v) ==
    /\ Taken(u, v)' = Taken(u, v)
    /\ Coming(u, v)' = Coming(u, v) /\ (ComingInOrder(u, v) => ComingInOrder(u, v)')
    /\ Sending(u, v)' = Sending(u, v) /\ (SendingInOrder(u, v) => SendingInOrder(u, v)')
    /\ Preparers(u, v)' = Preparers(u, v) /\ Prepared(u, v)' = Prepared(u, v)

\* The rows of u for v show no more of the keys of v than before ...
PublicKept(u, v) ==
    /\ HasExchanged(u, v)' => /\ HasExchanged(u, v)
                              /\ Head(requests'[u][v]).public = Head(requests[u][v]).public
    /\ Publics(u, v)' \subseteq Publics(u, v)

\* ... and the private key stays.
PrivateKept(u, v) ==
    /\ requests'[u][v] = << >> <=> requests[u][v] = << >>
    /\ requests[u][v] # << >> =>
           Head(requests'[u][v]).private = Head(requests[u][v]).private

\* A thread goes on, at most, from the insertion of a row to the request.
ReadyKept(u, t) ==
    /\ making'[u][t] = making[u][t]
    /\ \/ thread'[u][t] = thread[u][t]
       \/ thread[u][t] = "ready" /\ thread'[u][t] = "disabled"

\* The reader is not between a key and the UPDATE.
Free == {"idle", "window", "updating"}

\* Rows that stay as they are.
LEMMA RowsSame ==
  ASSUME NEW u, NEW v, requests'[u][v] = requests[u][v]
  PROVE  PublicKept(u, v) /\ PrivateKept(u, v)
  BY DEF PublicKept, PrivateKept, HasExchanged, Publics

\* Keys that do not move leave what is on the way as it is.
LEMMA PendingKept ==
  ASSUME NEW u, NEW v, KeysKept(u, v)
  PROVE  Pending(u, v)' = Pending(u, v)
  BY DEF KeysKept, Pending

\* The row of the thread that makes a key, when that row and thread stay as they are.
LEMMA RowKept ==
  ASSUME NEW u, NEW v, RowInv(u, v), Preparers(u, v)' = Preparers(u, v), PrivateKept(u, v),
         \A t \in Preparers(u, v) : ReadyKept(u, t)
  PROVE  RowInv(u, v)'
<1>1. \A t \in Preparers(u, v) :
         /\ thread'[u][t] = "deleted" => requests'[u][v] = << >>
         /\ thread'[u][t] \in {"ready", "disabled"} =>
                requests'[u][v] # << >> /\ Head(requests'[u][v]).private = making'[u][t].pair
  BY DEF RowInv, ReadyKept, PrivateKept
<1>2. QED
  BY <1>1 DEF RowInv

\* The keys that a user holds are numbers.
LEMMA PublicNumbers ==
  ASSUME TypeOK, NEW u \in User, NEW v \in User
  PROVE  Publics(v, u) \subseteq Nat
<1>1. \A i \in DOMAIN requests[v][u] : requests[v][u][i] \in Row
  BY TypeParts, SeqFacts DEF TableType
<1>2. Pairs \subseteq Nat
  BY ExchangeAssumption DEF Pairs
<1>3. QED
  BY <1>1, <1>2 DEF Publics, Row

\* They stay older than what is on the way when, at most, a new key is made.
LEMMA NewerKept ==
  ASSUME TypeOK, NEW u \in User, NEW v \in User, NewerInv(u, v), PublicKept(v, u),
         Pending(u, v)' \subseteq Pending(u, v) \cup {made'}, made' \in Nat, made <= made'
  PROVE  NewerInv(u, v)'
<1>1. \A p \in Publics(v, u)' : p \in Nat /\ p <= made /\ \A k \in Pending(u, v) : p <= k
  BY PublicNumbers DEF NewerInv, PublicKept
<1>2. \A p \in Publics(v, u)' : p <= made'
  BY <1>1, PendingNumbers
<1>3. QED
  BY <1>1, <1>2 DEF NewerInv

\* A pair of users whose keys do not move.
LEMMA PairKept ==
  ASSUME TypeOK, NEW u \in User, NEW v \in User, PairInv(u, v), KeysKept(u, v),
         spoiled \subseteq spoiled', made' \in Nat, made <= made',
         PrivateKept(u, v), PublicKept(v, u), \A t \in Preparers(u, v) : ReadyKept(u, t)
  PROVE  PairInv(u, v)'
<1> SUFFICES ASSUME u # v, <<u, v>> \notin spoiled'
             PROVE  /\ OrderInv(u, v)' /\ RowInv(u, v)' /\ LastInv(u, v)' /\ HeldInv(u, v)'
                    /\ NewerInv(u, v)'
                    /\ NewerInv(u, v)'
  BY DEF PairInv
<1>1. OrderInv(u, v) /\ RowInv(u, v) /\ LastInv(u, v) /\ HeldInv(u, v) /\ NewerInv(u, v)
  BY DEF PairInv
<1>2. Pending(u, v)' = Pending(u, v) /\ Pending(u, v) \subseteq Nat /\ made \in Nat
  BY PendingKept, PendingNumbers
<1>3. OrderInv(u, v)'
  <2>1. \A k \in Pending(u, v)' : k <= made'
    BY <1>1, <1>2 DEF OrderInv
  <2>2. QED
    BY <1>1, <2>1 DEF OrderInv, KeysKept, Below
<1>4. RowInv(u, v)'
  BY <1>1, RowKept DEF KeysKept
<1>5. LastInv(u, v)'
  BY <1>1, <1>2 DEF LastInv, KeysKept, PrivateKept
<1>6. HeldInv(u, v)'
  BY <1>1, <1>2 DEF HeldInv, PublicKept, PrivateKept
<1>7. NewerInv(u, v)'
  BY <1>1, <1>2, NewerKept
<1>8. QED
  BY <1>3, <1>4, <1>5, <1>6, <1>7

\* A user whose reader does not begin to answer a key.
LEMMA UserKept ==
  ASSUME TypeOK, NEW u \in User, UserInv(u), Pending(u, u)' = {},
         thread'[u]["reader"] \notin Free =>
             /\ thread[u]["reader"] \notin Free
             /\ arrived'[u] = arrived[u]
             /\ \A v \in User : PublicKept(u, v)
  PROVE  UserInv(u)'
<1>1. SUFFICES ASSUME thread'[u]["reader"] \notin Free
               PROVE  ~HasExchanged(u, arrived[u].peer)'
  BY DEF UserInv, Free
<1>2. arrived[u].peer \in User
  BY <1>1, HandFacts, PointFacts DEF Free
<1>3. PICK w \in User : w = arrived[u].peer
  BY <1>2
<1>4. ~HasExchanged(u, w)
  BY <1>1, <1>3 DEF UserInv, Free
<1>5. ~HasExchanged(u, w)'
  BY <1>1, <1>4 DEF PublicKept
<1>6. arrived'[u].peer = w
  BY <1>1, <1>3
<1>7. QED
  BY <1>5, <1>6 DEF HasExchanged

\* A step that neither makes, moves nor stores a key.
LEMMA QuietStep ==
  ASSUME Inv, UNCHANGED exchangeVars, NEW u \in User,
         \A x \in User : x # u => outbox'[x] = outbox[x] /\ inbox'[x] = inbox[x],
         \/ outbox'[u] = outbox[u]
         \/ \E e \in Sent : e.request.kind = "login" /\ outbox'[u] = Append(outbox[u], e)
         \/ /\ outbox[u] # << >> /\ Head(outbox[u]).request.kind = "login"
            /\ outbox'[u] = Tail(outbox[u]),
         \/ inbox'[u] = inbox[u]
         \/ \E e \in Frame : e.kind = "response" /\ inbox'[u] = Append(inbox[u], e)
         \/ /\ inbox[u] # << >> /\ Head(inbox[u]).kind = "response"
            /\ inbox'[u] = Tail(inbox[u]),
         \A x \in User, t \in Threads :
            \/ ReadyKept(x, t)
            \/ /\ thread[x][t] \notin Preparing /\ thread'[x][t] \notin Preparing
               /\ t = "reader" /\ thread[x][t] \in Free => thread'[x][t] \in Free
  PROVE  (\A x \in User : UserInv(x)') /\ \A x, v \in User : PairInv(x, v)'
<1>1. TypeOK /\ (\A x \in User : UserInv(x)) /\ \A x, v \in User : PairInv(x, v)
  BY DEF Inv
<1>2. \A x \in User : outbox[x] \in Seq(Sent) /\ inbox[x] \in Seq(Frame)
  BY <1>1, TypeParts DEF ConnType
<1>3. UNCHANGED <<requests, made, making, arrived, spoiled>>
  BY DEF exchangeVars
<1>4. ASSUME NEW x \in User, NEW v \in User  PROVE KeysKept(x, v)
  <2>1. Sending(x, v)' = Sending(x, v) /\ (SendingInOrder(x, v) => SendingInOrder(x, v)')
    BY <1>2, SendingAside
  <2>2. Coming(x, v)' = Coming(x, v) /\ (ComingInOrder(x, v) => ComingInOrder(x, v)')
    BY <1>2, ComingAside
  <2>3. Taken(x, v)' = Taken(x, v)
    BY <1>3, TakenKept
  <2>4. \A t \in Threads : /\ thread'[x][t] \in Preparing <=> thread[x][t] \in Preparing
                           /\ making'[x][t] = making[x][t]
    BY <1>3 DEF ReadyKept, Preparing
  <2>5. Preparers(x, v)' = Preparers(x, v) /\ Prepared(x, v)' = Prepared(x, v)
    BY <2>4, PreparedKept
  <2>6. QED
    BY <2>1, <2>2, <2>3, <2>5 DEF KeysKept
<1>5. ASSUME NEW x \in User, NEW v \in User  PROVE PublicKept(x, v) /\ PrivateKept(x, v)
  BY <1>3, RowsSame
<1>6. ASSUME NEW x \in User, NEW v \in User  PROVE PairInv(x, v)'
  <2>1. \A t \in Preparers(x, v) : ReadyKept(x, t)
    BY DEF Preparers
  <2>2. made' \in Nat /\ made <= made'
    BY <1>1, <1>3, PendingNumbers
  <2>3. QED
    BY <1>1, <1>3, <1>4, <1>5, <2>1, <2>2, PairKept
<1>7. ASSUME NEW x \in User  PROVE UserInv(x)'
  <2>1. Pending(x, x)' = {}
    BY <1>1, <1>4, PendingKept DEF UserInv
  <2>2. thread'[x]["reader"] \notin Free =>
             thread[x]["reader"] \notin Free /\ arrived'[x] = arrived[x]
    BY <1>3, PointFacts DEF ReadyKept, Free
  <2>3. QED
    BY <1>1, <1>5, <2>1, <2>2, UserKept
<1>8. QED
  BY <1>6, <1>7
----------------------------------------------------------------------------
(* The steps *)

\* The steps of the connection.
LEMMA InvConnection ==
  ASSUME Inv, NEW u \in User, NEW t \in Threads, UNCHANGED exchangeVars,
         \/ Connect(u) \/ SignIn(u) \/ TakeResponse(u) \/ HandleRead(u)
         \/ ChangeEntry(u) \/ HandleLogin(u)
         \/ DisableEncryption(u, t) \/ EnableEncryption(u, t) \/ ReadResponse(u, t)
  PROVE  (\A x \in User : UserInv(x)') /\ \A x, v \in User : PairInv(x, v)'
<1>1. TypeOK /\ ThreadType /\ ConnType
  BY TypeParts DEF Inv
<1>2. making' = making
  BY DEF exchangeVars
<1> DEFINE Goal == (\A x \in User : UserInv(x)') /\ \A x, v \in User : PairInv(x, v)'
           Steady(x, s) == \/ ReadyKept(x, s)
                           \/ /\ thread[x][s] \notin Preparing /\ thread'[x][s] \notin Preparing
                              /\ s = "reader" /\ thread[x][s] \in Free => thread'[x][s] \in Free
<1>3. ASSUME thread' = thread  PROVE \A x \in User, s \in Threads : Steady(x, s)
  BY <1>2, <1>3 DEF ReadyKept
<1>4. ASSUME NEW s \in Threads, NEW p \in Points, Goto(u, s, p),
             \/ thread[u][s] = "ready" /\ p = "disabled"
             \/ /\ thread[u][s] \notin Preparing /\ p \notin Preparing
                /\ s = "reader" /\ thread[u][s] \in Free => p \in Free
      PROVE  \A x \in User, r \in Threads : Steady(x, r)
  BY <1>1, <1>2, <1>4, GotoFacts DEF ReadyKept
<1> HIDE DEF Steady
<1>5. CASE Connect(u)
  BY <1>3, <1>5, QuietStep DEF Connect, Steady
<1>6. CASE SignIn(u)
  <2> DEFINE e == [request |-> [kind |-> "login", to |-> u], plain |-> ~isEncryptionEnabled[u]]
  <2>1. e \in Sent /\ e.request.kind = "login"
    BY <1>1 DEF Sent, Request, ConnType
  <2>2. outbox' = [outbox EXCEPT ![u] = Append(@, e)] /\ inbox' = inbox
    BY <1>6 DEF SignIn, SendRequest
  <2> HIDE DEF e
  <2>3. outbox'[u] = Append(outbox[u], e) /\ \A x \in User : x # u => outbox'[x] = outbox[x]
    BY <1>1, <2>2 DEF ConnType
  <2>4. PICK p \in {"awaiting", "written"} : Goto(u, "main", p)
    BY <1>6 DEF SignIn, SendRequest
  <2>5. \A x \in User, s \in Threads : Steady(x, s)
    BY <1>4, <1>6, <2>4, PointFacts DEF SignIn, At
  <2>6. QED
    BY <2>1, <2>2, <2>3, <2>5, QuietStep DEF Steady
<1>7. CASE TakeResponse(u)
  <2>1. /\ inbox[u] # << >> /\ Head(inbox[u]).kind = "response"
        /\ thread[u]["reader"] = "idle"
    BY <1>7 DEF TakeResponse, HasFrame, At
  <2>2. inbox' = [inbox EXCEPT ![u] = Tail(@)] /\ outbox' = outbox
    BY <1>7 DEF TakeResponse
  <2>3. inbox'[u] = Tail(inbox[u]) /\ \A x \in User : x # u => inbox'[x] = inbox[x]
    BY <1>1, <2>2 DEF ConnType
  <2>4. \A x \in User, s \in Threads : Steady(x, s)
    BY <1>4, <1>7, <2>1, PointFacts DEF TakeResponse, Lower, Free
  <2>5. QED
    BY <2>1, <2>2, <2>3, <2>4, QuietStep DEF Steady
<1>8. CASE HandleRead(u)
  <2>1. \A x \in User, s \in Threads : Steady(x, s)
    BY <1>4, <1>8, PointFacts DEF HandleRead, At, Free
  <2>2. outbox' = outbox /\ inbox' = inbox
    BY <1>8 DEF HandleRead
  <2>3. QED
    BY <2>1, <2>2, QuietStep DEF Steady
<1>9. CASE HandleLogin(u)
  <2>1. PICK what \in {"authenticated", "other"} :
            inbox' = [inbox EXCEPT ![u] = Append(@, Answer(what))]
    BY <1>9 DEF HandleLogin
  <2>2. Answer(what) \in Frame /\ Answer(what).kind = "response"
    BY DEF Answer, Frame
  <2>3. inbox'[u] = Append(inbox[u], Answer(what))
        /\ \A x \in User : x # u => inbox'[x] = inbox[x]
    BY <1>1, <2>1 DEF ConnType
  <2>4. /\ outbox[u] # << >> /\ Head(outbox[u]).request.kind = "login"
        /\ outbox' = [outbox EXCEPT ![u] = Tail(@)] /\ thread' = thread
    BY <1>9 DEF HandleLogin
  <2>5. outbox'[u] = Tail(outbox[u]) /\ \A x \in User : x # u => outbox'[x] = outbox[x]
    BY <1>1, <2>4 DEF ConnType
  <2>6. \A x \in User, s \in Threads : Steady(x, s)
    BY <1>3, <2>4
  <2>7. QED
    BY <2>2, <2>3, <2>4, <2>5, <2>6, QuietStep DEF Steady
<1>10. CASE DisableEncryption(u, t)
  <2>1. \A x \in User, s \in Threads : Steady(x, s)
    BY <1>4, <1>10 DEF DisableEncryption, At, Points
  <2>2. outbox' = outbox /\ inbox' = inbox
    BY <1>10 DEF DisableEncryption
  <2>3. QED
    BY <2>1, <2>2, QuietStep DEF Steady
<1>11. CASE EnableEncryption(u, t)
  <2>1. thread[u][t] = "written" /\ Goto(u, t, "awaiting")
    BY <1>11 DEF EnableEncryption, At
  <2>2. \A x \in User, s \in Threads : Steady(x, s)
    BY <1>4, <2>1, PointFacts DEF Free
  <2>3. outbox' = outbox /\ inbox' = inbox
    BY <1>11 DEF EnableEncryption
  <2>4. QED
    BY <2>2, <2>3, QuietStep DEF Steady
<1>12. CASE ReadResponse(u, t)
  <2>1. thread[u][t] = "awaiting" /\ Goto(u, t, IF t = "main" THEN "idle" ELSE "updating")
    BY <1>12 DEF ReadResponse, Awoken, At
  <2>2. \A x \in User, s \in Threads : Steady(x, s)
    BY <1>4, <2>1, PointFacts DEF Free
  <2>3. outbox' = outbox /\ inbox' = inbox
    BY <1>12 DEF ReadResponse
  <2>4. QED
    BY <2>2, <2>3, QuietStep DEF Steady
<1>13. CASE ChangeEntry(u)
  <2>1. thread' = thread /\ outbox' = outbox /\ inbox' = inbox
    BY <1>13 DEF ChangeEntry
  <2>2. \A x \in User, s \in Threads : Steady(x, s)
    BY <1>3, <2>1
  <2>3. QED
    BY <2>1, <2>2, QuietStep DEF Steady
<1>14. QED
  BY <1>5, <1>6, <1>7, <1>8, <1>9, <1>10, <1>11, <1>12, <1>13

\* One thread makes a request, and nothing else goes on.
LEMMA OneThread ==
  ASSUME TypeOK, NEW u \in User, NEW t \in Threads, NEW p \in Points, Goto(u, t, p),
         thread[u][t] \in Preparing,
         \A x \in User, s \in Threads : x # u \/ s # t => making'[x][s] = making[x][s]
  PROVE  /\ \A x \in User, v \in User :
               x # u \/ v # making[u][t].peer =>
                   /\ t \in Preparers(x, v) => x # u
                   /\ \A s \in Preparers(x, v) : ReadyKept(x, s)
         /\ \A x \in User : x # u =>
               \A s \in Threads : thread'[x][s] = thread[x][s] /\ making'[x][s] = making[x][s]
         /\ \A s \in Threads : s # t => ReadyKept(u, s)
<1>1. \A x \in User, s \in Threads : x # u \/ s # t => thread'[x][s] = thread[x][s]
  BY TypeParts, GotoFacts
<1>2. QED
  BY <1>1 DEF Preparers, ReadyKept

\* The rows of the request that is being made.
LEMMA RowStep ==
  ASSUME Inv, NEW u \in User, NEW t \in Threads, thread[u][t] \in Preparing,
         UNCHANGED <<outbox, inbox, made, making, arrived, spoiled>>,
         NEW p \in {"deleted", "ready"}, Goto(u, t, p),
         NEW v \in User, v = making[u][t].peer,
         NEW rows, requests' = [requests EXCEPT ![u][v] = rows],
         PublicKept(u, v),
         p = "deleted" => rows = << >>,
         p = "ready" /\ RowInv(u, v) =>
             rows # << >> /\ Head(rows).private = making[u][t].pair
  PROVE  (\A x \in User : UserInv(x)') /\ \A x, y \in User : PairInv(x, y)'
<1>1. TypeOK /\ (\A x \in User : UserInv(x)) /\ \A x, y \in User : PairInv(x, y)
  BY DEF Inv
<1>2. ThreadType /\ TableType /\ p \in Points /\ p \in Preparing
  BY <1>1, TypeParts DEF Points, Preparing
<1>3. t \in Preparers(u, v)
  BY DEF Preparers
<1>4. u # v
  <2>1. making[u][t].pair \in Prepared(u, v)
    BY <1>3 DEF Prepared
  <2>2. QED
    BY <1>1, <2>1 DEF UserInv, Pending
<1>5. /\ requests'[u][v] = rows
      /\ \A x, y \in User : x # u \/ y # v => requests'[x][y] = requests[x][y]
  BY <1>2 DEF TableType
<1>6. ASSUME NEW x \in User, NEW y \in User  PROVE KeysKept(x, y)
  <2>1. \A s \in Threads : /\ thread'[x][s] \in Preparing <=> thread[x][s] \in Preparing
                           /\ making'[x][s] = making[x][s]
    BY <1>2, GotoFacts
  <2>2. Preparers(x, y)' = Preparers(x, y) /\ Prepared(x, y)' = Prepared(x, y)
    BY <2>1, PreparedKept
  <2>3. QED
    BY <2>2, SendingKept, ComingKept, TakenKept DEF KeysKept
<1>7. \A x, y \in User : PublicKept(x, y) /\ (x # u \/ y # v => PrivateKept(x, y))
  BY <1>5, RowsSame
<1>8. \A x, y \in User : x # u \/ y # v => \A s \in Preparers(x, y) : ReadyKept(x, s)
  BY <1>1, <1>2, OneThread
<1>9. made' \in Nat /\ made <= made'
  BY <1>1, PendingNumbers
<1>10. ASSUME NEW x \in User, NEW y \in User  PROVE PairInv(x, y)'
  <2>1. CASE x # u \/ y # v
    BY <1>1, <1>6, <1>7, <1>8, <1>9, <2>1, PairKept
  <2>2. CASE x = u /\ y = v
    <3> SUFFICES ASSUME <<u, v>> \notin spoiled
                 PROVE  /\ OrderInv(u, v)' /\ RowInv(u, v)'
                        /\ LastInv(u, v)' /\ HeldInv(u, v)' /\ NewerInv(u, v)'
      BY <2>2 DEF PairInv
    <3>1. OrderInv(u, v) /\ RowInv(u, v) /\ NewerInv(u, v)
      BY <1>1, <1>4 DEF PairInv
    <3>2. KeysKept(u, v) /\ Pending(u, v)' = Pending(u, v)
      BY <1>6, PendingKept
    <3>3. Preparers(u, v)' = {t}
      BY <1>3, <3>1, <3>2 DEF KeysKept, RowInv
    <3>4. Pending(u, v)' # {}
      <4>1. making[u][t].pair \in Pending(u, v)
        BY <1>3 DEF Pending, Prepared
      <4>2. QED
        BY <3>2, <4>1
    <3>5. OrderInv(u, v)'
      <4>1. \A k \in Pending(u, v)' : k <= made'
        BY <3>1, <3>2 DEF OrderInv
      <4>2. QED
        BY <3>1, <3>2, <4>1 DEF OrderInv, KeysKept, Below
    <3>6. RowInv(u, v)'
      <4>1. thread'[u][t] = p
        BY <1>2, GotoFacts
      <4>2. QED
        BY <1>5, <3>1, <3>3, <4>1 DEF RowInv
    <3>7. LastInv(u, v)' /\ HeldInv(u, v)'
      BY <3>3, <3>4 DEF LastInv, HeldInv
    <3>8. NewerInv(u, v)'
      BY <1>1, <1>7, <1>9, <3>1, <3>2, NewerKept
    <3>9. QED
      BY <3>5, <3>6, <3>7, <3>8
  <2>3. QED
    BY <2>1, <2>2
<1>11. ASSUME NEW x \in User  PROVE UserInv(x)'
  <2>1. Pending(x, x)' = {}
    BY <1>1, <1>6, PendingKept DEF UserInv
  <2>2. thread'[x]["reader"] \notin Free => thread[x]["reader"] \notin Free
    BY <1>2, GotoFacts, PointFacts DEF Free
  <2>3. QED
    BY <1>1, <1>7, <2>1, <2>2, UserKept
<1>12. QED
  BY <1>10, <1>11

\* savePrivateKeyToDatabase, first statement.
LEMMA InvDelete ==
  ASSUME Inv, NEW u \in User, NEW t \in Threads, DeleteRequest(u, t)
  PROVE  (\A x \in User : UserInv(x)') /\ \A x, v \in User : PairInv(x, v)'
<1>1. TypeOK /\ TableType
  BY TypeParts DEF Inv
<1>2. thread[u][t] \in Preparing
  BY DEF DeleteRequest, At, Preparing
<1>3. PICK v \in User : v = making[u][t].peer
  BY <1>1, <1>2, HandFacts
<1>4. requests' = [requests EXCEPT ![u][v] = << >>]
  BY <1>3 DEF DeleteRequest
<1>5. requests'[u][v] = << >>
  BY <1>1, <1>4 DEF TableType
<1>6. PublicKept(u, v)
  BY <1>5 DEF PublicKept, HasExchanged, Publics
<1>7. Goto(u, t, "deleted") /\ UNCHANGED <<outbox, inbox, made, making, arrived, spoiled>>
  BY DEF DeleteRequest
<1>8. QED
  BY <1>2, <1>3, <1>4, <1>6, <1>7, RowStep

\* Its second statement.
LEMMA InvInsert ==
  ASSUME Inv, NEW u \in User, NEW t \in Threads, InsertRequest(u, t)
  PROVE  (\A x \in User : UserInv(x)') /\ \A x, v \in User : PairInv(x, v)'
<1>1. TypeOK /\ TableType
  BY TypeParts DEF Inv
<1>2. thread[u][t] \in Preparing /\ thread[u][t] = "deleted"
  BY DEF InsertRequest, At, Preparing
<1>3. PICK v \in User : v = making[u][t].peer
  BY <1>1, <1>2, HandFacts
<1> DEFINE row == [private |-> making[u][t].pair, public |-> NoKey]
           old == requests[u][v]
           rows == Append(old, row)
<1>4. requests' = [requests EXCEPT ![u][v] = rows]
  BY <1>3 DEF InsertRequest
<1>5. old \in Seq(Row) /\ row \in Row /\ row.public = NoKey /\ row.private = making[u][t].pair
  BY <1>1, <1>2, HandFacts DEF TableType, Row
<1> HIDE DEF row
<1>6. /\ rows \in Seq(Row) /\ rows # << >> /\ Len(old) \in Nat
      /\ DOMAIN rows = 1 .. (Len(old) + 1) /\ DOMAIN old = 1 .. Len(old)
      /\ \A i \in 1 .. Len(old) : rows[i] = old[i]
      /\ rows[Len(old) + 1] = row
      /\ Head(rows) = rows[1]
  BY <1>5, AppendFacts, SeqFacts, TailFacts
<1> HIDE DEF rows
<1>7. requests'[u][v] = rows
  BY <1>1, <1>4 DEF TableType
<1>8. PublicKept(u, v)
  <2>1. SUFFICES ASSUME NEW i \in DOMAIN rows, rows[i].public # NoKey
                 PROVE  /\ HasExchanged(u, v) /\ Head(rows).public = Head(old).public
                        /\ rows[i].public \in Publics(u, v)
    BY <1>7 DEF PublicKept, HasExchanged, Publics
  <2>2. i \in DOMAIN old /\ rows[i] = old[i]
    BY <1>5, <1>6, <2>1
  <2>3. HasExchanged(u, v) /\ rows[i].public \in Publics(u, v)
    BY <2>1, <2>2 DEF HasExchanged, Publics
  <2>4. old # << >> /\ 1 \in 1 .. Len(old)
    BY <1>6, <2>2
  <2>5. Head(old) = old[1]
    BY <1>5, <2>4, TailFacts
  <2>6. QED
    BY <1>6, <2>3, <2>4, <2>5
<1>9. RowInv(u, v) => rows # << >> /\ Head(rows).private = making[u][t].pair
  <2>1. SUFFICES ASSUME RowInv(u, v)  PROVE Head(rows).private = making[u][t].pair
    BY <1>6
  <2>2. t \in Preparers(u, v)
    BY <1>2, <1>3 DEF Preparers
  <2>3. old = << >>
    BY <1>2, <2>1, <2>2 DEF RowInv
  <2>4. Len(old) = 0
    BY <2>3
  <2>5. QED
    BY <1>5, <1>6, <2>4
<1>10. Goto(u, t, "ready") /\ UNCHANGED <<outbox, inbox, made, making, arrived, spoiled>>
  BY DEF InsertRequest
<1>11. QED
  BY <1>2, <1>3, <1>4, <1>8, <1>9, <1>10, RowStep
\* A key is sent.
LEMMA InvSend ==
  ASSUME Inv, NEW u \in User, NEW t \in Threads, SendKey(u, t)
  PROVE  (\A x \in User : UserInv(x)') /\ \A x, v \in User : PairInv(x, v)'
<1>1. TypeOK /\ (\A x \in User : UserInv(x)) /\ \A x, y \in User : PairInv(x, y)
  BY DEF Inv
<1>2. ThreadType /\ TableType /\ ConnType
  BY <1>1, TypeParts
<1>3. thread[u][t] \in Preparing /\ thread[u][t] = "disabled"
  BY DEF SendKey, At, Preparing
<1>4. PICK v \in User : v = making[u][t].peer
  BY <1>1, <1>3, HandFacts
<1>5. PICK k \in Pairs : k = making[u][t].pair
  BY <1>1, <1>3, HandFacts
<1> DEFINE e == [request |-> [kind |-> "key", to |-> v, pair |-> k],
                 plain |-> ~isEncryptionEnabled[u]]
<1>6. /\ e \in Sent
      /\ e.request.kind = "key" /\ e.request.to = v /\ e.request.pair = k
  BY <1>2 DEF Sent, Request, ConnType
<1>7. outbox' = [outbox EXCEPT ![u] = Append(@, e)]
  BY <1>4, <1>5 DEF SendKey, SendRequest
<1> HIDE DEF e
<1>8. /\ outbox[u] \in Seq(Sent) /\ outbox'[u] = Append(outbox[u], e)
      /\ \A x \in User : x # u => outbox'[x] = outbox[x]
  BY <1>2, <1>7 DEF ConnType
<1>9. PICK p \in {"awaiting", "written"} : Goto(u, t, p)
  BY DEF SendKey, SendRequest
<1>10. p \in Points /\ p \notin Preparing /\ p \notin Free
  BY <1>9, PointFacts DEF Free
<1>11. making' = [making EXCEPT ![u][t] = Nothing]
       /\ UNCHANGED <<inbox, requests, made, arrived, spoiled>>
  BY DEF SendKey, SendRequest
<1>12. /\ making'[u][t] = Nothing
       /\ \A x \in User, s \in Threads : x # u \/ s # t => making'[x][s] = making[x][s]
  BY <1>2, <1>11 DEF TableType
<1>13. /\ thread'[u][t] = p
       /\ \A x \in User, s \in Threads : x # u \/ s # t => thread'[x][s] = thread[x][s]
  BY <1>2, <1>9, <1>10, GotoFacts
<1>14. t \in Preparers(u, v) /\ k \in Prepared(u, v)
  BY <1>3, <1>4, <1>5 DEF Preparers, Prepared
<1>15. u # v
  BY <1>1, <1>14 DEF UserInv, Pending
<1>16. ASSUME NEW x \in User, NEW y \in User, x # u \/ y # v  PROVE KeysKept(x, y)
  <2>1. Preparers(x, y)' = Preparers(x, y)
    <3>1. \A s \in Threads : s \in Preparers(x, y)' <=> s \in Preparers(x, y)
      BY <1>4, <1>10, <1>12, <1>13, <1>16 DEF Preparers, Preparing
    <3>2. QED
      BY <3>1 DEF Preparers
  <2>2. \A s \in Preparers(x, y) : making'[x][s] = making[x][s]
    BY <1>4, <1>12, <1>16 DEF Preparers
  <2>3. Prepared(x, y)' = Prepared(x, y)
    <3>1. Prepared(x, y)' = {making'[x][s].pair : s \in Preparers(x, y)'}
      BY DEF Prepared
    <3>2. QED
      BY <2>1, <2>2, <3>1 DEF Prepared
  <2>4. Sending(x, y)' = Sending(x, y) /\ (SendingInOrder(x, y) => SendingInOrder(x, y)')
    <3>1. CASE x = u
      <4>1. ~(e.request.kind = "key" /\ e.request.to = y)
        BY <1>6, <1>16, <3>1
      <4>2. QED
        BY <1>6, <1>8, <3>1, <4>1, SendingAside
    <3>2. CASE x # u
      BY <1>8, <3>2, SendingKept
    <3>3. QED
      BY <3>1, <3>2
  <2>5. QED
    BY <1>11, <2>1, <2>3, <2>4, ComingKept, TakenKept DEF KeysKept
<1>17. \A x, y \in User : PublicKept(x, y) /\ PrivateKept(x, y)
  BY <1>11, RowsSame
<1>18. made' \in Nat /\ made <= made'
  BY <1>1, <1>11, PendingNumbers
<1>19. ASSUME NEW x \in User, NEW y \in User, x # u \/ y # v  PROVE PairInv(x, y)'
  <2>1. \A s \in Preparers(x, y) : ReadyKept(x, s)
    BY <1>4, <1>12, <1>13, <1>19 DEF Preparers, ReadyKept
  <2>2. QED
    BY <1>1, <1>11, <1>16, <1>17, <1>18, <1>19, <2>1, PairKept
<1>20. PairInv(u, v)'
  <2> SUFFICES ASSUME <<u, v>> \notin spoiled
               PROVE  /\ OrderInv(u, v)' /\ RowInv(u, v)' /\ LastInv(u, v)' /\ HeldInv(u, v)'
                      /\ NewerInv(u, v)'
                    /\ NewerInv(u, v)'
    BY <1>11 DEF PairInv
  <2>1. OrderInv(u, v) /\ RowInv(u, v) /\ NewerInv(u, v)
    BY <1>1, <1>15 DEF PairInv
  <2>2. Preparers(u, v) = {t} /\ Prepared(u, v) = {k}
    BY <1>5, <1>14, <2>1 DEF RowInv, Prepared
  <2>3. Preparers(u, v)' = {}
    <3>1. Preparers(u, v)' \subseteq Preparers(u, v) \ {t}
      BY <1>10, <1>12, <1>13 DEF Preparers, Preparing
    <3>2. QED
      BY <2>2, <3>1
  <2>4. Prepared(u, v)' = {}
    BY <2>3 DEF Prepared
  <2>5. /\ Sending(u, v)' = Sending(u, v) \cup {k}
        /\ SendingInOrder(u, v)'
    <3>1. Below(Sending(u, v), {k}) /\ SendingInOrder(u, v)
      BY <2>1, <2>2 DEF OrderInv
    <3>2. QED
      BY <1>6, <1>8, <3>1, SendingAppend
  <2>6. Taken(u, v)' = Taken(u, v) /\ Coming(u, v)' = Coming(u, v)
        /\ (ComingInOrder(u, v) => ComingInOrder(u, v)')
    BY <1>11, ComingKept, TakenKept
  <2>7. Pending(u, v)' = Pending(u, v)
    BY <2>2, <2>4, <2>5, <2>6 DEF Pending
  <2>8. OrderInv(u, v)'
    <3>1. \A j \in Pending(u, v)' : j <= made'
      BY <1>11, <2>1, <2>7 DEF OrderInv
    <3>2. QED
      BY <2>1, <2>2, <2>4, <2>5, <2>6, <3>1 DEF OrderInv, Below
  <2>9. RowInv(u, v)'
    BY <2>3 DEF RowInv
  <2>10. k \in Pending(u, v) /\ \A j \in Pending(u, v) : j <= k
    <3>1. Pending(u, v) \subseteq Nat /\ k \in Pending(u, v)
      BY <1>1, <1>14, PendingNumbers DEF Pending
    <3>2. ASSUME NEW j \in Pending(u, v)  PROVE j = k \/ j < k
      BY <2>1, <2>2 DEF OrderInv, Pending, Below
    <3>3. QED
      BY <3>1, <3>2
  <2>11. requests[u][v] # << >> /\ Head(requests[u][v]).private = k
    BY <1>3, <1>5, <1>14, <2>1 DEF RowInv
  <2>12. LastInv(u, v)' /\ HeldInv(u, v)'
    BY <1>11, <2>7, <2>10, <2>11 DEF LastInv, HeldInv
  <2>13. NewerInv(u, v)'
    BY <1>1, <1>17, <1>18, <2>1, <2>7, NewerKept
  <2>14. QED
    BY <2>8, <2>9, <2>12, <2>13
<1>21. ASSUME NEW x \in User  PROVE UserInv(x)'
  <2>1. Pending(x, x)' = {}
    BY <1>1, <1>15, <1>16, PendingKept DEF UserInv
  <2>2. thread'[x]["reader"] \notin Free => thread[x]["reader"] \notin Free
    BY <1>3, <1>13, PointFacts DEF Free
  <2>3. QED
    BY <1>1, <1>11, <1>17, <2>1, <2>2, UserKept
<1>22. QED
  BY <1>19, <1>20, <1>21

\* A key is generated, and the rest of the pair stays as it is.
LEMMA PairGenerate ==
  ASSUME TypeOK, NEW u \in User, NEW v \in User, NEW t \in Threads, PairInv(u, v),
         Generate(u, t, v), thread[u][t] \notin Preparing,
         UNCHANGED <<outbox, requests>>, arrived'[v] = arrived[v], inbox'[v] = inbox[v]
  PROVE  PairInv(u, v)'
<1> SUFFICES ASSUME u # v, <<u, v>> \notin spoiled'
             PROVE  /\ OrderInv(u, v)' /\ RowInv(u, v)' /\ LastInv(u, v)' /\ HeldInv(u, v)'
                    /\ NewerInv(u, v)'
                    /\ NewerInv(u, v)'
  BY DEF PairInv
<1>1. Preparers(u, v) = {} /\ <<u, v>> \notin spoiled
  BY DEF Generate
<1>2. OrderInv(u, v) /\ NewerInv(u, v)
  BY <1>1 DEF PairInv
<1>3. made' = made + 1 /\ making' = [making EXCEPT ![u][t] = [peer |-> v, pair |-> made']]
  BY DEF Generate
<1>4. /\ making'[u][t] = [peer |-> v, pair |-> made']
      /\ \A s \in Threads : s # t => making'[u][s] = making[u][s]
  BY <1>3, TypeParts DEF TableType
<1>5. "chosen" \in Points /\ "chosen" \in Preparing /\ Goto(u, t, "chosen")
  BY DEF Points, Preparing, Generate
<1>6. /\ thread'[u][t] = "chosen"
      /\ \A s \in Threads : s # t => thread'[u][s] = thread[u][s]
  BY <1>5, TypeParts, GotoFacts
<1>7. Preparers(u, v)' = {t}
  <2>1. \A s \in Threads : s # t => s \notin Preparers(u, v)'
    BY <1>1, <1>4, <1>6 DEF Preparers, Preparing
  <2>2. t \in Preparers(u, v)'
    BY <1>4, <1>5, <1>6 DEF Preparers, Preparing
  <2>3. QED
    BY <2>1, <2>2 DEF Preparers
<1>8. Prepared(u, v)' = {made'}
  <2>1. Prepared(u, v)' = {making'[u][s].pair : s \in Preparers(u, v)'}
    BY DEF Prepared
  <2>2. QED
    BY <1>4, <1>7, <2>1
<1>9. Prepared(u, v) = {}
  BY <1>1 DEF Prepared
<1>10. /\ Taken(u, v)' = Taken(u, v) /\ Coming(u, v)' = Coming(u, v)
       /\ Sending(u, v)' = Sending(u, v)
       /\ (ComingInOrder(u, v) => ComingInOrder(u, v)')
       /\ (SendingInOrder(u, v) => SendingInOrder(u, v)')
  BY SendingKept, ComingKept, TakenKept
<1>11. Pending(u, v)' = Pending(u, v) \cup {made'}
  BY <1>8, <1>9, <1>10 DEF Pending
<1>12. \A k \in Pending(u, v) : k < made'
  <2>1. Pending(u, v) \subseteq Nat /\ made \in Nat
    BY PendingNumbers
  <2>2. \A k \in Pending(u, v) : k <= made
    BY <1>2 DEF OrderInv
  <2>3. QED
    BY <1>3, <2>1, <2>2
<1>13. OrderInv(u, v)'
  <2>1. \A k \in Pending(u, v)' : k <= made'
    <3>1. Pending(u, v) \subseteq Nat /\ made' \in Nat
      BY <1>3, PendingNumbers
    <3>2. QED
      BY <1>11, <1>12, <3>1
  <2>2. Below(Taken(u, v) \cup Coming(u, v) \cup Sending(u, v), {made'})
    BY <1>12 DEF Below, Pending
  <2>3. QED
    BY <1>2, <1>8, <1>10, <2>1, <2>2 DEF OrderInv, Below
<1>14. RowInv(u, v)'
  BY <1>6, <1>7 DEF RowInv
<1>15. LastInv(u, v)' /\ HeldInv(u, v)'
  BY <1>7, <1>11 DEF LastInv, HeldInv
<1>16. NewerInv(u, v)'
  <2>1. made' \in Nat /\ made <= made'
    BY <1>3, PendingNumbers
  <2>2. PublicKept(v, u)
    BY RowsSame
  <2>3. QED
    BY <1>2, <1>11, <2>1, <2>2, NewerKept
<1>17. QED
  BY <1>13, <1>14, <1>15, <1>16
\* For the other pairs of users, nothing is made.
LEMMA GenerateElsewhere ==
  ASSUME TypeOK, NEW u \in User, NEW v \in User, NEW t \in Threads,
         Generate(u, t, v), thread[u][t] \notin Preparing
  PROVE  /\ spoiled \subseteq spoiled' /\ made' \in Nat /\ made <= made'
         /\ \A x, y \in User : x # u \/ y # v =>
               /\ Preparers(x, y)' = Preparers(x, y)
               /\ Prepared(x, y)' = Prepared(x, y)
               /\ \A s \in Preparers(x, y) : ReadyKept(x, s)
<1>1. spoiled \subseteq spoiled' /\ made' \in Nat /\ made <= made'
  <2>1. made \in Nat /\ made' = made + 1
    BY PendingNumbers DEF Generate
  <2>2. QED
    BY <2>1 DEF Generate
<1>2. making' = [making EXCEPT ![u][t] = [peer |-> v, pair |-> made']]
  BY DEF Generate
<1>3. /\ making'[u][t] = [peer |-> v, pair |-> made']
      /\ \A x \in User, s \in Threads : x # u \/ s # t => making'[x][s] = making[x][s]
  BY <1>2, TypeParts DEF TableType
<1>4. "chosen" \in Points /\ Goto(u, t, "chosen")
  BY DEF Points, Generate
<1>5. \A x \in User, s \in Threads : x # u \/ s # t => thread'[x][s] = thread[x][s]
  BY <1>4, TypeParts, GotoFacts
<1>6. ASSUME NEW x \in User, NEW y \in User, x # u \/ y # v
      PROVE  /\ Preparers(x, y)' = Preparers(x, y)
             /\ Prepared(x, y)' = Prepared(x, y)
             /\ \A s \in Preparers(x, y) : ReadyKept(x, s)
  <2>1. \A s \in Threads : s \in Preparers(x, y)' <=> s \in Preparers(x, y)
    BY <1>3, <1>5, <1>6 DEF Preparers, Preparing
  <2>2. Preparers(x, y)' = Preparers(x, y)
    BY <2>1 DEF Preparers
  <2>3. \A s \in Preparers(x, y) : thread'[x][s] = thread[x][s] /\ making'[x][s] = making[x][s]
    BY <1>3, <1>5 DEF Preparers
  <2>4. Prepared(x, y)' = {making'[x][s].pair : s \in Preparers(x, y)'}
    BY DEF Prepared
  <2>5. QED
    BY <2>2, <2>3, <2>4 DEF Prepared, ReadyKept
<1>7. QED
  BY <1>1, <1>6

\* The command `request`.
LEMMA InvRequest ==
  ASSUME Inv, NEW u \in User, NEW v \in User, RequestKeys(u, v)
  PROVE  (\A x \in User : UserInv(x)') /\ \A x, y \in User : PairInv(x, y)'
<1>1. TypeOK /\ (\A x \in User : UserInv(x)) /\ \A x, y \in User : PairInv(x, y)
  BY DEF Inv
<1>2. /\ u # v /\ thread[u]["main"] = "idle" /\ Generate(u, "main", v)
      /\ UNCHANGED <<outbox, inbox, requests, arrived>>
  BY DEF RequestKeys, At
<1>3. "main" \in Threads /\ thread[u]["main"] \notin Preparing
  BY <1>2, PointFacts
<1>4. PairInv(u, v)'
  BY <1>1, <1>2, <1>3, PairGenerate
<1>5. /\ spoiled \subseteq spoiled' /\ made' \in Nat /\ made <= made'
      /\ \A x, y \in User : x # u \/ y # v =>
            /\ Preparers(x, y)' = Preparers(x, y)
            /\ Prepared(x, y)' = Prepared(x, y)
            /\ \A s \in Preparers(x, y) : ReadyKept(x, s)
  BY <1>1, <1>2, <1>3, GenerateElsewhere
<1>6. \A x, y \in User : x # u \/ y # v => KeysKept(x, y)
  BY <1>2, <1>5, SendingKept, ComingKept, TakenKept DEF KeysKept
<1>7. \A x, y \in User : PublicKept(x, y) /\ PrivateKept(x, y)
  BY <1>2, RowsSame
<1>8. ASSUME NEW x \in User, NEW y \in User, x # u \/ y # v  PROVE PairInv(x, y)'
  BY <1>1, <1>5, <1>6, <1>7, <1>8, PairKept
<1>9. ASSUME NEW x \in User  PROVE UserInv(x)'
  <2>1. Pending(x, x)' = {}
    BY <1>1, <1>2, <1>6, PendingKept DEF UserInv
  <2>2. thread'[x]["reader"] = thread[x]["reader"] /\ arrived' = arrived
    <3>1. "chosen" \in Points /\ Goto(u, "main", "chosen") /\ ThreadType
      BY <1>1, <1>2, TypeParts DEF Generate, Points
    <3>2. QED
      BY <1>2, <3>1, PointFacts, GotoFacts
  <2>3. QED
    BY <1>1, <1>7, <2>1, <2>2, UserKept
<1>10. QED
  BY <1>4, <1>8, <1>9

\* The reader has a key in its hands, which was the first of those in the inbox.
LEMMA PairTake ==
  ASSUME TypeOK, NEW u \in User, NEW v \in User, PairInv(u, v), NEW k,
         Taken(u, v) = {}, Taken(u, v)' = {k},
         Coming(u, v) = {k} \cup Coming(u, v)',
         ComingInOrder(u, v) => Below({k}, Coming(u, v)') /\ ComingInOrder(u, v)',
         UNCHANGED <<outbox, requests>>,
         spoiled \subseteq spoiled', made' \in Nat, made <= made',
         Preparers(u, v)' = Preparers(u, v), Prepared(u, v)' = Prepared(u, v),
         \A t \in Preparers(u, v) : ReadyKept(u, t)
  PROVE  PairInv(u, v)'
<1> SUFFICES ASSUME u # v, <<u, v>> \notin spoiled'
             PROVE  /\ OrderInv(u, v)' /\ RowInv(u, v)' /\ LastInv(u, v)' /\ HeldInv(u, v)'
                    /\ NewerInv(u, v)'
                    /\ NewerInv(u, v)'
  BY DEF PairInv
<1>1. OrderInv(u, v) /\ RowInv(u, v) /\ LastInv(u, v) /\ HeldInv(u, v) /\ NewerInv(u, v)
  BY DEF PairInv
<1>2. Sending(u, v)' = Sending(u, v) /\ (SendingInOrder(u, v) => SendingInOrder(u, v)')
  BY SendingKept
<1>3. Pending(u, v)' = Pending(u, v)
  BY <1>2 DEF Pending
<1>4. Pending(u, v) \subseteq Nat /\ made \in Nat
  BY PendingNumbers
<1>5. OrderInv(u, v)'
  <2>1. \A j \in Pending(u, v)' : j <= made'
    BY <1>1, <1>3, <1>4 DEF OrderInv
  <2>2. Below({k}, Coming(u, v)') /\ ComingInOrder(u, v)'
    BY <1>1 DEF OrderInv
  <2>3. QED
    BY <1>1, <1>2, <2>1, <2>2 DEF OrderInv, Below
<1>6. PublicKept(v, u) /\ PrivateKept(u, v)
  BY RowsSame
<1>7. RowInv(u, v)'
  BY <1>1, <1>6, RowKept
<1>8. LastInv(u, v)'
  BY <1>1, <1>3 DEF LastInv
<1>9. HeldInv(u, v)'
  BY <1>1, <1>3, <1>6 DEF HeldInv, PublicKept
<1>10. NewerInv(u, v)'
  BY <1>1, <1>3, <1>6, NewerKept
<1>11. QED
  BY <1>5, <1>7, <1>8, <1>9, <1>10

\* The reader takes a key in.
LEMMA InvTake ==
  ASSUME Inv, NEW u \in User, TakeKey(u)
  PROVE  (\A x \in User : UserInv(x)') /\ \A x, y \in User : PairInv(x, y)'
<1>1. TypeOK /\ (\A x \in User : UserInv(x)) /\ \A x, y \in User : PairInv(x, y)
  BY DEF Inv
<1>2. ThreadType /\ TableType /\ ConnType /\ Fit
  BY <1>1, TypeParts
<1>3. HasFrame(u, "key")
  BY DEF TakeKey
<1> DEFINE f == Head(inbox[u])
<1>4. /\ inbox[u] \in Seq(Frame) /\ inbox[u] # << >> /\ f.kind = "key"
      /\ thread[u]["reader"] = "idle"
  BY <1>1, <1>3, FrameFacts
<1>5. PICK w \in User : w = f.from
  BY <1>1, <1>3, FrameFacts
<1>6. PICK k \in Pairs : k = f.pair
  BY <1>1, <1>3, FrameFacts
<1>7. /\ inbox' = [inbox EXCEPT ![u] = Tail(@)]
      /\ arrived' = [arrived EXCEPT ![u] = [peer |-> w, pair |-> k]]
      /\ UNCHANGED <<outbox, requests>>
  BY <1>5, <1>6 DEF TakeKey
<1>8. \/ Goto(u, "reader", "updating") /\ UNCHANGED <<made, making, spoiled>>
      \/ requests[u][w] = << >> /\ Generate(u, "reader", w)
  BY <1>5 DEF TakeKey
<1>9. /\ inbox'[u] = Tail(inbox[u])
      /\ \A x \in User : x # u => inbox'[x] = inbox[x]
  BY <1>2, <1>7 DEF ConnType
<1>10. /\ arrived'[u] = [peer |-> w, pair |-> k]
       /\ \A x \in User : x # u => arrived'[x] = arrived[x]
  BY <1>2, <1>7 DEF TableType
<1> HIDE DEF f
<1>11. \A x \in User : Taken(x, u) = {}
  BY <1>2, <1>4, MadeFacts DEF Fit, Taken
<1>12. \A x \in User : Taken(x, u)' = IF x = w THEN {k} ELSE {}
  BY <1>10 DEF Taken
<1>13. /\ Coming(w, u) = {k} \cup Coming(w, u)'
       /\ ComingInOrder(w, u) => Below({k}, Coming(w, u)') /\ ComingInOrder(w, u)'
  <2> DEFINE old == IF f.kind = "key" /\ f.from = w THEN {f.pair} ELSE {}
  <2>1. old = {k}
    BY <1>4, <1>5, <1>6
  <2>2. /\ Coming(w, u) = old \cup Coming(w, u)'
        /\ ComingInOrder(w, u) => Below(old, Coming(w, u)') /\ ComingInOrder(w, u)'
    BY <1>4, <1>9, ComingTail DEF f
  <2>3. QED
    BY <2>1, <2>2
<1>14. w # u
  BY <1>1, <1>13 DEF UserInv, Pending
<1>15. ASSUME NEW x \in User, NEW y \in User, x # w \/ y # u
       PROVE  /\ Taken(x, y)' = Taken(x, y)
              /\ Coming(x, y)' = Coming(x, y) /\ (ComingInOrder(x, y) => ComingInOrder(x, y)')
              /\ Sending(x, y)' = Sending(x, y) /\ (SendingInOrder(x, y) => SendingInOrder(x, y)')
  <2>1. Taken(x, y)' = Taken(x, y)
    BY <1>10, <1>11, <1>12, <1>15, TakenKept
  <2>2. Coming(x, y)' = Coming(x, y) /\ (ComingInOrder(x, y) => ComingInOrder(x, y)')
    <3>1. CASE y # u
      BY <1>9, <3>1, ComingKept
    <3>2. CASE y = u
      BY <1>4, <1>5, <1>9, <1>15, <3>2, ComingAside DEF f
    <3>3. QED
      BY <3>1, <3>2
  <2>3. QED
    BY <1>7, <2>1, <2>2, SendingKept
<1>16. \A x, y \in User : PublicKept(x, y) /\ PrivateKept(x, y)
  BY <1>7, RowsSame
<1>17. "reader" \in Threads /\ thread[u]["reader"] \notin Preparing
  BY <1>4, PointFacts
<1>18. /\ spoiled \subseteq spoiled' /\ made' \in Nat /\ made <= made'
       /\ \A x, y \in User : PairInv(x, y)' \/ /\ Preparers(x, y)' = Preparers(x, y)
                                               /\ Prepared(x, y)' = Prepared(x, y)
                                               /\ \A s \in Preparers(x, y) : ReadyKept(x, s)
       /\ \A x \in User : Preparers(x, x)' = Preparers(x, x) /\ Prepared(x, x)' = Prepared(x, x)
  <2>1. CASE Goto(u, "reader", "updating") /\ UNCHANGED <<made, making, spoiled>>
    <3>1. \A x \in User, s \in Threads :
             /\ thread'[x][s] \in Preparing <=> thread[x][s] \in Preparing
             /\ making'[x][s] = making[x][s]
             /\ thread[x][s] \in Preparing => thread'[x][s] = thread[x][s]
      BY <1>2, <1>17, <2>1, PointFacts, GotoFacts
    <3>2. \A x, y \in User : /\ Preparers(x, y)' = Preparers(x, y)
                             /\ Prepared(x, y)' = Prepared(x, y)
      BY <3>1, PreparedKept
    <3>3. \A x, y \in User : \A s \in Preparers(x, y) : ReadyKept(x, s)
      BY <3>1 DEF Preparers, ReadyKept
    <3>4. made' \in Nat /\ made <= made'
      BY <1>1, <2>1, PendingNumbers
    <3>5. QED
      BY <2>1, <3>2, <3>3, <3>4
  <2>2. CASE Generate(u, "reader", w)
    <3>1. PairInv(u, w)'
      BY <1>1, <1>7, <1>9, <1>10, <1>14, <1>17, <2>2, PairGenerate
    <3>2. QED
      BY <1>1, <1>14, <1>17, <2>2, <3>1, GenerateElsewhere
  <2>3. QED
    BY <1>8, <2>1, <2>2
<1>19. ASSUME NEW x \in User, NEW y \in User  PROVE PairInv(x, y)'
  <2>1. SUFFICES ASSUME Preparers(x, y)' = Preparers(x, y), Prepared(x, y)' = Prepared(x, y),
                        \A s \in Preparers(x, y) : ReadyKept(x, s)
                 PROVE  PairInv(x, y)'
    BY <1>18
  <2>2. CASE x # w \/ y # u
    <3>1. KeysKept(x, y)
      BY <1>15, <2>1, <2>2 DEF KeysKept
    <3>2. QED
      BY <1>1, <1>16, <1>18, <2>1, <3>1, PairKept
  <2>3. CASE x = w /\ y = u
    BY <1>1, <1>7, <1>11, <1>12, <1>13, <1>18, <2>1, <2>3, PairTake
  <2>4. QED
    BY <2>2, <2>3
<1>20. ASSUME NEW x \in User  PROVE UserInv(x)'
  <2>1. Pending(x, x)' = {}
    <3>1. KeysKept(x, x)
      BY <1>14, <1>15, <1>18 DEF KeysKept
    <3>2. QED
      BY <1>1, <3>1, PendingKept DEF UserInv
  <2>2. CASE x = u /\ requests[u][w] = << >>
    <3>1. ~HasExchanged(u, arrived[u].peer)'
      BY <1>7, <1>10, <2>2 DEF HasExchanged
    <3>2. QED
      BY <2>1, <2>2, <3>1 DEF UserInv
  <2>3. CASE x # u \/ Goto(u, "reader", "updating")
    <3>1. PICK p \in Points : Goto(u, "reader", p) /\ (x # u \/ p = "updating")
      BY <1>8, <2>3 DEF Generate, Points
    <3>2. thread'[x]["reader"] \notin Free =>
             thread[x]["reader"] \notin Free /\ arrived'[x] = arrived[x]
      BY <1>2, <1>10, <1>17, <3>1, GotoFacts DEF Free
    <3>3. QED
      BY <1>1, <1>16, <2>1, <3>2, UserKept
  <2>4. QED
    BY <1>8, <2>2, <2>3
<1>21. QED
  BY <1>19, <1>20
\* The reader puts down the key that it had in its hands; of the others, none moves.
LEMMA PairDropped ==
  ASSUME TypeOK, NEW u \in User, NEW v \in User, NEW k \in Nat,
         OrderInv(u, v), RowInv(u, v), LastInv(u, v),
         Taken(u, v) = {k}, Taken(u, v)' = {},
         Coming(u, v)' = Coming(u, v) /\ (ComingInOrder(u, v) => ComingInOrder(u, v)'),
         Sending(u, v)' = Sending(u, v) /\ (SendingInOrder(u, v) => SendingInOrder(u, v)'),
         Preparers(u, v)' = Preparers(u, v), Prepared(u, v)' = Prepared(u, v),
         \A t \in Preparers(u, v) : ReadyKept(u, t),
         requests'[u][v] = requests[u][v], made' = made
  PROVE  OrderInv(u, v)' /\ RowInv(u, v)' /\ LastInv(u, v)'
<1>1. Pending(u, v) = {k} \cup Pending(u, v)' /\ Pending(u, v) \subseteq Nat
  BY PendingNumbers DEF Pending
<1>2. \A j \in Pending(u, v)' : k < j
  BY DEF OrderInv, Pending, Below
<1>3. OrderInv(u, v)'
  <2>1. \A j \in Pending(u, v)' : j <= made'
    BY <1>1 DEF OrderInv
  <2>2. QED
    BY <2>1 DEF OrderInv, Below
<1>4. RowInv(u, v)'
  BY RowsSame, RowKept
<1>5. LastInv(u, v)'
  <2>1. SUFFICES ASSUME Preparers(u, v) = {}, Pending(u, v)' # {}
                 PROVE  /\ requests[u][v] # << >>
                        /\ Head(requests[u][v]).private \in Pending(u, v)'
                        /\ \A j \in Pending(u, v)' : j <= Head(requests[u][v]).private
    BY DEF LastInv
  <2> DEFINE h == Head(requests[u][v]).private
  <2>2. requests[u][v] # << >> /\ h \in Pending(u, v) /\ \A j \in Pending(u, v) : j <= h
    BY <1>1, <2>1 DEF LastInv
  <2> HIDE DEF h
  <2>3. PICK j \in Pending(u, v)' : TRUE
    BY <2>1
  <2>4. k < j /\ j <= h /\ j \in Nat /\ h \in Nat
    BY <1>1, <1>2, <2>2
  <2>5. h \in Pending(u, v)'
    BY <1>1, <2>2, <2>4
  <2>6. QED
    BY <1>1, <2>2, <2>5 DEF h
<1>6. QED
  BY <1>3, <1>4, <1>5

\* The UPDATE: every row shows the key that came in, and keeps its private key.
LEMMA StoredRows ==
  ASSUME NEW s \in Seq(Row), NEW k \in Pairs
  PROVE  LET r == [i \in DOMAIN s |-> [s[i] EXCEPT !.public = k]]
         IN  /\ r = << >> <=> s = << >>
             /\ s # << >> => Head(r).private = Head(s).private /\ Head(r).public = k
             /\ \A i \in DOMAIN r : r[i].public = k
<1> DEFINE r == [i \in DOMAIN s |-> [s[i] EXCEPT !.public = k]]
<1>1. Len(s) \in Nat /\ DOMAIN s = 1 .. Len(s) /\ \A i \in DOMAIN s : s[i] \in Row
  BY SeqFacts
<1>2. \A i \in 1 .. Len(s) : /\ [s[i] EXCEPT !.public = k] \in Row
                             /\ [s[i] EXCEPT !.public = k].private = s[i].private
                             /\ [s[i] EXCEPT !.public = k].public = k
  BY <1>1 DEF Row
<1>3. r \in [1 .. Len(s) -> Row]
  BY <1>1, <1>2
<1>4. r \in Seq(Row) /\ Len(r) = Len(s)
  <2> HIDE DEF r
  <2>1. QED
    BY <1>1, <1>3
<1>5. \A i \in 1 .. Len(s) : r[i].private = s[i].private /\ r[i].public = k
  BY <1>1, <1>2
<1>6. \A i \in DOMAIN r : r[i].public = k
  BY <1>1, <1>5
<1> HIDE DEF r
<1>7. r = << >> <=> s = << >>
  BY <1>1, <1>4
<1>8. ASSUME s # << >>  PROVE Head(r).private = Head(s).private /\ Head(r).public = k
  <2>1. Head(r) = r[1] /\ Head(s) = s[1] /\ 1 \in 1 .. Len(s)
    BY <1>1, <1>4, <1>7, <1>8, TailFacts
  <2>2. QED
    BY <1>5, <2>1
<1>9. QED
  BY <1>6, <1>7, <1>8 DEF r

\* The reader stores a key.
LEMMA InvStore ==
  ASSUME Inv, NEW u \in User, StoreKey(u)
  PROVE  (\A x \in User : UserInv(x)') /\ \A x, y \in User : PairInv(x, y)'
<1>1. TypeOK /\ (\A x \in User : UserInv(x)) /\ \A x, y \in User : PairInv(x, y)
  BY DEF Inv
<1>2. ThreadType /\ TableType /\ ConnType /\ Fit
  BY <1>1, TypeParts
<1>3. thread[u]["reader"] = "updating" /\ Goto(u, "reader", "window")
  BY DEF StoreKey, At, Lower
<1>4. arrived[u].peer \in User /\ arrived[u].pair \in Pairs
  BY <1>1, <1>3, HandFacts, PointFacts
<1>5. PICK w \in User : w = arrived[u].peer
  BY <1>4
<1>6. PICK k \in Pairs : k = arrived[u].pair
  BY <1>4
<1> DEFINE old == requests[u][w]
           rows == [i \in DOMAIN old |-> [old[i] EXCEPT !.public = k]]
<1>7. requests' = [requests EXCEPT ![u][w] = rows]
  BY <1>5, <1>6 DEF StoreKey
<1>8. old \in Seq(Row)
  BY <1>2 DEF TableType
<1>9. /\ rows = << >> <=> old = << >>
      /\ old # << >> => Head(rows).private = Head(old).private /\ Head(rows).public = k
      /\ \A i \in DOMAIN rows : rows[i].public = k
  BY <1>8, StoredRows
<1> HIDE DEF rows
<1>10. /\ requests'[u][w] = rows
       /\ \A x, y \in User : x # u \/ y # w => requests'[x][y] = requests[x][y]
  BY <1>2, <1>7 DEF TableType
<1>11. arrived' = [arrived EXCEPT ![u] = Nothing]
       /\ UNCHANGED <<outbox, inbox, made, making, spoiled>>
  BY DEF StoreKey
<1>12. arrived'[u] = Nothing /\ \A x \in User : x # u => arrived'[x] = arrived[x]
  BY <1>2, <1>11 DEF TableType
<1>13. /\ Taken(w, u) = {k}
       /\ \A x \in User : x # w => Taken(x, u) = {}
       /\ \A x \in User : Taken(x, u)' = {}
  BY <1>5, <1>6, <1>12, MadeFacts DEF Taken
<1>14. w # u
  BY <1>1, <1>13 DEF UserInv, Pending
<1>15. \A x \in User, s \in Threads :
          /\ thread'[x][s] \in Preparing <=> thread[x][s] \in Preparing
          /\ making'[x][s] = making[x][s]
          /\ thread[x][s] \in Preparing => thread'[x][s] = thread[x][s]
  BY <1>2, <1>3, <1>11, PointFacts, GotoFacts
<1>16. ASSUME NEW x \in User, NEW y \in User
       PROVE  /\ Coming(x, y)' = Coming(x, y) /\ (ComingInOrder(x, y) => ComingInOrder(x, y)')
              /\ Sending(x, y)' = Sending(x, y) /\ (SendingInOrder(x, y) => SendingInOrder(x, y)')
              /\ Preparers(x, y)' = Preparers(x, y) /\ Prepared(x, y)' = Prepared(x, y)
              /\ \A s \in Preparers(x, y) : ReadyKept(x, s)
  <2>1. \A s \in Preparers(x, y) : ReadyKept(x, s)
    BY <1>15 DEF Preparers, ReadyKept
  <2>2. Preparers(x, y)' = Preparers(x, y) /\ Prepared(x, y)' = Prepared(x, y)
    BY <1>15, PreparedKept
  <2>3. QED
    BY <1>11, <2>1, <2>2, SendingKept, ComingKept
<1>17. ASSUME NEW x \in User, NEW y \in User, x # w \/ y # u  PROVE KeysKept(x, y)
  <2>1. Taken(x, y)' = Taken(x, y)
    BY <1>12, <1>13, <1>17, TakenKept
  <2>2. QED
    BY <1>16, <2>1 DEF KeysKept
<1>18. \A x, y \in User : PrivateKept(x, y) /\ (x # u \/ y # w => PublicKept(x, y))
  <2>1. PrivateKept(u, w)
    BY <1>9, <1>10 DEF PrivateKept
  <2>2. QED
    BY <1>10, <2>1, RowsSame
<1>19. made' \in Nat /\ made <= made'
  BY <1>1, <1>11, PendingNumbers
<1>20. ASSUME NEW x \in User, NEW y \in User, x # w \/ y # u  PROVE PairInv(x, y)'
  BY <1>1, <1>11, <1>16, <1>17, <1>18, <1>19, <1>20, PairKept
<1>21. PairInv(w, u)'
  <2> SUFFICES ASSUME <<w, u>> \notin spoiled
               PROVE  /\ OrderInv(w, u)' /\ RowInv(w, u)' /\ LastInv(w, u)' /\ HeldInv(w, u)'
                      /\ NewerInv(w, u)'
    BY <1>11 DEF PairInv
  <2>1. OrderInv(w, u) /\ RowInv(w, u) /\ LastInv(w, u)
    BY <1>1, <1>14 DEF PairInv
  <2>2. k \in Nat
    BY ExchangeAssumption DEF Pairs
  <2>3. requests'[w][u] = requests[w][u]
    BY <1>10, <1>14
  <2>4. OrderInv(w, u)' /\ RowInv(w, u)' /\ LastInv(w, u)'
    BY <1>1, <1>11, <1>13, <1>16, <2>1, <2>2, <2>3, PairDropped
  <2>5. HeldInv(w, u)'
    <3>1. SUFFICES ASSUME HasExchanged(u, w)', Pending(w, u)' = {}
                   PROVE  /\ requests[w][u] # << >>
                          /\ Head(requests'[u][w]).public = Head(requests[w][u]).private
      BY <2>3 DEF HeldInv
    <3>2. Coming(w, u) = {} /\ Sending(w, u) = {} /\ Prepared(w, u) = {}
      <4>1. /\ Coming(w, u)' = Coming(w, u) /\ Sending(w, u)' = Sending(w, u)
            /\ Prepared(w, u)' = Prepared(w, u)
        BY <1>16
      <4>2. QED
        BY <3>1, <4>1 DEF Pending
    <3>3. Pending(w, u) = {k} /\ Preparers(w, u) = {}
      BY <1>13, <3>2 DEF Pending, Prepared
    <3>4. requests[w][u] # << >> /\ Head(requests[w][u]).private = k
      BY <2>1, <3>3 DEF LastInv
    <3>5. rows # << >>
      BY <1>10, <3>1 DEF HasExchanged
    <3>6. QED
      BY <1>9, <1>10, <3>4, <3>5
  <2>6. NewerInv(w, u)'
    <3>1. Publics(u, w)' \subseteq {k}
      BY <1>9, <1>10 DEF Publics
    <3>2. k <= made' /\ \A j \in Pending(w, u)' : k < j
      BY <1>11, <1>13, <1>16, <2>1 DEF OrderInv, Pending, Below
    <3>3. Pending(w, u)' \subseteq Nat
      <4>1. Pending(w, u)' \subseteq Pending(w, u)
        BY <1>13, <1>16 DEF Pending
      <4>2. QED
        BY <1>1, <4>1, PendingNumbers
    <3>4. QED
      BY <2>2, <3>1, <3>2, <3>3 DEF NewerInv
  <2>7. QED
    BY <2>4, <2>5, <2>6
<1>22. ASSUME NEW x \in User  PROVE UserInv(x)'
  <2>1. Pending(x, x)' = {}
    BY <1>1, <1>14, <1>17, PendingKept DEF UserInv
  <2>2. "window" \in Points /\ "window" \in Free
    BY PointFacts DEF Free
  <2>3. thread'[x]["reader"] \notin Free =>
             x # u /\ thread[x]["reader"] \notin Free /\ arrived'[x] = arrived[x]
    BY <1>2, <1>3, <1>12, <2>2, PointFacts, GotoFacts
  <2>4. QED
    BY <1>1, <1>18, <2>1, <2>3, UserKept
<1>23. QED
  BY <1>20, <1>21, <1>22
\* The server takes a key, and passes it on or loses it.
LEMMA InvRelay ==
  ASSUME Inv, NEW u \in User, RelayKey(u)
  PROVE  (\A x \in User : UserInv(x)') /\ \A x, y \in User : PairInv(x, y)'
<1>1. TypeOK /\ (\A x \in User : UserInv(x)) /\ \A x, y \in User : PairInv(x, y)
  BY DEF Inv
<1>2. ThreadType /\ TableType /\ ConnType
  BY <1>1, TypeParts
<1> DEFINE e == Head(outbox[u])
           other == Answer("other")
<1>3. PICK v \in User : v = e.request.to
  BY <1>1, RelayFacts
<1>4. PICK k \in Pairs : k = e.request.pair
  BY <1>1, RelayFacts
<1> DEFINE f == [kind |-> "key", from |-> u, pair |-> k]
<1>5. /\ outbox[u] \in Seq(Sent) /\ outbox[u] # << >>
      /\ outbox' = [outbox EXCEPT ![u] = Tail(@)]
      /\ e.request.kind = "key" /\ f \in Frame /\ other \in Frame
      /\ UNCHANGED <<thread, requests, made, making, arrived>>
  BY <1>1, <1>4, RelayFacts
<1>6. \/ /\ inbox' = [inbox EXCEPT ![v] = Append(@, f), ![u] = Append(@, other)]
         /\ spoiled' = spoiled
      \/ /\ inbox' = [inbox EXCEPT ![u] = Append(@, other)]
         /\ spoiled' = spoiled \cup {<<u, v>>}
  BY <1>1, <1>3, <1>4, RelayFacts, Zenon
<1>7. f.kind = "key" /\ f.from = u /\ f.pair = k /\ other.kind = "response"
  BY DEF Answer
<1> HIDE DEF e, f, other
<1>8. /\ outbox'[u] = Tail(outbox[u])
      /\ \A x \in User : x # u => outbox'[x] = outbox[x]
  BY <1>2, <1>5 DEF ConnType
<1>9. /\ Sending(u, v) = {k} \cup Sending(u, v)'
      /\ SendingInOrder(u, v) => Below({k}, Sending(u, v)') /\ SendingInOrder(u, v)'
  <2> DEFINE old == IF e.request.kind = "key" /\ e.request.to = v THEN {e.request.pair} ELSE {}
  <2>1. old = {k}
    BY <1>3, <1>4, <1>5
  <2>2. /\ Sending(u, v) = old \cup Sending(u, v)'
        /\ SendingInOrder(u, v) => Below(old, Sending(u, v)') /\ SendingInOrder(u, v)'
    BY <1>5, <1>8, SendingTail DEF e
  <2>3. QED
    BY <2>1, <2>2
<1>10. u # v
  BY <1>1, <1>9 DEF UserInv, Pending
<1>11. /\ inbox'[u] = Append(inbox[u], other)
       /\ \A x \in User : x # u /\ x # v => inbox'[x] = inbox[x]
       /\ \/ inbox'[v] = Append(inbox[v], f) /\ spoiled' = spoiled
          \/ inbox'[v] = inbox[v] /\ spoiled' = spoiled \cup {<<u, v>>}
  BY <1>2, <1>6, <1>10 DEF ConnType
<1>12. ASSUME NEW x \in User, NEW y \in User
       PROVE  /\ Taken(x, y)' = Taken(x, y)
              /\ Preparers(x, y)' = Preparers(x, y) /\ Prepared(x, y)' = Prepared(x, y)
              /\ \A s \in Preparers(x, y) : ReadyKept(x, s)
  BY <1>5, TakenKept, PreparedKept DEF ReadyKept
<1>13. ASSUME NEW x \in User, NEW y \in User, x # u \/ y # v  PROVE KeysKept(x, y)
  <2>1. Sending(x, y)' = Sending(x, y) /\ (SendingInOrder(x, y) => SendingInOrder(x, y)')
    <3>1. CASE x = u
      BY <1>3, <1>5, <1>8, <1>13, <3>1, SendingAside DEF e
    <3>2. CASE x # u
      BY <1>8, <3>2, SendingKept
    <3>3. QED
      BY <3>1, <3>2
  <2>2. Coming(x, y)' = Coming(x, y) /\ (ComingInOrder(x, y) => ComingInOrder(x, y)')
    <3>1. inbox[y] \in Seq(Frame)
      BY <1>2 DEF ConnType
    <3>2. \/ inbox'[y] = inbox[y]
          \/ y = u /\ inbox'[y] = Append(inbox[y], other)
          \/ y = v /\ inbox'[y] = Append(inbox[y], f)
      BY <1>11
    <3>3. ~(other.kind = "key" /\ other.from = x) /\ (y = v => ~(f.kind = "key" /\ f.from = x))
      BY <1>7, <1>13
    <3>4. QED
      BY <1>5, <3>1, <3>2, <3>3, ComingAside
  <2>3. QED
    BY <1>12, <2>1, <2>2 DEF KeysKept
<1>14. \A x, y \in User : PublicKept(x, y) /\ PrivateKept(x, y)
  BY <1>5, RowsSame
<1>15. made' \in Nat /\ made <= made' /\ spoiled \subseteq spoiled'
  <2>1. made' \in Nat /\ made <= made'
    BY <1>1, <1>5, PendingNumbers
  <2>2. QED
    BY <1>11, <2>1
<1>16. ASSUME NEW x \in User, NEW y \in User, x # u \/ y # v  PROVE PairInv(x, y)'
  BY <1>1, <1>12, <1>13, <1>14, <1>15, <1>16, PairKept
<1>17. PairInv(u, v)'
  <2> SUFFICES ASSUME <<u, v>> \notin spoiled'
               PROVE  /\ OrderInv(u, v)' /\ RowInv(u, v)' /\ LastInv(u, v)' /\ HeldInv(u, v)'
                      /\ NewerInv(u, v)'
                    /\ NewerInv(u, v)'
    BY DEF PairInv
  <2>1. inbox'[v] = Append(inbox[v], f) /\ <<u, v>> \notin spoiled
    BY <1>11
  <2>2. OrderInv(u, v) /\ RowInv(u, v) /\ LastInv(u, v) /\ HeldInv(u, v) /\ NewerInv(u, v)
    BY <1>1, <1>10, <2>1 DEF PairInv
  <2>3. /\ Coming(u, v)' = Coming(u, v) \cup {k}
        /\ ComingInOrder(u, v)'
    <3>1. Below(Coming(u, v), {k}) /\ ComingInOrder(u, v)
      BY <1>9, <2>2 DEF OrderInv, Below
    <3>2. inbox[v] \in Seq(Frame)
      BY <1>2 DEF ConnType
    <3> DEFINE new == IF f.kind = "key" /\ f.from = u THEN {f.pair} ELSE {}
    <3>3. new = {k}
      BY <1>7
    <3>4. /\ Coming(u, v)' = Coming(u, v) \cup new
          /\ ComingInOrder(u, v) /\ Below(Coming(u, v), new) => ComingInOrder(u, v)'
      BY <1>5, <2>1, <3>2, ComingAppend
    <3>5. QED
      BY <3>1, <3>3, <3>4
  <2>4. /\ Taken(u, v)' = Taken(u, v)
        /\ Preparers(u, v)' = Preparers(u, v) /\ Prepared(u, v)' = Prepared(u, v)
        /\ \A s \in Preparers(u, v) : ReadyKept(u, s)
    BY <1>12
  <2>5. Pending(u, v)' = Pending(u, v)
    BY <1>9, <2>3, <2>4 DEF Pending
  <2>6. OrderInv(u, v)'
    <3>1. \A j \in Pending(u, v)' : j <= made'
      BY <1>5, <2>2, <2>5 DEF OrderInv
    <3>2. Below({k}, Sending(u, v)') /\ SendingInOrder(u, v)'
      BY <1>9, <2>2 DEF OrderInv
    <3>3. Below(Taken(u, v)', Coming(u, v)' \cup Sending(u, v)' \cup Prepared(u, v)')
      BY <1>9, <2>2, <2>3, <2>4 DEF OrderInv, Below
    <3>4. Below(Coming(u, v)', Sending(u, v)' \cup Prepared(u, v)')
      BY <1>9, <2>2, <2>3, <2>4, <3>2 DEF OrderInv, Below
    <3>5. Below(Sending(u, v)', Prepared(u, v)')
      BY <1>9, <2>2, <2>4 DEF OrderInv, Below
    <3>6. QED
      BY <2>3, <3>1, <3>2, <3>3, <3>4, <3>5 DEF OrderInv, Below
  <2>7. RowInv(u, v)'
    BY <1>14, <2>2, <2>4, RowKept
  <2>8. LastInv(u, v)'
    BY <1>5, <2>2, <2>4, <2>5 DEF LastInv
  <2>9. HeldInv(u, v)'
    BY <1>5, <1>14, <2>2, <2>5 DEF HeldInv, PublicKept
  <2>10. NewerInv(u, v)'
    BY <1>1, <1>14, <1>15, <2>2, <2>5, NewerKept
  <2>11. QED
    BY <2>6, <2>7, <2>8, <2>9, <2>10
<1>18. ASSUME NEW x \in User  PROVE UserInv(x)'
  <2>1. Pending(x, x)' = {}
    BY <1>1, <1>10, <1>13, PendingKept DEF UserInv
  <2>2. QED
    BY <1>1, <1>5, <1>14, <2>1, UserKept
<1>19. QED
  BY <1>16, <1>17, <1>18

\* A process ends.
LEMMA InvEnd ==
  ASSUME Inv, NEW u \in User, End(u)
  PROVE  (\A x \in User : UserInv(x)') /\ \A x, y \in User : PairInv(x, y)'
<1>1. TypeOK /\ (\A x \in User : UserInv(x)) /\ \A x, y \in User : PairInv(x, y)
  BY DEF Inv
<1>2. ThreadType /\ TableType /\ ConnType /\ Fit
  BY <1>1, TypeParts
<1>3. /\ \A s \in Threads : thread'[u][s] = "idle" /\ making'[u][s] = Nothing
      /\ arrived'[u] = Nothing /\ outbox'[u] = << >> /\ inbox'[u] = << >>
  BY <1>2 DEF ThreadType, TableType, ConnType, End, Stop
<1>4. ASSUME NEW x \in User, x # u
      PROVE  /\ thread'[x] = thread[x] /\ making'[x] = making[x] /\ arrived'[x] = arrived[x]
             /\ outbox'[x] = outbox[x] /\ inbox'[x] = inbox[x]
  BY <1>2, <1>4 DEF ThreadType, TableType, ConnType, End, Stop
<1>5. requests' = requests /\ made' = made /\ spoiled' = spoiled \cup LostBy(u)
  BY DEF End
<1>6. \A y \in User : Preparers(u, y)' = {} /\ Prepared(u, y)' = {}
  BY <1>3, PointFacts DEF Preparers, Prepared, Preparing
<1>7. \A x \in User : /\ Sending(u, x)' = {} /\ SendingInOrder(u, x)'
                      /\ Coming(x, u)' = {} /\ ComingInOrder(x, u)'
                      /\ Taken(x, u)' = {}
  BY <1>3, NextParts, NumbersEmpty, MadeFacts DEF Taken
<1>8. ASSUME NEW x \in User, NEW y \in User, x # u
      PROVE  /\ Preparers(x, y)' = Preparers(x, y) /\ Prepared(x, y)' = Prepared(x, y)
             /\ Sending(x, y)' = Sending(x, y) /\ (SendingInOrder(x, y) => SendingInOrder(x, y)')
             /\ \A s \in Preparers(x, y) : ReadyKept(x, s)
  BY <1>4, <1>8, PreparedKept, SendingKept DEF ReadyKept
<1>9. ASSUME NEW x \in User, NEW y \in User, y # u
      PROVE  /\ Coming(x, y)' = Coming(x, y) /\ (ComingInOrder(x, y) => ComingInOrder(x, y)')
             /\ Taken(x, y)' = Taken(x, y)
  BY <1>4, <1>9, ComingKept, TakenKept
<1>10. \A x, y \in User : PublicKept(x, y) /\ PrivateKept(x, y)
  BY <1>5, RowsSame
<1>11. made' \in Nat /\ made <= made' /\ spoiled \subseteq spoiled'
  BY <1>1, <1>5, PendingNumbers
<1>12. ASSUME NEW x \in User, NEW y \in User, x # u, y # u  PROVE PairInv(x, y)'
  <2>1. KeysKept(x, y)
    BY <1>8, <1>9, <1>12 DEF KeysKept
  <2>2. QED
    BY <1>1, <1>8, <1>10, <1>11, <1>12, <2>1, PairKept
<1>13. ASSUME NEW y \in User, y # u, <<u, y>> \notin spoiled'  PROVE PairInv(u, y)'
  <2>1. Preparers(u, y) = {}
    BY <1>5, <1>13 DEF LostBy
  <2>2. Sending(u, y) = {}
    <3>1. \A i \in DOMAIN outbox[u] : outbox[u][i] \notin SentKeys(y)
      BY <1>5, <1>13 DEF LostBy, SentKeys
    <3>2. QED
      BY <3>1 DEF Sending, Numbers
  <2>3. KeysKept(u, y)
    BY <1>6, <1>7, <1>9, <1>13, <2>1, <2>2 DEF KeysKept, Prepared
  <2>4. QED
    BY <1>1, <1>10, <1>11, <2>1, <2>3, PairKept
<1>14. ASSUME NEW x \in User, x # u, <<x, u>> \notin spoiled'  PROVE PairInv(x, u)'
  <2>1. Coming(x, u) = {}
    <3>1. \A i \in DOMAIN inbox[u] : inbox[u][i] \notin KeyFrames(x)
      BY <1>5, <1>14 DEF LostBy, KeyFrames
    <3>2. QED
      BY <3>1 DEF Coming, Numbers
  <2>2. CASE Taken(x, u) = {}
    <3>1. KeysKept(x, u)
      BY <1>7, <1>8, <1>14, <2>1, <2>2 DEF KeysKept
    <3>2. QED
      BY <1>1, <1>8, <1>10, <1>11, <1>14, <3>1, PairKept
  <2>3. CASE Taken(x, u) # {}
    <3>1. arrived[u].peer = x /\ Taken(x, u) = {arrived[u].pair}
      BY <2>3 DEF Taken
    <3>2. PICK k \in Nat : Taken(x, u) = {k}
      BY <1>1, <3>1, PendingNumbers
    <3>3. thread[u]["reader"] \notin {"idle", "window", "updating"}
      <4>1. arrived[u] # Nothing
        BY <1>1, <3>1, MadeFacts
      <4>2. thread[u]["reader"] # "updating"
        BY <1>5, <1>14, <3>1 DEF LostBy
      <4>3. QED
        BY <1>2, <4>1, <4>2 DEF Fit
    <3>4. ~HasExchanged(u, x)
      BY <1>1, <3>1, <3>3 DEF UserInv
    <3>5. <<x, u>> \notin spoiled
      BY <1>11, <1>14
    <3>6. OrderInv(x, u) /\ RowInv(x, u) /\ LastInv(x, u) /\ NewerInv(x, u)
      BY <1>1, <1>14, <3>5 DEF PairInv
    <3>7. OrderInv(x, u)' /\ RowInv(x, u)' /\ LastInv(x, u)'
      <4>1. Coming(x, u)' = Coming(x, u) /\ ComingInOrder(x, u)' /\ Taken(x, u)' = {}
        BY <1>7, <2>1
      <4>2. QED
        BY <1>1, <1>5, <1>8, <1>14, <3>2, <3>6, <4>1, PairDropped
    <3>8. ~HasExchanged(u, x)'
      BY <1>10, <3>4 DEF PublicKept
    <3>9. NewerInv(x, u)'
      <4>1. Pending(x, u)' \subseteq Pending(x, u)
        BY <1>7, <1>8, <1>14, <2>1 DEF Pending
      <4>2. QED
        BY <1>1, <1>10, <1>11, <3>6, <4>1, NewerKept
    <3>10. QED
      BY <3>7, <3>8, <3>9 DEF PairInv, HeldInv
  <2>4. QED
    BY <2>2, <2>3
<1>15. ASSUME NEW x \in User, NEW y \in User  PROVE PairInv(x, y)'
  <2>1. CASE x = y \/ <<x, y>> \in spoiled'
    BY <2>1 DEF PairInv
  <2>2. QED
    BY <1>12, <1>13, <1>14, <2>1
<1>16. ASSUME NEW x \in User  PROVE UserInv(x)'
  <2>1. Pending(x, x)' = {}
    <3>1. CASE x = u
      BY <1>6, <1>7, <3>1 DEF Pending
    <3>2. CASE x # u
      <4>1. KeysKept(x, x)
        BY <1>8, <1>9, <3>2 DEF KeysKept
      <4>2. QED
        BY <1>1, <4>1, PendingKept DEF UserInv
    <3>3. QED
      BY <3>1, <3>2
  <2>2. thread'[x]["reader"] \notin Free =>
           thread[x]["reader"] \notin Free /\ arrived'[x] = arrived[x]
    BY <1>3, <1>4, PointFacts DEF Free
  <2>3. QED
    BY <1>1, <1>10, <2>1, <2>2, UserKept
<1>17. QED
  BY <1>15, <1>16
----------------------------------------------------------------------------
(* The theorem *)

\* At first nothing is on the way, and nobody holds a key.
LEMMA InvInit == Init => Inv
<1> SUFFICES ASSUME Init  PROVE (\A u \in User : UserInv(u)) /\ \A u, v \in User : PairInv(u, v)
  BY TypeInit DEF Inv
<1>1. ASSUME NEW u \in User, NEW v \in User
      PROVE  /\ Preparers(u, v) = {} /\ Prepared(u, v) = {} /\ Taken(u, v) = {}
             /\ Sending(u, v) = {} /\ SendingInOrder(u, v)
             /\ Coming(u, v) = {} /\ ComingInOrder(u, v)
             /\ ~HasExchanged(v, u) /\ Publics(v, u) = {}
  <2>1. Preparers(u, v) = {} /\ Prepared(u, v) = {}
    BY PointFacts DEF Init, ConnInit, Preparers, Prepared, Preparing
  <2>2. Taken(u, v) = {}
    BY MadeFacts DEF Init, Taken
  <2>3. outbox[u] = << >> /\ inbox[v] = << >>
    BY DEF Init, ConnInit
  <2>4. /\ Sending(u, v) = {} /\ SendingInOrder(u, v)
        /\ Coming(u, v) = {} /\ ComingInOrder(u, v)
    BY <2>3, NumbersEmpty DEF Sending, SendingInOrder, Coming, ComingInOrder
  <2>5. requests[v][u] = << >>
    BY DEF Init
  <2>6. ~HasExchanged(v, u) /\ Publics(v, u) = {}
    BY <2>5 DEF HasExchanged, Publics
  <2>7. QED
    BY <2>1, <2>2, <2>4, <2>6
<1>2. \A u, v \in User : Pending(u, v) = {}
  BY <1>1 DEF Pending
<1>3. \A u \in User : thread[u]["reader"] = "idle"
  BY PointFacts DEF Init, ConnInit
<1>4. ASSUME NEW u \in User  PROVE UserInv(u)
  BY <1>2, <1>3 DEF UserInv
<1>5. ASSUME NEW u \in User, NEW v \in User  PROVE PairInv(u, v)
  BY <1>1, <1>2 DEF PairInv, OrderInv, RowInv, LastInv, HeldInv, NewerInv, Below
<1>6. QED
  BY <1>4, <1>5

\* Every step keeps the invariant.
LEMMA InvNext == Inv /\ [Next]_vars => Inv'
<1> SUFFICES ASSUME Inv, [Next]_vars
             PROVE  (\A x \in User : UserInv(x)') /\ \A x, y \in User : PairInv(x, y)'
  BY TypeNext DEF Inv
<1>1. ASSUME NEW u \in User, UserStep(u)
      PROVE  (\A x \in User : UserInv(x)') /\ \A x, y \in User : PairInv(x, y)'
  BY <1>1, PointFacts, InvConnection, InvRequest, InvEnd DEF UserStep
<1>2. ASSUME NEW u \in User, NEW t \in Threads, ThreadStep(u, t)
      PROVE  (\A x \in User : UserInv(x)') /\ \A x, y \in User : PairInv(x, y)'
  BY <1>2, InvConnection, InvDelete, InvInsert, InvSend DEF ThreadStep
<1>3. ASSUME NEW u \in User, ReaderStep(u)
      PROVE  (\A x \in User : UserInv(x)') /\ \A x, y \in User : PairInv(x, y)'
  BY <1>3, PointFacts, InvConnection, InvTake, InvStore DEF ReaderStep
<1>4. ASSUME NEW u \in User, ServerStep(u)
      PROVE  (\A x \in User : UserInv(x)') /\ \A x, y \in User : PairInv(x, y)'
  BY <1>4, PointFacts, InvConnection, InvRelay DEF ServerStep
<1>5. CASE UNCHANGED vars
  <2>1. UNCHANGED <<thread, outbox, inbox>> /\ UNCHANGED exchangeVars
    BY <1>5 DEF vars, connVars
  <2>2. \A x \in User, t \in Threads : ReadyKept(x, t)
    BY <2>1 DEF ReadyKept, exchangeVars
  <2>3. ASSUME NEW u \in User
        PROVE  (\A x \in User : UserInv(x)') /\ \A x, y \in User : PairInv(x, y)'
    BY <2>1, <2>2, QuietStep
  <2>4. QED
    BY <2>3
<1>6. QED
  BY <1>1, <1>2, <1>3, <1>4, <1>5 DEF Next

\* When nothing is on the way, the keys agree.
LEMMA InvAgrees == Inv => KeysAgree
<1> SUFFICES ASSUME Inv, NEW u \in User, NEW v \in User, u # v, Settled(u, v),
                    <<u, v>> \notin spoiled, HasExchanged(v, u)
             PROVE  /\ requests[u][v] # << >>
                    /\ Head(requests[v][u]).public = Head(requests[u][v]).private
  BY DEF KeysAgree
<1>1. TypeOK /\ UserInv(v) /\ HeldInv(u, v)
  BY DEF Inv, PairInv
<1>2. Prepared(u, v) = {}
  BY DEF Settled, Prepared
<1>3. Sending(u, v) = {}
  <2>1. \A i \in DOMAIN outbox[u] : outbox[u][i] \notin SentKeys(v)
    BY DEF Settled, SentKeys
  <2>2. QED
    BY <2>1 DEF Sending, Numbers
<1>4. Coming(u, v) = {}
  <2>1. \A i \in DOMAIN inbox[v] : inbox[v][i] \notin KeyFrames(u)
    BY DEF Settled, KeyFrames
  <2>2. QED
    BY <2>1 DEF Coming, Numbers
<1>5. Taken(u, v) = {}
  <2>1. SUFFICES ASSUME arrived[v].peer = u  PROVE FALSE
    BY DEF Taken
  <2>2. arrived[v] # Nothing
    BY <2>1, MadeFacts
  <2>3. thread[v]["reader"] \notin {"idle", "window", "updating"}
    BY <1>1, <2>1, <2>2, TypeParts DEF Fit, Settled
  <2>4. QED
    BY <1>1, <2>1, <2>3 DEF UserInv
<1>6. QED
  BY <1>1, <1>2, <1>3, <1>4, <1>5 DEF HeldInv, Pending

\* The public key that a user holds of another belongs to the private key that the other will
\* decrypt with, as soon as nothing is on the way and unless a key was lost or made twice at
\* one time (PublicKeyExchangeRequest, MessageParser::exchangeKeys).
THEOREM KeysAgreeAlways == Spec => []KeysAgree
<1>1. QED
  BY InvInit, InvNext, InvAgrees, PTL DEF Spec

----------------------------------------------------------------------------
(* Keys advance *)

\* The rows for one peer show one key at most.
UniformInv == \A u, v \in User : \A p, q \in Publics(v, u) : p = q

\* The rows of one client for one peer change.
LEMMA PublicsSet ==
  ASSUME NEW w \in User, NEW x \in User, NEW rows,
         requests'[w][x] = rows,
         \A u, v \in User : v # w \/ u # x => requests'[v][u] = requests[v][u]
  PROVE  \A u, v \in User :
            \/ Publics(v, u)' = Publics(v, u)
            \/ /\ v = w /\ u = x
               /\ Publics(v, u)' = {rows[i].public : i \in DOMAIN rows} \ {NoKey}
  BY DEF Publics

\* A step shows no key that was not shown, except the UPDATE, which shows the one
\* that the reader holds.
LEMMA PublicsMove ==
  ASSUME TypeOK, [Next]_vars, NEW u \in User, NEW v \in User
  PROVE  \/ Publics(v, u)' \subseteq Publics(v, u)
         \/ arrived[v].peer = u /\ Publics(v, u)' \subseteq {arrived[v].pair}
<1> DEFINE Kept == Publics(v, u)' \subseteq Publics(v, u)
           Goal == \/ Kept
                   \/ arrived[v].peer = u /\ Publics(v, u)' \subseteq {arrived[v].pair}
<1>1. ASSUME requests' = requests  PROVE Kept
  BY <1>1 DEF Publics
<1>2. ASSUME NEW w \in User, NEW t \in Threads, DeleteRequest(w, t)  PROVE Kept
  <2>1. PICK x \in User : x = making[w][t].peer
    BY <1>2, HandFacts DEF DeleteRequest, At, Preparing
  <2>2. requests' = [requests EXCEPT ![w][x] = << >>]
    BY <1>2, <2>1 DEF DeleteRequest
  <2> DEFINE rows == << >>
  <2>3. DOMAIN rows = {}
    OBVIOUS
  <2>4. requests' = [requests EXCEPT ![w][x] = rows]
    BY <2>2
  <2> HIDE DEF rows
  <2>5. /\ requests'[w][x] = rows
        /\ \A a, b \in User : b # w \/ a # x => requests'[b][a] = requests[b][a]
    BY <2>4, TypeParts DEF TableType
  <2>6. QED
    BY <2>3, <2>5, PublicsSet
<1>3. ASSUME NEW w \in User, NEW t \in Threads, InsertRequest(w, t)  PROVE Kept
  <2>1. PICK x \in User : x = making[w][t].peer
    BY <1>3, HandFacts DEF InsertRequest, At, Preparing
  <2> DEFINE row == [private |-> making[w][t].pair, public |-> NoKey]
             rows == Append(requests[w][x], row)
  <2>2. requests' = [requests EXCEPT ![w][x] = rows]
    BY <1>3, <2>1 DEF InsertRequest
  <2>3. row.public = NoKey /\ row \in Row /\ requests[w][x] \in Seq(Row)
    BY <1>3, HandFacts, TypeParts DEF InsertRequest, At, Preparing, TableType, Row
  <2> HIDE DEF row
  <2>4. \A i \in DOMAIN rows : \/ i \in DOMAIN requests[w][x] /\ rows[i] = requests[w][x][i]
                               \/ rows[i] = row
    BY <2>3, AppendFacts, SeqFacts
  <2> HIDE DEF rows
  <2>5. {rows[i].public : i \in DOMAIN rows} \ {NoKey} \subseteq Publics(w, x)
    BY <2>3, <2>4 DEF Publics
  <2>6. requests' = [requests EXCEPT ![w][x] = rows]
    BY <2>2
  <2>7. /\ requests'[w][x] = rows
        /\ \A a, b \in User : b # w \/ a # x => requests'[b][a] = requests[b][a]
    BY <2>6, TypeParts DEF TableType
  <2>8. QED
    BY <2>5, <2>7, PublicsSet
<1>4. ASSUME NEW w \in User, StoreKey(w)  PROVE Goal
  <2>1. arrived[w].peer \in User /\ arrived[w].pair \in Pairs
    BY <1>4, HandFacts, PointFacts DEF StoreKey, At
  <2>2. PICK x \in User : x = arrived[w].peer
    BY <2>1
  <2>3. PICK k \in Pairs : k = arrived[w].pair
    BY <2>1
  <2> DEFINE rows == [i \in DOMAIN requests[w][x] |-> [requests[w][x][i] EXCEPT !.public = k]]
  <2>4. requests' = [requests EXCEPT ![w][x] = rows]
    BY <1>4, <2>2, <2>3 DEF StoreKey
  <2>5. \A i \in DOMAIN rows : rows[i].public = k
    BY StoredRows, TypeParts DEF TableType
  <2> HIDE DEF rows
  <2>6. {rows[i].public : i \in DOMAIN rows} \ {NoKey} \subseteq {k}
    BY <2>5
  <2>7. /\ requests'[w][x] = rows
        /\ \A a, b \in User : b # w \/ a # x => requests'[b][a] = requests[b][a]
    BY <2>4, TypeParts DEF TableType
  <2>8. \/ Publics(v, u)' = Publics(v, u)
        \/ v = w /\ u = x /\ Publics(v, u)' \subseteq {k}
    BY <2>6, <2>7, PublicsSet
  <2>9. QED
    BY <2>2, <2>3, <2>8
<1>5. CASE UNCHANGED vars
  BY <1>1, <1>5 DEF vars, exchangeVars
<1>6. ASSUME NEW w \in User, UserStep(w)  PROVE Kept
  BY <1>1, <1>6 DEF UserStep, exchangeVars, RequestKeys, End
<1>7. ASSUME NEW w \in User, NEW t \in Threads, ThreadStep(w, t)  PROVE Kept
  BY <1>1, <1>2, <1>3, <1>7 DEF ThreadStep, exchangeVars, SendKey
<1>8. ASSUME NEW w \in User, ReaderStep(w)  PROVE Goal
  BY <1>1, <1>4, <1>8 DEF ReaderStep, exchangeVars, TakeKey
<1>9. ASSUME NEW w \in User, ServerStep(w)  PROVE Kept
  BY <1>1, <1>9 DEF ServerStep, exchangeVars, RelayKey
<1>10. QED
  BY <1>5, <1>6, <1>7, <1>8, <1>9 DEF Next

\* The rows stay uniform.
LEMMA UniformNext == TypeOK /\ UniformInv /\ [Next]_vars => UniformInv'
<1> SUFFICES ASSUME TypeOK, UniformInv, [Next]_vars,
                    NEW u \in User, NEW v \in User
             PROVE  \A p, q \in Publics(v, u)' : p = q
  BY DEF UniformInv
<1>1. QED
  BY PublicsMove DEF UniformInv

\* The key that is stored was the oldest on the way, so no newer one was stored before.
LEMMA HeldAdvances ==
  ASSUME Inv, UniformInv, [Next]_vars, NEW u \in User, NEW v \in User, u # v,
         <<u, v>> \notin spoiled, NEW p \in Publics(v, u), NEW q \in Publics(v, u)'
  PROVE  p <= q
<1>1. TypeOK /\ NewerInv(u, v)
  BY DEF Inv, PairInv
<1>2. p \in Nat
  BY <1>1, PublicNumbers
<1>3. CASE Publics(v, u)' \subseteq Publics(v, u)
  <2>1. q \in Publics(v, u)
    BY <1>3
  <2>2. p = q
    BY <2>1 DEF UniformInv
  <2>3. QED
    BY <1>2, <2>2
<1>4. CASE arrived[v].peer = u /\ Publics(v, u)' \subseteq {arrived[v].pair}
  BY <1>1, <1>4 DEF NewerInv, Pending, Taken
<1>5. QED
  BY <1>1, <1>3, <1>4, PublicsMove

\* What a client stores of another's keys never goes back to an older one, whichever
\* requests, answers and rows the two exchange meanwhile (PublicKeyExchangeRequest,
\* MessageParser::exchangeKeys), unless a key was lost or made twice at one time.
THEOREM KeysAdvance == Spec => HeldKeysAdvance
<1>1. Init => UniformInv
  BY DEF Init, UniformInv, Publics
<1>2. Inv /\ UniformInv /\ [Next]_vars => Inv' /\ UniformInv'
  BY InvNext, UniformNext DEF Inv
<1>3. Inv /\ UniformInv /\ [Next]_vars =>
        [\A u, v \in User :
           \A i \in DOMAIN requests[v][u], j \in DOMAIN requests'[v][u] :
               LET old == requests[v][u][i].public
                   new == requests'[v][u][j].public
               IN  (u # v /\ NoKey \notin {old, new} /\ <<u, v>> \notin spoiled) => old <= new]_vars
  <2> SUFFICES ASSUME Inv, UniformInv, [Next]_vars, NEW u \in User, NEW v \in User,
                      NEW i \in DOMAIN requests[v][u], NEW j \in DOMAIN requests'[v][u],
                      u # v, requests[v][u][i].public # NoKey,
                      requests'[v][u][j].public # NoKey, <<u, v>> \notin spoiled
               PROVE  requests[v][u][i].public <= requests'[v][u][j].public
    OBVIOUS
  <2>1. requests[v][u][i].public \in Publics(v, u)
    BY DEF Publics
  <2>2. requests'[v][u][j].public \in Publics(v, u)'
    BY DEF Publics
  <2>3. QED
    BY <2>1, <2>2, HeldAdvances
<1>4. QED
  BY <1>1, <1>2, <1>3, InvInit, PTL DEF Spec, HeldKeysAdvance
=============================================================================
