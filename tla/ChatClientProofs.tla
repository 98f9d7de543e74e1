--------------------------- MODULE ChatClientProofs ---------------------------
(***************************************************************************)
(* Proofs about ChatServer, on what a client is sent: a private message    *)
(* once, live or from the store; what is stored in the order of sending;   *)
(* its own chat messages again in the history it asks for; nothing of the  *)
(* chat when its nickname is refused; and the chat in one order for all.   *)
(***************************************************************************)
EXTENDS ChatDeliveryProofs

USE ConstantsTyped DEF Names

-----------------------------------------------------------------------------
(* Private messages, sent once and in order. *)

\* The private messages that were sent to a connection.
Privates(c) == {r \in Range(s2c[c]) : r.type = "PRIVATE"}

\* A message that is stored, and that a delivery under way has not come to yet.
Waiting(m) ==
  \E k \in DOMAIN offline[m.name] :
    /\ offline[m.name][k] = m
    /\ \A w \in Workers : pc[w] = "drain" /\ nick[w] = m.name => idx[w] <= k

\* It was sent to nobody, and what was delivered of its sender to its receiver is older.
Unsent(m) ==
  \A c \in Conns : \A r \in Privates(c) :
    /\ r.msg # m
    /\ r.offline /\ r.msg.name = m.name /\ r.msg.src = m.src => r.msg.id < m.id

\* Whatever was sent or stored was taken before all that is still pending; each queue is
\* in the order of sending; what waits in it has not been sent.
Pending ==
  /\ \A c \in Conns : \A r \in Privates(c) : Earlier(r.msg)
  /\ \A n \in Names : \A m \in Range(offline[n]) : Earlier(m)

Queued ==
  \A n \in Names : \A k, l \in DOMAIN offline[n] :
    k < l /\ offline[n][k].src = offline[n][l].src => offline[n][k].id < offline[n][l].id

Unrepeated == \A m \in Msg : Waiting(m) => Unsent(m)

OnceInv == Pending /\ Queued /\ Unrepeated /\ PrivateAtMostOnce /\ OfflineInOrder

-----------------------------------------------------------------------------
(* What a step sends and stores. *)

\* A private reply carries a message.
LEMMA PrivateFields ==
  ASSUME NEW r \in Reply, r.type = "PRIVATE"
  PROVE  r.msg \in Msg /\ r.offline \in BOOLEAN
  BY DEF Reply

\* A private message that was sent in this step was sent live or from the queue.
LEMMA PrivateCases ==
  ASSUME IInv, Answering, Next, NEW c \in Conns, NEW k \in DOMAIN s2c'[c] \ DOMAIN s2c[c],
         s2c'[c][k].type = "PRIVATE"
  PROVE  LET r == s2c'[c][k]
         IN  \E w \in Workers :
               \/ Whispers(w, r.msg) /\ r.offline = FALSE
               \/ Delivers(w, c, r.msg) /\ r.offline = TRUE
<1>1. PICK w \in Workers, f \in Fds : sockOf[f] = c /\ Sends(w, f, s2c'[c][k])
  BY SentCases
<1>2. PICK r \in Reply : r = s2c'[c][k] /\ r.type = "PRIVATE" /\ Sends(w, f, r)
  BY <1>1 DEF Sends
<1>3. \/ Whispers(w, r.msg) /\ r.offline = FALSE
      \/ Delivers(w, c, r.msg) /\ r.offline = TRUE
  BY <1>1, <1>2, PrivateSends
<1> QED
  BY <1>2, <1>3

\* One message is sent in one step.
LEMMA OneIsNew ==
  ASSUME IInv, Next, NEW c \in Conns, NEW k \in DOMAIN s2c'[c] \ DOMAIN s2c[c],
         NEW d \in Conns, NEW l \in DOMAIN s2c'[d] \ DOMAIN s2c[d]
  PROVE  c = d /\ k = l
<1>1. PICK e \in Conns, r \in Reply : s2c' = [s2c EXCEPT ![e] = Append(@, r)]
  <2>1. s2c' # s2c
    OBVIOUS
  <2>2. PICK w \in Workers, f \in Fds, r \in Reply :
          Sends(w, f, r) /\ s2c' = [s2c EXCEPT ![sockOf[f]] = Append(@, r)]
    BY <2>1, WhoSends
  <2>3. sockOf[f] \in Conns
    BY <2>2 DEF Sends
  <2> QED
    BY <2>2, <2>3
<1>2. c = e /\ d = e
  BY <1>1 DEF IInv, TypeOK, VarTypes
<1> QED
  BY <1>2, SentCases

\* What was sent stays where it is.
LEMMA SentBefore ==
  ASSUME IInv, Next, NEW c \in Conns, NEW r \in Range(s2c'[c])
  PROVE  \/ r \in Range(s2c[c])
         \/ \E k \in DOMAIN s2c'[c] \ DOMAIN s2c[c] : r = s2c'[c][k]
<1>1. PICK k \in DOMAIN s2c'[c] : r = s2c'[c][k]
  BY DEF Range
<1>2. CASE k \in DOMAIN s2c[c]
  BY <1>1, <1>2, SentCases DEF Range
<1> QED
  BY <1>1, <1>2

\* What is sent is a reply.
LEMMA SentTypes ==
  ASSUME IInv, NEW c \in Conns, NEW r \in Range(s2c[c])
  PROVE  r \in Reply
<1>1. s2c[c] \in Seq(Reply)
  BY DEF IInv, TypeOK, VarTypes
<1>2. PICK k \in DOMAIN s2c[c] : r = s2c[c][k]
  BY DEF Range
<1> QED
  BY <1>1, <1>2, ElementOfSeq, LenProperties

\* What a worker has still to send or to store is new, and the latest of its sender.
LEMMA PendingIsNew ==
  ASSUME IInv, OrderInv, NEW w \in Workers, pc[w] \in PendingStages,
         NEW m \in Msg, Earlier(m)
  PROVE  /\ m # msg[w]
         /\ m.src = msg[w].src => m.id < msg[w].id
<1>1. msg[w] \in Msg
  BY DEF IInv, TypeOK, LocalsSet, PendingStages, RequestStages
<1>2. m.src = msg[w].src => m.id < msg[w].id
  BY DEF Earlier, After
<1>3. m.id \in Nat
  BY DEF Msg
<1> QED
  BY <1>1, <1>2, <1>3

\* Once it is sent or stored it is older than all that is pending.
LEMMA EarlierAfter ==
  ASSUME IInv, OrderInv, Next, NEW w \in Workers, WorkerStep(w), ~ Sigpipe(w),
         pc[w] \in PendingStages, pc'[w] \notin PendingStages,
         NEW m \in Msg, m = msg[w]
  PROVE  Earlier(m)'
<1>0. VarTypes /\ Streams /\ Handling /\ PendingStages \subseteq RequestStages
  BY DEF IInv, TypeOK, OrderInv, PendingStages, RequestStages
<1>1. Read(m) /\ m.src = sockOf[fd[w]] /\ pc[w] # "pop"
  BY <1>0 DEF Handling, PendingStages
<1>2. Read(m)'
  BY <1>0, <1>1, ReadKept
<1>3. ASSUME NEW v \in Workers, pc'[v] \in PendingStages, msg'[v].src = m.src
      PROVE  FALSE
  <2>1. v # w /\ pc[v] = pc'[v] /\ msg[v] = msg'[v]
    BY <1>0, <1>3, OthersStay
  <2>2. sockOf[fd[v]] = sockOf[fd[w]] /\ pc[v] # "pop"
    BY <1>0, <1>1, <1>3, <2>1 DEF Handling, PendingStages
  <2> QED
    BY <1>0, <1>1, <2>1, <2>2, OneWorker
<1> QED
  BY <1>2, <1>3 DEF Earlier, After

-----------------------------------------------------------------------------
(* The steps. *)

\* A delivery goes on through its queue, or ends with the queue empty.
LEMMA DrainGoesOn ==
  ASSUME IInv, Next, NEW w \in Workers, pc[w] = "drain"
  PROVE  \/ /\ pc'[w] = "drain" /\ nick'[w] = nick[w]
            /\ idx'[w] = idx[w] \/ idx'[w] = idx[w] + 1
         \/ offline'[nick[w]] = <<>>
<1> USE DEF At, Goto
<1>0. VarTypes
  BY DEF IInv, TypeOK
<1>1. CASE \E v \in Workers : Sigpipe(v)
  BY <1>0, <1>1 DEF Sigpipe, VarTypes
<1>2. CASE WorkerStep(w) /\ ~ Sigpipe(w)
  <2>1. ~ (Pop(w) \/ RecvHello(w) \/ SendWelcome(w) \/ RecvAuth(w) \/ CheckNick(w)
           \/ Register(w) \/ Refuse(w) \/ SendInfo(w) \/ RecvRequest(w))
    BY DEF Pop, RecvHello, SendWelcome, RecvAuth, CheckNick, Register, Refuse, SendInfo,
           RecvRequest
  <2>2. ~ (LockClients(w) \/ Broadcast(w) \/ Lookup(w) \/ FindTarget(w) \/ SendPrivate(w)
           \/ StoreOffline(w) \/ SaveHistory(w) \/ ListUsers(w) \/ CollectHistory(w) \/ SendAnswer(w)
           \/ RemoveClient(w) \/ CloseClient(w))
    BY DEF Broadcast, Lookup, FindTarget, SendPrivate, StoreOffline, SaveHistory, ListUsers,
           CollectHistory, SendAnswer, RemoveClient, CloseClient, LockClients
  <2>3. DeliverOffline(w) \/ LockOffline(w)
    BY <1>2, <2>1, <2>2 DEF WorkerStep
  <2>4. PICK n \in Names : n = nick[w]
    BY <1>0 DEF VarTypes
  <2>5. CASE DeliverOffline(w) /\ idx[w] <= Len(offline[n])
    BY <1>0, <2>4, <2>5 DEF DeliverOffline, VarTypes
  <2>6. CASE DeliverOffline(w) /\ ~ (idx[w] <= Len(offline[n]))
    BY <1>0, <2>4, <2>6 DEF DeliverOffline, Cleared, VarTypes
  <2>7. CASE LockOffline(w)
    BY <2>7, LockTaken
  <2> QED
    BY <2>3, <2>5, <2>6, <2>7
<1>3. CASE \E v \in Workers : v # w /\ WorkerStep(v) /\ ~ Sigpipe(v)
  BY <1>0, <1>3, OthersStay
<1>4. CASE ~ \E v \in Workers : WorkerStep(v)
  BY <1>4, OutsideStep DEF workerVars
<1> QED
  BY <1>1, <1>2, <1>3, <1>4

\* A private message that was sent in this step had not been sent, and is younger than
\* what was delivered of its sender to this client.
LEMMA NewIsUnsent ==
  ASSUME IInv, OrderInv, DeliveryInv, OnceInv, Next,
         NEW c \in Conns, NEW k \in DOMAIN s2c'[c] \ DOMAIN s2c[c],
         NEW r \in Reply, r = s2c'[c][k], r.type = "PRIVATE"
  PROVE  /\ Earlier(r.msg)'
         /\ \A d \in Conns : \A q \in Privates(d) : q.msg # r.msg
         /\ r.offline => \A q \in Privates(c) :
              q.offline /\ q.msg.src = r.msg.src => q.msg.id < r.msg.id
<1>0. /\ VarTypes /\ Streams /\ Handling /\ Locks /\ Answering /\ Named /\ Addressed /\ Greeted
      /\ Pending /\ Unrepeated
  BY DEF IInv, TypeOK, OrderInv, DeliveryInv, OnceInv
<1>1. PICK m \in Msg : m = r.msg
  BY PrivateFields
<1>2. ASSUME NEW w \in Workers, Whispers(w, m), r.offline = FALSE
      PROVE  Earlier(m)' /\ \A d \in Conns : \A q \in Privates(d) : q.msg # m
  <2>1. /\ WorkerStep(w) /\ ~ Sigpipe(w) /\ pc[w] \in PendingStages /\ m = msg[w]
        /\ pc'[w] \notin PendingStages
    BY <1>0, <1>2 DEF Whispers, WorkerStep, SendPrivate, At, Goto, ServerSame, Sigpipe,
                      PendingStages, VarTypes
  <2>2. Earlier(m)'
    BY <2>1, EarlierAfter
  <2>3. ASSUME NEW d \in Conns, NEW q \in Privates(d)
        PROVE  q.msg # m
    <3>1. q.msg \in Msg
      BY PrivateFields, SentTypes DEF Privates
    <3>2. Earlier(q.msg)
      BY <1>0 DEF Pending
    <3> QED
      BY <2>1, <3>1, <3>2, PendingIsNew
  <2> QED
    BY <2>2, <2>3
<1>3. ASSUME NEW w \in Workers, Delivers(w, c, m)
      PROVE  /\ Earlier(m)'
             /\ \A d \in Conns : \A q \in Privates(d) : q.msg # m
             /\ \A q \in Privates(c) : q.offline /\ q.msg.src = m.src => q.msg.id < m.id
  <2>1. PICK n \in Names : n = nick[w] /\ m \in Range(offline[n])
    BY <1>3 DEF Delivers, Range
  <2>2. m.name = n
    BY <1>0, <2>1 DEF Addressed
  <2>3. Earlier(m)
    BY <1>0, <2>1 DEF Pending
  <2>4. Earlier(m)'
    BY <1>0, <2>3, AfterKept DEF Earlier
  <2>5. Waiting(m)
    <3>1. ASSUME NEW v \in Workers, pc[v] = "drain"
          PROVE  idx[v] <= idx[w]
      <4>1. CASE v = w
        BY <1>0, <4>1 DEF VarTypes
      <4>2. CASE v # w
        <5>1. idx[v] = 1
          BY <1>0, <1>3, <3>1, <4>2 DEF Locks, Delivers, Holds
        <5>2. idx[w] \in Nat \ {0}
          BY <1>0 DEF VarTypes
        <5> QED
          BY <5>1, <5>2
      <4> QED
        BY <4>1, <4>2
    <3> QED
      BY <1>3, <2>1, <2>2, <3>1 DEF Waiting, Delivers
  <2>6. Unsent(m)
    BY <1>0, <2>5 DEF Unrepeated
  <2>7. login[c] = n
    BY <1>0, <1>3, <2>1 DEF Named, NamedStages, SessionStages, Stages, Delivers
  <2>8. ASSUME NEW q \in Privates(c), q.offline
        PROVE  q.msg.name = n
    BY <1>0, <2>7, <2>8 DEF Greeted, Privates, Range
  <2> QED
    BY <2>2, <2>4, <2>6, <2>8 DEF Unsent
<1>4. \E w \in Workers :
        \/ Whispers(w, m) /\ r.offline = FALSE
        \/ Delivers(w, c, m) /\ r.offline = TRUE
  BY <1>0, <1>1, PrivateCases
<1>5. Earlier(m)'
  BY <1>2, <1>3, <1>4
<1>6. Earlier(r.msg)'
  BY <1>1, <1>5
<1> QED
  BY <1>1, <1>2, <1>3, <1>4, <1>6

\* What was sent or stored is taken before all that is pending.
LEMMA PendingStep ==
  ASSUME IInv, OrderInv, DeliveryInv, OnceInv, Next
  PROVE  Pending'
<1>0. VarTypes /\ Streams /\ Pending
  BY DEF IInv, TypeOK, OrderInv, OnceInv
<1>1. ASSUME NEW c \in Conns, NEW r \in Range(s2c'[c]), r.type = "PRIVATE"
      PROVE  Earlier(r.msg)'
  <2>0. r \in Reply
    <3>1. s2c'[c] \in Seq(Reply)
      BY StepIInv DEF IInv, TypeOK, VarTypes
    <3>2. PICK k \in DOMAIN s2c'[c] : r = s2c'[c][k]
      BY DEF Range
    <3> QED
      BY <3>1, <3>2, ElementOfSeq, LenProperties
  <2>1. CASE r \in Range(s2c[c])
    <3>1. PICK m \in Msg : m = r.msg
      BY <1>1, <2>0, PrivateFields
    <3>2. Earlier(m)
      BY <1>0, <1>1, <2>1, <3>1 DEF Pending, Privates
    <3>3. Earlier(m)'
      BY <1>0, <3>2, AfterKept DEF Earlier
    <3> QED
      BY <3>1, <3>3
  <2>2. CASE \E k \in DOMAIN s2c'[c] \ DOMAIN s2c[c] : r = s2c'[c][k]
    BY <1>1, <2>0, <2>2, NewIsUnsent
  <2> QED
    BY <2>1, <2>2, SentBefore
<1>2. ASSUME NEW n \in Names, NEW m \in Range(offline'[n])
      PROVE  Earlier(m)'
  <2>1. m \in Range(offline[n]) \/ \E w \in Workers : StoreOffline(w) /\ pc[w] = "store" /\ m = msg[w]
    <3>1. CASE UNCHANGED offline
      BY <3>1 DEF Range
    <3>2. ASSUME NEW w \in Workers, StoreOffline(w), pc[w] = "store",
                 msg[w] \in Msg, msg[w].name \in Names,
                 offline' = [offline EXCEPT ![msg[w].name] = Append(@, msg[w])]
          PROVE  m \in Range(offline[n]) \/ (StoreOffline(w) /\ pc[w] = "store" /\ m = msg[w])
      <4>1. CASE n = msg[w].name
        <5>1. offline[n] \in Seq(Msg) /\ offline'[n] = Append(offline[n], msg[w])
          BY <1>0, <3>2, <4>1 DEF VarTypes
        <5>2. Range(Append(offline[n], msg[w])) = Range(offline[n]) \cup {msg[w]}
          BY <3>2, <5>1, RangeAppend
        <5> QED
          BY <3>2, <5>1, <5>2
      <4>2. CASE n # msg[w].name
        BY <1>0, <3>2, <4>2 DEF VarTypes, Range
      <4> QED
        BY <4>1, <4>2
    <3>3. CASE offline' = [x \in Names |-> <<>>]
      BY <3>3 DEF Range
    <3>4. ASSUME NEW w \in Workers, nick[w] \in Names,
                 offline' = [offline EXCEPT ![nick[w]] = <<>>]
          PROVE  m \in Range(offline[n])
      BY <1>0, <3>4 DEF VarTypes, Range
    <3> QED
      BY <3>1, <3>2, <3>3, <3>4, OfflineCases
  <2>2. CASE m \in Range(offline[n])
    <3>1. m \in Msg
      <4>1. offline[n] \in Seq(Msg)
        BY <1>0 DEF VarTypes
      <4>2. PICK k \in DOMAIN offline[n] : m = offline[n][k]
        BY <2>2 DEF Range
      <4> QED
        BY <4>1, <4>2, ElementOfSeq, LenProperties
    <3>2. Earlier(m)
      BY <1>0, <2>2 DEF Pending
    <3> QED
      BY <1>0, <3>1, <3>2, AfterKept DEF Earlier
  <2>3. ASSUME NEW w \in Workers, StoreOffline(w), pc[w] = "store", m = msg[w]
        PROVE  Earlier(m)'
    <3>1. m \in Msg
      BY <2>3 DEF IInv, TypeOK, LocalsSet, RequestStages
    <3>2. /\ WorkerStep(w) /\ ~ Sigpipe(w) /\ pc[w] \in PendingStages
          /\ pc'[w] \notin PendingStages
      BY <1>0, <2>3 DEF WorkerStep, StoreOffline, At, Goto, ServerSame, Sigpipe, PendingStages,
                        VarTypes
    <3> QED
      BY <2>3, <3>1, <3>2, EarlierAfter
  <2> QED
    BY <2>1, <2>2, <2>3
<1>3. ASSUME NEW c \in Conns, NEW r \in Privates(c)'
      PROVE  Earlier(r.msg)'
  BY <1>1 DEF Privates, Range
<1>4. ASSUME NEW n \in Names, NEW m \in Range(offline[n])'
      PROVE  Earlier(m)'
  BY <1>2 DEF Range
<1> QED
  BY <1>3, <1>4 DEF Pending

\* Each queue stays in the order of sending: a message that is stored is the latest of its
\* sender.
LEMMA QueuedStep ==
  ASSUME IInv, OrderInv, OnceInv, Next
  PROVE  Queued'
<1>0. VarTypes /\ Pending /\ Queued
  BY DEF IInv, TypeOK, OnceInv
<1>1. CASE UNCHANGED offline
  BY <1>0, <1>1 DEF Queued
<1>2. ASSUME NEW w \in Workers, pc[w] = "store", msg[w] \in Msg, msg[w].name \in Names,
             offline' = [offline EXCEPT ![msg[w].name] = Append(@, msg[w])]
      PROVE  Queued'
  <2> SUFFICES ASSUME NEW n \in Names, NEW k \in DOMAIN offline'[n], NEW l \in DOMAIN offline'[n],
                      k < l, offline'[n][k].src = offline'[n][l].src
               PROVE  offline'[n][k].id < offline'[n][l].id
    BY DEF Queued
  <2>1. CASE n # msg[w].name
    BY <1>0, <1>2, <2>1 DEF Queued, VarTypes
  <2>2. CASE n = msg[w].name
    <3>1. PICK q \in Seq(Msg) : q = offline[n]
      BY <1>0 DEF VarTypes
    <3>2. PICK m \in Msg : m = msg[w]
      BY <1>2
    <3>3. offline'[n] = Append(q, m)
      BY <1>0, <1>2, <2>2, <3>1, <3>2 DEF VarTypes
    <3>4. k \in DOMAIN q /\ offline'[n][k] = q[k]
      BY <3>1, <3>2, <3>3, AppendElements
    <3>5. CASE l \in DOMAIN q
      <4>1. offline'[n][l] = q[l]
        BY <3>2, <3>3, <3>5, AppendElements
      <4>2. q[k].src = q[l].src
        BY <3>4, <4>1
      <4>3. q[k].id < q[l].id
        BY <1>0, <3>1, <3>4, <3>5, <4>2 DEF Queued
      <4> QED
        BY <3>4, <4>1, <4>3
    <3>6. CASE offline'[n][l] = m
      <4>1. q[k] \in Msg /\ Earlier(q[k])
        BY <1>0, <3>1, <3>4, ElementOfSeq, LenProperties DEF Pending, Range
      <4> QED
        BY <1>2, <3>2, <3>4, <3>6, <4>1, PendingIsNew DEF PendingStages
    <3> QED
      BY <3>2, <3>3, <3>5, <3>6, AppendElements
  <2> QED
    BY <2>1, <2>2
<1>3. ASSUME NEW n \in Names, offline' = [offline EXCEPT ![n] = <<>>]
      PROVE  Queued'
  <2>1. ASSUME NEW x \in Names
        PROVE  offline'[x] = offline[x] \/ offline'[x] = <<>>
    BY <1>0, <1>3 DEF VarTypes
  <2>2. ASSUME NEW x \in Names, offline'[x] = offline[x], NEW k \in DOMAIN offline'[x],
               NEW l \in DOMAIN offline'[x], k < l, offline'[x][k].src = offline'[x][l].src
        PROVE  offline'[x][k].id < offline'[x][l].id
    BY <1>0, <2>2 DEF Queued
  <2> QED
    BY <2>1, <2>2 DEF Queued
<1>4. CASE offline' = [n \in Names |-> <<>>]
  BY <1>4 DEF Queued
<1> QED
  BY <1>1, <1>2, <1>3, <1>4, OfflineCases

\* What waits was waiting before, or has just been stored.
LEMMA WaitingCases ==
  ASSUME IInv, Next, NEW m \in Msg, Waiting(m)'
  PROVE  \/ /\ Waiting(m)
            /\ \A n \in Names, w \in Workers :
                 pc[w] = "drain" /\ nick[w] = n /\ n = m.name => offline'[n] # <<>>
         \/ \E w \in Workers : StoreOffline(w) /\ pc[w] = "store" /\ m = msg[w]
<1>0. VarTypes /\ m.name \in Names
  BY DEF IInv, TypeOK, Msg
<1>1. PICK k \in DOMAIN offline'[m.name] :
        /\ offline'[m.name][k] = m
        /\ \A w \in Workers : pc'[w] = "drain" /\ nick'[w] = m.name => idx'[w] <= k
  BY DEF Waiting
<1>2. offline'[m.name] # <<>>
  BY <1>1
<1>3. k \in Nat
  <2>1. offline'[m.name] \in Seq(Msg)
    BY <1>0, StepIInv DEF IInv, TypeOK, VarTypes
  <2> QED
    BY <1>1, <2>1, LenProperties
<1>4. ASSUME NEW w \in Workers, pc[w] = "drain", nick[w] = m.name
      PROVE  idx[w] <= k
  <2>1. pc'[w] = "drain" /\ nick'[w] = nick[w] /\ (idx'[w] = idx[w] \/ idx'[w] = idx[w] + 1)
    BY <1>2, <1>4, DrainGoesOn
  <2>2. idx'[w] <= k
    BY <1>1, <1>4, <2>1
  <2>3. PICK i \in Nat : i = idx[w]
    BY <1>0 DEF VarTypes
  <2> QED
    BY <1>3, <2>1, <2>2, <2>3
<1>5. CASE k \in DOMAIN offline[m.name] /\ offline[m.name][k] = m
  BY <1>2, <1>4, <1>5 DEF Waiting
<1>6. CASE ~ (k \in DOMAIN offline[m.name] /\ offline[m.name][k] = m)
  <2>1. PICK w \in Workers :
          /\ StoreOffline(w) /\ pc[w] = "store" /\ msg[w] \in Msg /\ msg[w].name \in Names
          /\ offline' = [offline EXCEPT ![msg[w].name] = Append(@, msg[w])]
    <3>1. ~ UNCHANGED offline
      BY <1>1, <1>6
    <3>2. ASSUME NEW n \in Names, offline' = [offline EXCEPT ![n] = <<>>]
          PROVE  FALSE
      BY <1>0, <1>1, <1>6, <3>2 DEF VarTypes
    <3>3. offline' # [n \in Names |-> <<>>]
      BY <1>0, <1>2
    <3> QED
      BY <3>1, <3>2, <3>3, OfflineCases
  <2>2. m.name = msg[w].name
    BY <1>0, <1>1, <1>6, <2>1 DEF VarTypes
  <2>3. PICK q \in Seq(Msg) : q = offline[m.name] /\ offline'[m.name] = Append(q, msg[w])
    BY <1>0, <2>1, <2>2 DEF VarTypes
  <2>4. m = msg[w]
    BY <1>1, <1>6, <2>1, <2>3, AppendElements
  <2> QED
    BY <2>1, <2>4
<1> QED
  BY <1>5, <1>6

\* What waits is still unsent: what is sent is either another message, or comes before it
\* in the queue.
LEMMA UnrepeatedStep ==
  ASSUME IInv, OrderInv, DeliveryInv, OnceInv, Next
  PROVE  Unrepeated'
<1>0. VarTypes /\ Answering /\ Addressed /\ Pending /\ Queued /\ Unrepeated
  BY DEF IInv, TypeOK, DeliveryInv, OnceInv
<1> SUFFICES ASSUME NEW m \in Msg, Waiting(m)', NEW c \in Conns, NEW r \in Range(s2c'[c]),
                    r.type = "PRIVATE"
             PROVE  /\ r.msg # m
                    /\ r.offline /\ r.msg.name = m.name /\ r.msg.src = m.src => r.msg.id < m.id
  BY DEF Unrepeated, Unsent, Privates, Range
<1>1. m.name \in Names /\ m.id \in Nat
  BY DEF Msg
<1>2. ASSUME NEW w \in Workers, StoreOffline(w), pc[w] = "store", m = msg[w]
      PROVE  /\ r.msg # m
             /\ r.msg.src = m.src => r.msg.id < m.id
  <2>1. r \in Privates(c)
    BY <1>2 DEF StoreOffline, Privates
  <2>2. r.msg \in Msg /\ Earlier(r.msg)
    BY <1>0, <2>1, SentTypes, PrivateFields DEF Pending, Privates
  <2> QED
    BY <1>2, <2>2, PendingIsNew DEF PendingStages
<1>3. ASSUME Waiting(m)
      PROVE  /\ r.msg # m
             /\ r.offline /\ r.msg.name = m.name /\ r.msg.src = m.src => r.msg.id < m.id
  <2>1. CASE r \in Range(s2c[c])
    BY <1>0, <1>3, <2>1 DEF Unrepeated, Unsent, Privates
  <2>2. ASSUME NEW k \in DOMAIN s2c'[c] \ DOMAIN s2c[c], r = s2c'[c][k]
        PROVE  /\ r.msg # m
               /\ r.offline /\ r.msg.name = m.name /\ r.msg.src = m.src => r.msg.id < m.id
    <3>1. PICK w \in Workers :
            \/ Whispers(w, r.msg) /\ r.offline = FALSE
            \/ Delivers(w, c, r.msg) /\ r.offline = TRUE
      BY <1>0, <2>2, PrivateCases
    <3>2. CASE Whispers(w, r.msg) /\ r.offline = FALSE
      <4>1. Earlier(m)
        BY <1>0, <1>1, <1>3 DEF Waiting, Pending, Range
      <4> QED
        BY <3>2, <4>1, PendingIsNew DEF Whispers, PendingStages
    <3>3. CASE Delivers(w, c, r.msg) /\ r.offline = TRUE
      <4>1. PICK n \in Names : n = nick[w] /\ r.msg \in Range(offline[n])
        BY <3>3 DEF Delivers, Range
      <4>2. r.msg.name = n
        BY <1>0, <4>1 DEF Addressed
      <4>3. ASSUME m.name = n
            PROVE  r.msg # m /\ (r.msg.src = m.src => r.msg.id < m.id)
        <5>1. PICK k2 \in DOMAIN offline[n] :
                offline[n][k2] = m /\ idx'[w] <= k2
          BY <1>1, <3>3, <4>1, <4>3 DEF Waiting, Delivers
        <5>2. PICK i \in Nat : i = idx[w] /\ i \in DOMAIN offline[n] /\ r.msg = offline[n][i]
          BY <1>0, <3>3, <4>1 DEF Delivers, VarTypes
        <5>3. k2 \in Nat
          BY <1>0, <5>1, LenProperties DEF VarTypes
        <5>4. i < k2
          BY <1>0, <3>3, <5>1, <5>2, <5>3 DEF Delivers, VarTypes
        <5>5. r.msg.src = m.src => r.msg.id < m.id
          BY <1>0, <5>1, <5>2, <5>4 DEF Queued
        <5> QED
          BY <1>1, <5>5
      <4> QED
        BY <4>2, <4>3
    <3> QED
      BY <3>1, <3>2, <3>3
  <2> QED
    BY <2>1, <2>2, SentBefore
<1> QED
  BY <1>2, <1>3, WaitingCases

\* What is sent in this step is no repetition of what was.
LEMMA AtMostOnceStep ==
  ASSUME IInv, OrderInv, DeliveryInv, OnceInv, Next
  PROVE  PrivateAtMostOnce'
<1> SUFFICES ASSUME NEW c \in Conns, NEW d \in Conns,
                    NEW k \in DOMAIN s2c'[c], NEW l \in DOMAIN s2c'[d],
                    s2c'[c][k].type = "PRIVATE", s2c'[d][l].type = "PRIVATE",
                    s2c'[c][k].msg = s2c'[d][l].msg
             PROVE  c = d /\ k = l
  BY DEF PrivateAtMostOnce
<1>1. ASSUME NEW x \in Conns, NEW i \in DOMAIN s2c'[x] \ DOMAIN s2c[x], s2c'[x][i].type = "PRIVATE",
             NEW y \in Conns, NEW j \in DOMAIN s2c[y], s2c[y][j].type = "PRIVATE"
      PROVE  s2c[y][j].msg # s2c'[x][i].msg
  <2>1. PICK r \in Reply : r = s2c'[x][i]
    BY <1>1, SentCases DEF Sends
  <2>2. s2c[y][j] \in Privates(y)
    BY <1>1 DEF Privates, Range
  <2> QED
    BY <1>1, <2>1, <2>2, NewIsUnsent
<1>2. CASE k \in DOMAIN s2c[c] /\ l \in DOMAIN s2c[d]
  <2>1. s2c'[c][k] = s2c[c][k] /\ s2c'[d][l] = s2c[d][l]
    BY <1>2, SentCases
  <2> QED
    BY <1>2, <2>1 DEF OnceInv, PrivateAtMostOnce
<1>3. CASE k \in DOMAIN s2c[c] /\ l \notin DOMAIN s2c[d]
  BY <1>1, <1>3, SentCases
<1>4. CASE k \notin DOMAIN s2c[c] /\ l \in DOMAIN s2c[d]
  BY <1>1, <1>4, SentCases
<1>5. CASE k \notin DOMAIN s2c[c] /\ l \notin DOMAIN s2c[d]
  BY <1>5, OneIsNew
<1> QED
  BY <1>2, <1>3, <1>4, <1>5

\* What is delivered in this step is younger than what was delivered of its sender.
LEMMA InOrderStep ==
  ASSUME IInv, OrderInv, DeliveryInv, OnceInv, Next
  PROVE  OfflineInOrder'
<1> SUFFICES ASSUME NEW c \in Conns, NEW k \in DOMAIN s2c'[c], NEW l \in DOMAIN s2c'[c], k < l,
                    s2c'[c][k].type = "PRIVATE", s2c'[c][l].type = "PRIVATE",
                    s2c'[c][k].offline, s2c'[c][l].offline,
                    s2c'[c][k].msg.src = s2c'[c][l].msg.src
             PROVE  s2c'[c][k].msg.id < s2c'[c][l].msg.id
  BY DEF OfflineInOrder
<1>1. CASE l \in DOMAIN s2c[c]
  <2>1. k \in DOMAIN s2c[c]
    BY <1>1, SentCases
  <2> QED
    <3>1. s2c'[c][k] = s2c[c][k] /\ s2c'[c][l] = s2c[c][l]
      BY <1>1, <2>1, SentCases
    <3> QED
      BY <1>1, <2>1, <3>1 DEF OnceInv, OfflineInOrder
<1>2. CASE l \notin DOMAIN s2c[c]
  <2>1. k \in DOMAIN s2c[c]
    BY <1>2, SentCases
  <2>2. PICK r \in Reply : r = s2c'[c][l]
    BY <1>2, SentCases DEF Sends
  <2>3. PICK q \in Privates(c) : q = s2c'[c][k]
    BY <2>1, SentCases DEF Privates, Range
  <2> QED
    BY <1>2, <2>2, <2>3, NewIsUnsent
<1> QED
  BY <1>1, <1>2

-----------------------------------------------------------------------------
(* The theorems on private messages. *)

\* Nothing was sent and nothing is stored.
LEMMA InitOnce == Init => OnceInv
<1> SUFFICES ASSUME Init PROVE OnceInv
  OBVIOUS
<1>1. Pending /\ Queued
  BY DEF Init, Pending, Queued, Privates, Range
<1>2. Unrepeated
  BY DEF Init, Unrepeated, Unsent, Privates, Range
<1>3. PrivateAtMostOnce /\ OfflineInOrder
  BY DEF Init, PrivateAtMostOnce, OfflineInOrder
<1> QED
  BY <1>1, <1>2, <1>3 DEF OnceInv

\* Nothing that waits was sent, and nothing is sent again.
LEMMA StepOnce == IInv /\ OrderInv /\ DeliveryInv /\ OnceInv /\ [Next]_vars => OnceInv'
<1> SUFFICES ASSUME IInv, OrderInv, DeliveryInv, OnceInv, [Next]_vars PROVE OnceInv'
  OBVIOUS
<1>1. CASE Next
  BY <1>1, PendingStep, QueuedStep, UnrepeatedStep, AtMostOnceStep, InOrderStep DEF OnceInv
<1>2. CASE UNCHANGED vars
  <2> USE DEF vars, workerVars, sharedVars, clientVars
  <2>1. Pending'
    BY <1>2 DEF OnceInv, Pending, Privates, Range, Earlier, After, Read
  <2>2. Queued'
    BY <1>2 DEF OnceInv, Queued
  <2>3. Unrepeated'
    BY <1>2 DEF OnceInv, Unrepeated, Unsent, Waiting, Privates, Range
  <2>4. PrivateAtMostOnce' /\ OfflineInOrder'
    BY <1>2 DEF OnceInv, PrivateAtMostOnce, OfflineInOrder
  <2> QED
    BY <2>1, <2>2, <2>3, <2>4 DEF OnceInv
<1> QED
  BY <1>1, <1>2

\* What waits in a queue has not been sent, and what was sent is not sent again.
THEOREM OnceInvariance == Spec => []OnceInv
  BY InitOnce, StepOnce, Invariance, OrderInvariance, DeliveryInvariance, PTL DEF Spec

\* No private message is sent twice: not live and again from the store, not from the store
\* to two clients with one nickname, not again after its queue was delivered.
THEOREM NoPrivateTwice == Spec => []PrivateAtMostOnce
<1>1. OnceInv => PrivateAtMostOnce
  BY DEF OnceInv
<1> QED
  BY <1>1, OnceInvariance, PTL

\* The stored messages of one sender reach a client in the order in which they were sent.
THEOREM StoredInOrder == Spec => []OfflineInOrder
<1>1. OnceInv => OfflineInOrder
  BY DEF OnceInv
<1> QED
  BY <1>1, OnceInvariance, PTL

-----------------------------------------------------------------------------
(* What a client asks. *)

\* What is on its way to the server was so before, or is what the protocol or the user asks.
LEMMA RequestCases ==
  ASSUME IInv, Streams, Next, NEW c \in Conns, NEW m \in Range(c2s'[c])
  PROVE  \/ m \in Range(c2s[c])
         \/ m.type \in {"HELLO", "AUTH", "BYE"}
         \/ \E r \in Requests[c] : m.type = r.type /\ m.count = r.count
<1>0. VarTypes /\ c2s[c] \in Seq(Msg)
  BY DEF IInv, TypeOK, VarTypes
<1>1. CASE c2s'[c] = c2s[c] \/ (c2s[c] # <<>> /\ c2s'[c] = Tail(c2s[c]))
  BY <1>0, <1>1, RangeTail DEF Range
<1>2. ASSUME NEW d \in Conns, NEW f \in Fds, Accept(d, f), c2s'[c] # c2s[c]
      PROVE  m.type = "HELLO"
  <2>1. c2s'[c] = <<Hello(c)>>
    BY <1>0, <1>2, AcceptOpens
  <2> QED
    BY <2>1 DEF Range, Hello
<1>3. ASSUME NEW w \in Workers, WorkerStep(w)
      PROVE  c2s'[c] = c2s[c] \/ (c2s[c] # <<>> /\ c2s'[c] = Tail(c2s[c]))
  <2>1. UNCHANGED nextId
    BY <1>3, LockTaken
       DEF WorkerStep, Pop, RecvHello, SendWelcome, RecvAuth, CheckNick, Register, Refuse,
           SendInfo, DeliverOffline, RecvRequest, Broadcast, Lookup, FindTarget, SendPrivate,
           StoreOffline, SaveHistory, ListUsers, CollectHistory, SendAnswer, RemoveClient,
           CloseClient, Sigpipe, ServerSame, clientVars
  <2> QED
    BY <2>1, <1>0, OneStream DEF Streams
<1>4. ASSUME NEW d \in Conns, ClientStep(d), c2s'[c] # c2s[c]
      PROVE  \/ m \in Range(c2s[c])
             \/ m.type \in {"AUTH", "BYE"}
             \/ \E r \in Requests[c] : m.type = r.type /\ m.count = r.count
  <2>1. ASSUME NEW type \in {"AUTH", "BYE"} \cup RequestTypes, NEW name \in Names,
               NEW count \in Nat, ClientSend(d, type, name, count)
        PROVE  d = c /\ (m \in Range(c2s[c]) \/ (m.type = type /\ m.count = count))
    <3> DEFINE e == [type |-> type, src |-> d, id |-> nextId[d], name |-> name,
                     count |-> count]
    <3>1. e \in Msg /\ e.type = type /\ e.count = count
      BY <1>0 DEF Msg, VarTypes
    <3>2. c2s' = [c2s EXCEPT ![d] = Append(@, e)]
      BY <2>1 DEF ClientSend
    <3> HIDE DEF e
    <3>3. d = c /\ c2s'[c] = Append(c2s[c], e)
      BY <1>0, <1>4, <3>2 DEF VarTypes
    <3>4. m \in Range(c2s[c]) \cup {e}
      BY <1>0, <3>1, <3>3, RangeAppend
    <3> QED
      BY <3>1, <3>3, <3>4
  <2>2. ASSUME NEW n \in Logins[d], ClientAuth(d, n)
        PROVE  m \in Range(c2s[c]) \/ m.type = "AUTH"
    <3>1. n \in Names /\ 0 \in Nat
      OBVIOUS
    <3>2. ClientSend(d, "AUTH", n, 0)
      BY <2>2 DEF ClientAuth
    <3> QED
      BY <2>1, <3>1, <3>2
  <2>3. ASSUME NEW r \in Requests[d], ClientRequest(d, r)
        PROVE  \/ m \in Range(c2s[c])
               \/ d = c /\ m.type = r.type /\ m.count = r.count
    <3>1. r \in [type : RequestTypes, name : Names, count : Nat]
      OBVIOUS
    <3>2. r.type \in RequestTypes /\ r.name \in Names /\ r.count \in Nat
      BY <3>1
    <3>3. ClientSend(d, r.type, r.name, r.count)
      BY <2>3 DEF ClientRequest
    <3> QED
      BY <2>1, <3>2, <3>3
  <2>4. ASSUME ClientQuit(d)
        PROVE  m \in Range(c2s[c]) \/ m.type = "BYE"
    <3>1. ClientSend(d, "BYE", None, 0) /\ None \in Names /\ 0 \in Nat
      BY <2>4 DEF ClientQuit
    <3> QED
      BY <2>1, <3>1
  <2>5. ~ (ClientClose(d) \/ ClientRead(d))
    BY <1>4 DEF ClientClose, ClientRead
  <2> QED
    BY <1>4, <2>2, <2>3, <2>4, <2>5 DEF ClientStep
<1>5. ~ Restart \/ c2s' = c2s
  BY DEF Restart
<1> QED
  BY <1>1, <1>2, <1>3, <1>4, <1>5 DEF Next

-----------------------------------------------------------------------------
(* What a client has said and heard, it finds in the history. *)

\* Nobody asks for less than the whole history.
WholeHistory == \A c \in Conns : \A r \in Requests[c] : r.type = "HISTORY" => r.count = 0

\* The chat messages of its own that were sent to a client.
Echoes(c) == {r \in Range(s2c[c]) : r.type = "TEXT" /\ r.msg.src = c}

\* It is in the history, or the worker that broadcasts it has still to save it.
Written(m) ==
  \/ m \in MsgsOf(history)
  \/ \E w \in Workers : pc[w] \in {"broadcast", "saveSent"} /\ msg[w] = m

\* All of the history is asked for; what a client with a socket was echoed is written;
\* and a reply that is not cut has all that its reader was echoed.
Counted ==
  /\ \A c \in Conns : \A m \in Range(c2s[c]) : m.type = "HISTORY" => m.count = 0
  /\ \A w \in Workers : pc[w] = "history" => msg[w].count = 0

EchoesWritten ==
  \A c \in Conns : \A r \in Echoes(c) :
    /\ peer[c] # "none"
    /\ \A f \in Fds : sockOf[f] = c => Written(r.msg)

RepliesComplete ==
  \A w \in Workers, c \in Conns :
    /\ pc[w] = "answer" /\ sockOf[fd[w]] = c
    /\ reply[w].type = "HISTORY_DATA" /\ Len(reply[w].lines) < ReplyLines
    => \A r \in Echoes(c) : r.msg \in MsgsOf(reply[w].lines)

ReadingInv == Counted /\ EchoesWritten /\ RepliesComplete /\ ReadYourWrites

\* The count of a request is what the user typed.
LEMMA CountedStep ==
  ASSUME IInv, OrderInv, WholeHistory, Counted, Next
  PROVE  Counted'
<1>0. VarTypes /\ Streams
  BY DEF IInv, TypeOK, OrderInv
<1>1. ASSUME NEW c \in Conns, NEW m \in Range(c2s'[c]), m.type = "HISTORY"
      PROVE  m.count = 0
  BY <1>0, <1>1, RequestCases DEF WholeHistory, Counted
<1>2. ASSUME NEW w \in Workers, pc'[w] = "history"
      PROVE  msg'[w].count = 0
  <2>1. CASE HandlingBegins(w)
    <3>1. PICK c \in Conns : c2s[c] \in Seq(Msg) /\ 1 \in DOMAIN c2s[c] /\ msg'[w] = c2s[c][1]
      BY <1>0, <2>1, BeginsWith
    <3>2. PICK m \in Msg : m = msg'[w] /\ m \in Range(c2s[c])
      BY <1>0, <2>1, <3>1, BeginsWith DEF Range
    <3>3. m.type = "HISTORY"
      <4>1. Handler[m.type] = "history" /\ m.type \in RequestTypes \cup {"HELLO", "AUTH", "BYE"}
        BY <1>2, <2>1, <3>2 DEF HandlingBegins, Msg
      <4> QED
        BY <4>1 DEF Handler, RequestTypes
    <3> QED
      BY <3>2, <3>3 DEF Counted
  <2>2. CASE HandlingGoesOn(w)
    BY <1>2, <2>2 DEF HandlingGoesOn, Counted, PendingStages
  <2> QED
    BY <1>2, <2>1, <2>2, HandlingCases DEF RequestStages
<1>3. ASSUME NEW c \in Conns, NEW m \in Range(c2s[c])', m.type = "HISTORY"
      PROVE  m.count = 0
  BY <1>1, <1>3 DEF Range
<1> QED
  BY <1>2, <1>3 DEF Counted

\* An echo that is sent in this step is sent by the worker of its author.
LEMMA EchoCases ==
  ASSUME IInv, OrderInv, Answering, Next, NEW c \in Conns, NEW r \in Echoes(c)'
  PROVE  \/ r \in Echoes(c)
         \/ \E w \in Workers :
              /\ Broadcast(w) /\ pc[w] = "broadcast" /\ r.msg = msg[w] /\ msg[w] \in Msg
              /\ sockOf[fd[w]] = c
<1>1. r \in Range(s2c'[c]) /\ r.type = "TEXT" /\ r.msg.src = c
  BY DEF Echoes, Range
<1>2. CASE r \in Range(s2c[c])
  BY <1>1, <1>2 DEF Echoes
<1>3. ASSUME NEW k \in DOMAIN s2c'[c] \ DOMAIN s2c[c], r = s2c'[c][k]
      PROVE  \E w \in Workers :
               /\ Broadcast(w) /\ pc[w] = "broadcast" /\ r.msg = msg[w] /\ msg[w] \in Msg
               /\ sockOf[fd[w]] = c
  <2>1. PICK w \in Workers, f \in Fds : sockOf[f] = c /\ Sends(w, f, r)
    BY <1>3, SentCases
  <2>2. r \in Reply
    BY <2>1 DEF Sends
  <2>3. Broadcast(w) /\ pc[w] = "broadcast" /\ r = Text(msg[w])
    BY <1>1, <2>1, <2>2, TextSends
  <2>4. r.msg = msg[w] /\ msg[w] \in Msg /\ msg[w].src = sockOf[fd[w]]
    BY <2>3 DEF Text, OrderInv, Handling, RequestStages, IInv, TypeOK, LocalsSet
  <2> QED
    BY <1>1, <2>3, <2>4
<1> QED
  BY <1>1, <1>2, <1>3, SentBefore

\* What is written stays written, unless the process dies.
LEMMA WrittenStep ==
  ASSUME IInv, Next, ~ \E w \in Workers : Sigpipe(w), NEW m \in Msg, Written(m)
  PROVE  Written(m)'
<1>0. VarTypes /\ history \in Seq(Record)
  BY DEF IInv, TypeOK, VarTypes
<1> USE DEF At, Goto
<1>1. CASE m \in MsgsOf(history)
  <2>1. history' = history \/ \E q \in Record : history' = Append(history, q)
    <3>1. CASE \E w \in Workers : WorkerStep(w)
      <4>1. PICK w \in Workers : WorkerStep(w) /\ ~ Sigpipe(w)
        BY <3>1
      <4>2. CASE SaveHistory(w)
        <5>1. msg[w] \in Msg
          BY <4>2 DEF SaveHistory, IInv, TypeOK, LocalsSet, RequestStages
        <5> DEFINE q == [msg |-> msg[w], delivered |-> pc[w] = "saveSent",
                         is_offline |-> pc[w] = "saveStored"]
        <5>2. q \in Record
          BY <5>1 DEF Record
        <5>3. history' = Append(history, q)
          BY <4>2 DEF SaveHistory, Logged
        <5> HIDE DEF q
        <5> QED
          BY <5>2, <5>3
      <4>3. CASE ~ SaveHistory(w)
        BY <4>1, <4>3, LockTaken
           DEF WorkerStep, Pop, RecvHello, SendWelcome, RecvAuth, CheckNick, Register, Refuse,
               SendInfo, DeliverOffline, RecvRequest, Broadcast, Lookup, FindTarget,
               SendPrivate, StoreOffline, ListUsers, CollectHistory, SendAnswer, RemoveClient,
               CloseClient, sharedVars
      <4> QED
        BY <4>2, <4>3
    <3>2. CASE ~ \E w \in Workers : WorkerStep(w)
      BY <3>2, OutsideStep
    <3> QED
      BY <3>1, <3>2
  <2>2. PICK i \in DOMAIN history : m = history[i].msg
    BY <1>1 DEF MsgsOf
  <2>3. i \in DOMAIN history' /\ history'[i] = history[i]
    BY <1>0, <2>1, AppendElements
  <2> QED
    BY <2>2, <2>3 DEF Written, MsgsOf
<1>2. ASSUME NEW w \in Workers, pc[w] \in {"broadcast", "saveSent"}, msg[w] = m
      PROVE  Written(m)'
  <2>1. CASE pc'[w] \in {"broadcast", "saveSent"} /\ msg'[w] = msg[w]
    BY <1>2, <2>1 DEF Written
  <2>2. CASE WorkerStep(w)
    <3>1. LockClients(w) \/ Broadcast(w) \/ SaveHistory(w)
      BY <1>2, <2>2
         DEF WorkerStep, Pop, RecvHello, SendWelcome, RecvAuth, CheckNick, Register, Refuse,
             SendInfo, LockOffline, DeliverOffline, RecvRequest, Lookup, FindTarget,
             SendPrivate, StoreOffline, ListUsers, CollectHistory, SendAnswer, RemoveClient,
             CloseClient
    <3>4. CASE LockClients(w)
      <4>1. pc'[w] \in {"broadcast", "saveSent"} /\ msg'[w] = msg[w]
        BY <1>2, <3>4, LockTaken
      <4> QED
        BY <2>1, <4>1
    <3>2. CASE Broadcast(w)
      <4>1. pc'[w] \in {"broadcast", "saveSent"} /\ msg'[w] = msg[w]
        BY <1>0, <1>2, <3>2 DEF Broadcast, VarTypes
      <4> QED
        BY <2>1, <4>1
    <3>3. CASE SaveHistory(w)
      <4> DEFINE q == [msg |-> msg[w], delivered |-> pc[w] = "saveSent",
                       is_offline |-> pc[w] = "saveStored"]
      <4>1. q \in Record /\ q.msg = m
        BY <1>2 DEF Record
      <4>2. history' = Append(history, q)
        BY <3>3 DEF SaveHistory, Logged
      <4> HIDE DEF q
      <4>3. Len(history) + 1 \in DOMAIN history' /\ history'[Len(history) + 1] = q
        BY <1>0, <4>1, <4>2, AppendElements
      <4> QED
        BY <4>1, <4>3 DEF Written, MsgsOf
    <3> QED
      BY <3>1, <3>2, <3>3, <3>4
  <2>3. CASE \E v \in Workers : v # w /\ WorkerStep(v)
    <3>1. pc'[w] = pc[w] /\ msg'[w] = msg[w]
      BY <1>0, <2>3, OthersStay
    <3> QED
      BY <1>2, <2>1, <3>1
  <2>4. CASE ~ \E v \in Workers : WorkerStep(v)
    <3>1. pc'[w] = pc[w] /\ msg'[w] = msg[w]
      BY <2>4, OutsideStep DEF workerVars
    <3> QED
      BY <1>2, <2>1, <3>1
  <2> QED
    BY <2>2, <2>3, <2>4
<1> QED
  BY <1>1, <1>2 DEF Written

\* What is sent to its author is a chat message.
LEMMA EchoFields ==
  ASSUME IInv, NEW c \in Conns, NEW r \in Echoes(c)
  PROVE  r \in Reply /\ r.msg \in Msg
<1>1. r \in Reply
  BY SentTypes DEF Echoes
<1> QED
  BY <1>1 DEF Reply, Echoes

\* An echo is sent before its message is saved, and a client that has a socket keeps the
\* worker that saves it.
LEMMA EchoesWrittenStep ==
  ASSUME IInv, OrderInv, Answering, EchoesWritten, Next
  PROVE  EchoesWritten'
<1>0. VarTypes /\ Streams /\ Handling
  BY DEF IInv, TypeOK, OrderInv
<1> SUFFICES ASSUME NEW c \in Conns, NEW r \in Echoes(c)'
             PROVE  /\ peer'[c] # "none"
                    /\ \A f \in Fds : sockOf'[f] = c => Written(r.msg)'
  BY DEF EchoesWritten
<1>1. ASSUME NEW w \in Workers, Broadcast(w), pc[w] = "broadcast", r.msg = msg[w],
             msg[w] \in Msg, sockOf[fd[w]] = c
      PROVE  peer[c] # "none" /\ Written(r.msg)'
  <2>1. fd[w] \in Fds /\ sockOf[fd[w]] # None
    BY <1>1, HasSocket DEF IInv
  <2>2. pc'[w] \in {"broadcast", "saveSent"} /\ msg'[w] = msg[w]
    BY <1>0, <1>1 DEF Broadcast, At, Goto, VarTypes
  <2> QED
    BY <1>0, <1>1, <2>1, <2>2 DEF Streams, Written
<1>2. ASSUME r \in Echoes(c), NEW f \in Fds, sockOf[f] = c, sockOf'[f] = c
      PROVE  Written(r.msg)'
  <2>1. ~ \E w \in Workers : Sigpipe(w)
    BY <1>2 DEF Sigpipe
  <2>2. PICK m \in Msg : m = r.msg
    BY <1>2, EchoFields
  <2>3. Written(m)
    BY <1>2, <2>2 DEF EchoesWritten
  <2>4. Written(m)'
    BY <2>1, <2>3, WrittenStep
  <2> QED
    BY <2>2, <2>4
<1>3. ASSUME NEW d \in Conns, NEW f \in Fds, Accept(d, f)
      PROVE  /\ peer'[c] # "none"
             /\ \A g \in Fds : sockOf'[g] = c => Written(r.msg)'
  <2>1. r \in Echoes(c)
    BY <1>3 DEF Accept, Echoes
  <2>2. peer[c] # "none" /\ peer[d] = "none"
    BY <1>3, <2>1 DEF EchoesWritten, Accept
  <2>3. peer'[c] = peer[c]
    BY <1>0, <1>3, <2>2 DEF Accept, VarTypes
  <2>4. ASSUME NEW g \in Fds, sockOf'[g] = c
        PROVE  sockOf[g] = c
    BY <1>0, <1>3, <2>2, <2>4 DEF Accept, VarTypes
  <2> QED
    BY <1>2, <2>1, <2>2, <2>3, <2>4
<1>4. CASE /\ \A f \in Fds : sockOf'[f] \in {sockOf[f], None}
           /\ \A d \in Conns : peer'[d] = "none" <=> peer[d] = "none"
  <2>1. peer[c] # "none"
    BY <1>1, EchoCases DEF EchoesWritten, DeliveryInv
  <2>2. ASSUME NEW f \in Fds, sockOf'[f] = c
        PROVE  sockOf[f] = c
    BY <1>4, <2>2
  <2>3. CASE r \in Echoes(c)
    BY <1>2, <1>4, <2>1, <2>2, <2>3
  <2>4. CASE \E w \in Workers :
              /\ Broadcast(w) /\ pc[w] = "broadcast" /\ r.msg = msg[w] /\ msg[w] \in Msg
              /\ sockOf[fd[w]] = c
    BY <1>1, <1>4, <2>1, <2>4
  <2> QED
    BY <2>3, <2>4, EchoCases
<1> QED
  BY <1>3, <1>4, SocketCases

\* The whole history is collected, as far as it fits.
LEMMA WholePayload ==
  ASSUME IInv, Len(Payload(LastRecords(0))) < ReplyLines
  PROVE  Payload(LastRecords(0)) = history
<1>1. PICK n \in Nat : n = Len(history)
  BY LenProperties DEF IInv, TypeOK, VarTypes
<1>2. history \in Seq(Record) /\ ReplyLines \in Nat
  BY ConstantsAssumption DEF IInv, TypeOK, VarTypes
<1>3. LastRecords(0) = SubSeq(history, 1, n)
  BY <1>1 DEF LastRecords
<1>4. LastRecords(0) = history
  BY <1>1, <1>2, <1>3
<1>5. Payload(history) = SubSeq(history, 1, IF n < ReplyLines THEN n ELSE ReplyLines)
  BY <1>1 DEF Payload
<1>6. CASE n < ReplyLines
  BY <1>1, <1>2, <1>4, <1>5, <1>6
<1>7. CASE ~ (n < ReplyLines)
  <2>1. Len(SubSeq(history, 1, ReplyLines)) = ReplyLines
    BY <1>1, <1>2, <1>7, SubSeqProperties
  <2> QED
    BY <1>2, <1>4, <1>5, <1>7, <2>1
<1> QED
  BY <1>6, <1>7

\* A worker that is about to answer has just composed the answer, or goes on waiting.
LEMMA AnswerCases ==
  ASSUME IInv, Next, NEW w \in Workers, pc'[w] = "answer"
  PROVE  /\ fd'[w] = fd[w] /\ pc[w] # "pop"
         /\ \/ pc[w] = "answer" /\ reply'[w] = reply[w]
            \/ pc[w] = "recv" /\ reply'[w] = Pong
            \/ \E users : pc[w] = "list" /\ reply'[w] = ServerInfo(users)
            \/ /\ CollectHistory(w) /\ pc[w] = "history" /\ UNCHANGED s2c
               /\ reply'[w] = HistoryData(Payload(LastRecords(msg[w].count)))
<1> USE DEF At, Goto
<1>0. VarTypes
  BY DEF IInv, TypeOK
<1>1. ~ \E v \in Workers : Sigpipe(v)
  BY DEF Sigpipe
<1>2. CASE WorkerStep(w)
  <2>1. ~ (Pop(w) \/ RecvHello(w) \/ SendWelcome(w) \/ RecvAuth(w) \/ CheckNick(w)
           \/ Register(w) \/ Refuse(w) \/ SendInfo(w) \/ DeliverOffline(w))
    BY <1>0, DeliverMoves
       DEF Pop, RecvHello, SendWelcome, RecvAuth, CheckNick, Register, Refuse, SendInfo,
           NextClient, AfterStage, FirstVerdict, VarTypes
  <2>6. CASE LockClients(w) \/ LockOffline(w)
    BY <2>6, LockTaken
  <2>2. ~ (Broadcast(w) \/ Lookup(w) \/ FindTarget(w) \/ SendPrivate(w) \/ StoreOffline(w)
           \/ SaveHistory(w) \/ SendAnswer(w) \/ RemoveClient(w) \/ CloseClient(w))
    BY <1>0 DEF Broadcast, Lookup, FindTarget, SendPrivate, StoreOffline, SaveHistory,
                SendAnswer, RemoveClient, CloseClient, NextClient, VarTypes
  <2>3. CASE RecvRequest(w)
    <3>1. PICK m \in Msg : m = Incoming(w) /\ pc'[w] = Handler[m.type]
      BY <1>0, <2>3, ReceiveTypes DEF RecvRequest, IInv, VarTypes
    <3>2. m.type \in RequestTypes \cup {"HELLO", "AUTH", "BYE"}
      BY DEF Msg
    <3>3. m.type = "PING"
      BY <3>1, <3>2 DEF Handler, RequestTypes
    <3> QED
      BY <1>0, <2>3, <3>1, <3>3 DEF RecvRequest, VarTypes
  <2>4. CASE ListUsers(w)
    BY <1>0, <2>4 DEF ListUsers, VarTypes
  <2>5. CASE CollectHistory(w)
    BY <1>0, <2>5 DEF CollectHistory, VarTypes
  <2> QED
    BY <1>1, <1>2, <2>1, <2>2, <2>3, <2>4, <2>5, <2>6 DEF WorkerStep
<1>3. CASE \E v \in Workers : v # w /\ WorkerStep(v)
  BY <1>0, <1>1, <1>3, OthersStay
<1>4. CASE ~ \E v \in Workers : WorkerStep(v)
  BY <1>4, OutsideStep DEF workerVars
<1> QED
  BY <1>2, <1>3, <1>4

\* The history is collected by the worker that wrote what its client was echoed.
LEMMA RepliesCompleteStep ==
  ASSUME IInv, OrderInv, Answering, Counted, EchoesWritten, RepliesComplete, Next
  PROVE  RepliesComplete'
<1>0. VarTypes /\ Streams /\ Handling
  BY DEF IInv, TypeOK, OrderInv
<1> SUFFICES ASSUME NEW w \in Workers, NEW c \in Conns, pc'[w] = "answer", sockOf'[fd'[w]] = c,
                    reply'[w].type = "HISTORY_DATA", Len(reply'[w].lines) < ReplyLines,
                    NEW r \in Echoes(c)'
             PROVE  r.msg \in MsgsOf(reply'[w].lines)
  BY DEF RepliesComplete
<1>1. fd'[w] = fd[w] /\ pc[w] # "pop"
  BY AnswerCases
<1>2. fd[w] \in Fds /\ sockOf[fd[w]] = c
  BY <1>1, SocketKept DEF IInv, TypeOK, LocalsSet
<1>5. ASSUME NEW v \in Workers, pc[v] \in {"broadcast", "saveSent"}, sockOf[fd[v]] = c
      PROVE  v = w
  BY <1>0, <1>1, <1>2, <1>5, OneWorker
<1>6. CASE pc[w] = "answer" /\ reply'[w] = reply[w]
  <2>1. r \in Echoes(c)
    BY <1>5, <1>6, EchoCases
  <2> QED
    BY <1>2, <1>6, <2>1 DEF RepliesComplete
<1>7. CASE /\ CollectHistory(w) /\ pc[w] = "history" /\ UNCHANGED s2c
           /\ reply'[w] = HistoryData(Payload(LastRecords(msg[w].count)))
  <2>1. msg[w].count = 0
    BY <1>7 DEF Counted
  <2>2. reply'[w].lines = history
    BY <1>7, <2>1, WholePayload DEF HistoryData
  <2>3. r \in Echoes(c)
    BY <1>7 DEF Echoes
  <2>4. Written(r.msg)
    BY <1>2, <2>3 DEF EchoesWritten
  <2>5. ASSUME NEW v \in Workers, pc[v] \in {"broadcast", "saveSent"}, msg[v] = r.msg
        PROVE  FALSE
    <3>1. sockOf[fd[v]] = c
      BY <1>0, <2>3, <2>5 DEF Handling, RequestStages, Echoes
    <3> QED
      BY <1>5, <1>7, <2>5, <3>1
  <2> QED
    BY <2>2, <2>4, <2>5 DEF Written
<1>8. reply'[w] # Pong
  BY DEF Pong
<1>9. ASSUME NEW users, reply'[w] = ServerInfo(users)
      PROVE  FALSE
  <2>1. ServerInfo(users).type = "SERVER_INFO"
    BY DEF ServerInfo
  <2> QED
    BY <1>9, <2>1
<1> QED
  BY <1>6, <1>7, <1>8, <1>9, AnswerCases

\* A reply that is sent in this step has what its reader was echoed before.
LEMMA ReadYourWritesStep ==
  ASSUME IInv, Answering, RepliesComplete, ReadYourWrites, Next
  PROVE  ReadYourWrites'
<1> SUFFICES ASSUME NEW c \in Conns, NEW j \in DOMAIN s2c'[c], NEW k \in DOMAIN s2c'[c], j < k,
                    s2c'[c][j].type = "TEXT", s2c'[c][j].msg.src = c,
                    s2c'[c][k].type = "HISTORY_DATA", Len(s2c'[c][k].lines) < ReplyLines
             PROVE  \E i \in DOMAIN s2c'[c][k].lines : s2c'[c][k].lines[i].msg = s2c'[c][j].msg
  BY DEF ReadYourWrites
<1>1. j \in DOMAIN s2c[c] /\ s2c'[c][j] = s2c[c][j]
  BY SentCases
<1>2. CASE k \in DOMAIN s2c[c]
  <2>1. s2c'[c][k] = s2c[c][k]
    BY <1>2, SentCases
  <2> QED
    BY <1>1, <1>2, <2>1 DEF ReadYourWrites
<1>3. CASE k \notin DOMAIN s2c[c]
  <2>1. PICK w \in Workers, f \in Fds : sockOf[f] = c /\ Sends(w, f, s2c'[c][k])
    BY <1>3, SentCases
  <2>2. PICK r \in Reply : r = s2c'[c][k]
    BY <2>1 DEF Sends
  <2>3. pc[w] = "answer" /\ f = fd[w] /\ r = reply[w]
    <3>1. Sends(w, f, r) /\ r.type = "HISTORY_DATA"
      BY <2>1, <2>2
    <3> QED
      BY <3>1, HistorySends
  <2>4. s2c[c][j] \in Echoes(c)
    BY <1>1 DEF Echoes, Range
  <2>5. s2c[c][j].msg \in MsgsOf(r.lines)
    BY <2>1, <2>2, <2>3, <2>4 DEF RepliesComplete
  <2> QED
    BY <1>1, <2>2, <2>5 DEF MsgsOf
<1> QED
  BY <1>2, <1>3

\* Nothing was asked or said.
LEMMA InitReading == Init => ReadingInv
<1> SUFFICES ASSUME Init PROVE ReadingInv
  OBVIOUS
<1>1. Counted /\ EchoesWritten
  BY DEF Init, Counted, EchoesWritten, Echoes, Range
<1>2. RepliesComplete /\ ReadYourWrites
  BY DEF Init, RepliesComplete, ReadYourWrites
<1> QED
  BY <1>1, <1>2 DEF ReadingInv

\* What was echoed is written, and found.
LEMMA StepReading ==
  WholeHistory /\ IInv /\ OrderInv /\ DeliveryInv /\ ReadingInv /\ [Next]_vars => ReadingInv'
<1> SUFFICES ASSUME WholeHistory, IInv, OrderInv, DeliveryInv, ReadingInv, [Next]_vars
             PROVE  ReadingInv'
  OBVIOUS
<1>1. CASE Next
  BY <1>1, CountedStep, EchoesWrittenStep, RepliesCompleteStep, ReadYourWritesStep
     DEF ReadingInv, DeliveryInv
<1>2. CASE UNCHANGED vars
  <2> USE DEF vars, workerVars, sharedVars, clientVars
  <2>1. Counted' /\ ReadYourWrites'
    BY <1>2 DEF ReadingInv, Counted, ReadYourWrites, Range
  <2>2. EchoesWritten'
    BY <1>2 DEF ReadingInv, EchoesWritten, Echoes, Written, MsgsOf, Range
  <2>3. RepliesComplete'
    <3>1. \A c \in Conns : Echoes(c)' = Echoes(c)
      BY <1>2 DEF Echoes, Range
    <3>2. UNCHANGED <<pc, fd, sockOf, reply>>
      BY <1>2
    <3> QED
      BY <3>1, <3>2 DEF ReadingInv, RepliesComplete, MsgsOf
  <2> QED
    BY <2>1, <2>2, <2>3 DEF ReadingInv
<1> QED
  BY <1>1, <1>2

\* When the whole history is asked for, a client that has seen its own chat message finds it
\* in the reply, as far as the reply has room, whatever the other workers save meanwhile
\* and although the message was broadcast before it was saved.
THEOREM WritersFindTheirTexts == WholeHistory => (Spec => []ReadYourWrites)
<1> SUFFICES ASSUME WholeHistory PROVE Spec => []ReadYourWrites
  OBVIOUS
<1>1. Init => ReadingInv
  BY InitReading
<1>2. IInv /\ OrderInv /\ DeliveryInv /\ ReadingInv /\ [Next]_vars => ReadingInv'
  BY StepReading
<1>3. ReadingInv => ReadYourWrites
  BY DEF ReadingInv
<1> QED
  BY <1>1, <1>2, <1>3, Invariance, OrderInvariance, DeliveryInvariance, PTL DEF Spec

-----------------------------------------------------------------------------
(* What a client hears before it is in the chat. *)

\* Nobody whispers.
NoWhispers == \A c \in Conns : \A r \in Requests[c] : r.type # "PRIVATE"

\* So none is under way or stored, and no worker has one at hand.
Unwhispered ==
  /\ \A c \in Conns : \A m \in Range(c2s[c]) : m.type # "PRIVATE"
  /\ \A n \in Names : offline[n] = <<>>
  /\ \A w \in Workers : pc[w] \notin PendingStages \cup {"saveStored"}

\* A connection has heard nothing before its worker sends WELCOME, nothing else until its
\* nickname is entered, and no ERROR from then on.
Hushed ==
  /\ \A c \in Conns : peer[c] = "none" => s2c[c] = <<>>
  /\ \A i \in DOMAIN queue : s2c[sockOf[queue[i]]] = <<>>
  /\ \A w \in Workers : pc[w] \in {"hello", "welcome"} => s2c[sockOf[fd[w]]] = <<>>
  /\ \A w \in Workers : pc[w] \in {"auth", "check", "register", "refuse"} =>
       s2c[sockOf[fd[w]]] = <<Welcome>>
  /\ \A w \in Workers : Entered(w) =>
       s2c[sockOf[fd[w]]] # <<>> /\ ~ Sent(sockOf[fd[w]], Error)

QuietInv == Unwhispered /\ Hushed /\ RefusedSeesNothing

\* Only PRIVATE requests lead to the store or to another client's socket.
LEMMA UnwhisperedStep ==
  ASSUME IInv, OrderInv, NoWhispers, Unwhispered, Next
  PROVE  Unwhispered'
<1>0. VarTypes /\ Streams
  BY DEF IInv, TypeOK, OrderInv
<1>1. ASSUME NEW c \in Conns, NEW m \in Range(c2s'[c])
      PROVE  m.type # "PRIVATE"
  BY <1>0, <1>1, RequestCases DEF NoWhispers, Unwhispered
<1>2. ASSUME NEW n \in Names
      PROVE  offline'[n] = <<>>
  <2>1. ~ \E w \in Workers : pc[w] = "store"
    BY DEF Unwhispered, PendingStages
  <2>2. ASSUME NEW x \in Names, offline' = [offline EXCEPT ![x] = <<>>]
        PROVE  offline'[n] = <<>>
    BY <1>0, <2>2 DEF Unwhispered, VarTypes
  <2> QED
    BY <2>1, <2>2, OfflineCases DEF Unwhispered
<1>3. ASSUME NEW w \in Workers, pc'[w] \in PendingStages \cup {"saveStored"}
      PROVE  FALSE
  <2>1. CASE HandlingBegins(w)
    <3>1. PICK c \in Conns : c2s[c] \in Seq(Msg) /\ 1 \in DOMAIN c2s[c] /\ msg'[w] = c2s[c][1]
      BY <1>0, <2>1, BeginsWith
    <3>2. PICK m \in Msg : m = msg'[w] /\ m \in Range(c2s[c])
      BY <1>0, <2>1, <3>1, BeginsWith DEF Range
    <3>3. m.type = "PRIVATE"
      <4>1. pc'[w] = Handler[m.type] /\ m.type \in RequestTypes \cup {"HELLO", "AUTH", "BYE"}
        BY <1>3, <2>1, <3>2 DEF HandlingBegins, Msg
      <4> QED
        BY <1>3, <4>1 DEF Handler, RequestTypes, PendingStages
    <3> QED
      BY <3>2, <3>3 DEF Unwhispered
  <2>2. CASE HandlingGoesOn(w)
    BY <1>3, <2>2 DEF HandlingGoesOn, Unwhispered, PendingStages
  <2> QED
    BY <1>3, <2>1, <2>2, HandlingCases DEF RequestStages, PendingStages
<1>4. ASSUME NEW c \in Conns, NEW m \in Range(c2s[c])'
      PROVE  m.type # "PRIVATE"
  BY <1>1, <1>4 DEF Range
<1> QED
  BY <1>2, <1>3, <1>4 DEF Unwhispered

\* What comes next in the life of a worker, as far as its client's place in the chat goes.
LEMMA StageCases ==
  ASSUME IInv, Next, NEW w \in Workers, pc'[w] # "pop"
  PROVE  \/ Pop(w) /\ pc'[w] = "hello"
         \/ /\ fd'[w] = fd[w] /\ pc[w] # "pop"
            /\ \/ pc'[w] = pc[w]
               \/ pc[w] = "hello" /\ pc'[w] = "welcome"
               \/ pc[w] = "welcome" /\ pc'[w] = "auth" /\ SendWelcome(w)
               \/ /\ pc[w] \in {"auth", "check"}
                  /\ pc'[w] \in {"check", "refuse", "register", "remove"}
               \/ pc[w] = "refuse" /\ pc'[w] = "close" /\ Refuse(w)
               \/ pc[w] = "register" /\ Entered(w)'
               \/ Entered(w) /\ (Entered(w)' \/ pc'[w] = "close")
<1> USE DEF At, Goto
<1>0. VarTypes
  BY DEF IInv, TypeOK
<1>1. ~ \E v \in Workers : Sigpipe(v)
  BY DEF Sigpipe
<1>2. CASE WorkerStep(w)
  <2>1. CASE Pop(w)
    BY <1>0, <2>1 DEF Pop, VarTypes
  <2>2. ~ CloseClient(w)
    BY <1>0 DEF CloseClient, NextClient, VarTypes
  <2>3. CASE RecvHello(w) \/ SendWelcome(w) \/ Refuse(w)
    BY <1>0, <2>3 DEF RecvHello, SendWelcome, Refuse, NextClient, VarTypes
  <2>4. CASE RecvAuth(w) \/ CheckNick(w)
    BY <1>0, <2>4 DEF RecvAuth, CheckNick, FirstVerdict, VarTypes
  <2>5. CASE Register(w) \/ SendInfo(w) \/ DeliverOffline(w) \/ Broadcast(w)
    <3>1. /\ pc[w] \in {"register", "info", "drain", "broadcast"} /\ fd' = fd
          /\ pc'[w] \in {"info", "drain", "recv", "broadcast", "saveSent"}
      BY <1>0, <2>5, DeliverMoves DEF Register, SendInfo, Broadcast, AfterStage, VarTypes
    <3> QED
      BY <3>1 DEF Entered, InSession, SessionStages, Stages
  <2>6. CASE RecvRequest(w)
    <3>1. pc[w] = "recv" /\ fd' = fd
      BY <2>6 DEF RecvRequest
    <3>2. CASE pc'[w] = "remove"
      BY <3>1, <3>2 DEF Entered, InSession, SessionStages, Stages
    <3>3. CASE pc'[w] # "remove"
      <4>1. PICK m \in Msg : m = Incoming(w) /\ pc'[w] = Handler[m.type]
        BY <1>0, <2>6, <3>1, <3>3, ReceiveTypes DEF RecvRequest, IInv, VarTypes
      <4>2. m.type \in RequestTypes \cup {"HELLO", "AUTH", "BYE"}
        BY DEF Msg
      <4>3. pc'[w] \in {"broadcast", "lookup", "answer", "list", "history", "recv"}
        BY <3>3, <4>1, <4>2 DEF Handler, RequestTypes
      <4> QED
        BY <3>1, <4>3 DEF Entered, InSession, SessionStages, Stages
    <3> QED
      BY <3>2, <3>3
  <2>7. CASE Lookup(w) \/ FindTarget(w) \/ SendPrivate(w) \/ StoreOffline(w) \/ SaveHistory(w)
    <3>1. /\ pc[w] \in {"lookup", "deliver", "private", "store", "saveSent", "saveStored"}
          /\ fd' = fd
          /\ pc'[w] \in {"deliver", "store", "private", "saveSent", "saveStored", "recv"}
      BY <1>0, <2>7 DEF Lookup, FindTarget, SendPrivate, StoreOffline, SaveHistory, VarTypes
    <3> QED
      BY <3>1 DEF Entered, InSession, SessionStages, Stages
  <2>8. CASE ListUsers(w) \/ CollectHistory(w) \/ SendAnswer(w) \/ RemoveClient(w)
    <3>1. /\ pc[w] \in {"list", "history", "answer", "remove"} /\ fd' = fd
          /\ pc'[w] \in {"answer", "recv", "close"}
      BY <1>0, <2>8 DEF ListUsers, CollectHistory, SendAnswer, RemoveClient, VarTypes
    <3> QED
      BY <3>1 DEF Entered, InSession, SessionStages, Stages
  <2>9. CASE LockClients(w) \/ LockOffline(w)
    BY <2>9, LockTaken
  <2> QED
    BY <1>1, <1>2, <2>1, <2>2, <2>3, <2>4, <2>5, <2>6, <2>7, <2>8, <2>9 DEF WorkerStep
<1>3. CASE \E v \in Workers : v # w /\ WorkerStep(v)
  <2>1. pc'[w] = pc[w] /\ fd'[w] = fd[w]
    BY <1>0, <1>1, <1>3, OthersStay
  <2> QED
    BY <2>1 DEF IInv, TypeOK, LocalsSet
<1>4. CASE ~ \E v \in Workers : WorkerStep(v)
  <2>1. pc'[w] = pc[w] /\ fd'[w] = fd[w]
    BY <1>4, OutsideStep DEF workerVars
  <2> QED
    BY <2>1 DEF IInv, TypeOK, LocalsSet
<1> QED
  BY <1>2, <1>3, <1>4

\* Who may send to a connection when nobody whispers: its own worker a WELCOME or an ERROR,
\* and anybody anything else once that worker has entered it.
LEMMA HushCases ==
  ASSUME IInv, Answering, Unwhispered, NEW w \in Workers, NEW f \in Fds, NEW r \in Reply,
         Sends(w, f, r)
  PROVE  \/ pc[w] = "welcome" /\ f = fd[w] /\ r = Welcome
         \/ pc[w] = "refuse" /\ f = fd[w] /\ r = Error /\ Refuse(w)
         \/ r # Error /\ \E v \in Workers : Entered(v) /\ fd[v] = f
<1> USE DEF Entered, InSession, SessionStages, Stages
<1>1. CASE SendInfo(w) /\ pc[w] = "info" /\ f = fd[w] /\ r = ServerInfo(<<>>)
  BY <1>1 DEF ServerInfo, Error
<1>2. ~ (pc[w] = "drain" /\ idx[w] \in DOMAIN offline[nick[w]])
  <2>1. nick[w] \in Names
    BY DEF IInv, TypeOK, VarTypes
  <2> QED
    BY <2>1 DEF Unwhispered
<1>3. CASE /\ pc[w] = "broadcast" /\ idx[w] \in DOMAIN clients
           /\ f = clients[idx[w]].sock /\ r = Text(msg[w])
  <2>1. \E v \in Workers : Entered(v) /\ fd[v] = f
    BY <1>3 DEF IInv, RegistryOwned
  <2> QED
    BY <1>3, <2>1 DEF Text, Error
<1>4. pc[w] # "private"
  BY DEF Unwhispered, PendingStages
<1>5. CASE pc[w] = "answer" /\ f = fd[w] /\ r = reply[w]
  BY <1>5 DEF Answering, Error
<1> QED
  BY <1>1, <1>2, <1>3, <1>4, <1>5 DEF Sends

\* A connection is sent one message at most in a step.
LEMMA OneHeard ==
  ASSUME IInv, Next, NEW c \in Conns
  PROVE  \/ s2c'[c] = s2c[c]
         \/ \E w \in Workers, f \in Fds, r \in Reply :
              sockOf[f] = c /\ Sends(w, f, r) /\ s2c'[c] = Append(s2c[c], r)
<1>1. ASSUME NEW w \in Workers, NEW f \in Fds, NEW r \in Reply, Sends(w, f, r),
             s2c' = [s2c EXCEPT ![sockOf[f]] = Append(@, r)]
      PROVE  s2c'[c] = s2c[c] \/ (sockOf[f] = c /\ s2c'[c] = Append(s2c[c], r))
  BY <1>1 DEF IInv, TypeOK, VarTypes
<1> QED
  BY <1>1, WhoSends

\* A worker that has not entered its client is the only one to send to it.
LEMMA OwnerSends ==
  ASSUME IInv, Streams, Answering, Unwhispered, NEW v \in Workers, pc[v] # "pop", ~ Entered(v),
         NEW w \in Workers, NEW f \in Fds, NEW r \in Reply, Sends(w, f, r),
         sockOf[f] = sockOf[fd[v]]
  PROVE  /\ w = v
         /\ \/ pc[v] = "welcome" /\ r = Welcome
            \/ pc[v] = "refuse" /\ r = Error /\ Refuse(v)
<1>1. fd[v] \in Fds /\ sockOf[fd[v]] \in Conns
  BY HasSocket DEF IInv
<1>2. f = fd[v]
  BY <1>1 DEF Streams
<1>3. ASSUME NEW u \in Workers, fd[u] = f
      PROVE  u = v
  BY <1>1, <1>2, <1>3 DEF IInv, DescriptorsOwned
<1>4. ~ \E u \in Workers : Entered(u) /\ fd[u] = f
  BY <1>3
<1> QED
  BY <1>3, <1>4, HushCases

\* No ERROR is added to a stream by another message.
LEMMA StillNoError ==
  ASSUME NEW s \in Seq(Reply), NEW r \in Reply, r # Error, \A k \in DOMAIN s : s[k] # Error
  PROVE  /\ Append(s, r) # <<>> /\ \A k \in DOMAIN Append(s, r) : Append(s, r)[k] # Error
         /\ s # <<>> => Append(s, r)[1] = s[1]
BY AppendElements

\* What a worker's client has heard fits the stage the worker comes to.
LEMMA HushedWorkers ==
  ASSUME IInv, OrderInv, Answering, Unwhispered, Hushed, Next, NEW w \in Workers, pc'[w] # "pop",
         NEW c \in Conns, sockOf'[fd'[w]] = c
  PROVE  /\ pc'[w] \in {"hello", "welcome"} => s2c'[c] = <<>>
         /\ pc'[w] \in {"auth", "check", "register", "refuse"} => s2c'[c] = <<Welcome>>
         /\ Entered(w)' => s2c'[c] # <<>> /\ \A k \in DOMAIN s2c'[c] : s2c'[c][k] # Error
<1> USE DEF Entered, InSession, SessionStages, Stages
<1>0. VarTypes /\ Streams
  BY DEF IInv, TypeOK, OrderInv
<1>1. CASE Pop(w) /\ pc'[w] = "hello"
  <2>1. fd'[w] = queue[1] /\ 1 \in DOMAIN queue /\ UNCHANGED <<sockOf, s2c>>
    BY <1>0, <1>1, LenProperties DEF Pop, VarTypes
  <2> QED
    BY <1>1, <2>1 DEF Hushed
<1>2. CASE fd'[w] = fd[w] /\ pc[w] # "pop"
  <2>1. fd[w] \in Fds /\ sockOf[fd[w]] = c
    BY <1>2, SocketKept DEF IInv, TypeOK, LocalsSet
  <2>2. s2c[c] \in Seq(Reply) /\ Welcome \in Reply /\ Error # Welcome
    BY <1>0, ReplyTypes DEF VarTypes, Error, Welcome
  <2>3. CASE SendWelcome(w)
    <3>1. pc[w] = "welcome" /\ pc'[w] = "auth" /\ s2c'[c] = Append(s2c[c], Welcome)
      BY <1>0, <2>1, <2>3 DEF SendWelcome, Send, At, Goto, VarTypes
    <3>2. s2c[c] = <<>>
      BY <2>1, <3>1 DEF Hushed
    <3> QED
      BY <3>1, <3>2
  <2>6. CASE Refuse(w)
    BY <1>0, <2>6 DEF Refuse, Goto, VarTypes
  <2>4. CASE ~ SendWelcome(w) /\ ~ Refuse(w) /\ ~ Entered(w)
    <3>1. s2c'[c] = s2c[c]
      <4>1. SUFFICES ASSUME NEW v \in Workers, NEW f \in Fds, NEW r \in Reply,
                            sockOf[f] = c, Sends(v, f, r)
                     PROVE  FALSE
        BY OneHeard
      <4>2. v = w /\ (pc[w] = "welcome" \/ Refuse(w))
        BY <1>0, <1>2, <2>1, <2>4, <4>1, OwnerSends
      <4> QED
        BY <2>4, <4>1, <4>2 DEF Sends
    <3>2. pc[w] \in {"hello", "welcome"} => s2c[c] = <<>>
      BY <2>1 DEF Hushed
    <3>3. pc[w] \in {"auth", "check", "register", "refuse"} => s2c[c] = <<Welcome>>
      BY <2>1 DEF Hushed
    <3>4. /\ pc'[w] \in {"hello", "welcome"} => pc[w] \in {"hello", "welcome"}
          /\ pc'[w] \in {"auth", "check", "register", "refuse"} =>
               pc[w] \in {"auth", "check", "register", "refuse"}
          /\ Entered(w)' => pc[w] \in {"auth", "check", "register", "refuse"}
      BY <1>2, <2>4, StageCases DEF Pop, At
    <3>5. s2c[c] = <<Welcome>> => s2c[c] # <<>> /\ \A k \in DOMAIN s2c[c] : s2c[c][k] # Error
      BY <2>2
    <3> QED
      BY <3>1, <3>2, <3>3, <3>4, <3>5
  <2>5. CASE ~ SendWelcome(w) /\ Entered(w)
    <3>1. s2c[c] # <<>> /\ \A k \in DOMAIN s2c[c] : s2c[c][k] # Error
      BY <2>1, <2>5 DEF Hushed, Sent
    <3>2. ASSUME NEW v \in Workers, NEW f \in Fds, NEW r \in Reply, sockOf[f] = c, Sends(v, f, r)
          PROVE  r # Error
      <4>1. ASSUME pc[v] = "refuse", f = fd[v]
            PROVE  FALSE
        BY <1>0, <1>2, <2>1, <2>5, <3>2, <4>1, OneWorker
      <4> QED
        BY <2>2, <3>2, <4>1, HushCases
    <3>3. s2c'[c] # <<>> /\ \A k \in DOMAIN s2c'[c] : s2c'[c][k] # Error
      <4>1. CASE s2c'[c] = s2c[c]
        BY <3>1, <4>1
      <4>2. ASSUME NEW v \in Workers, NEW f \in Fds, NEW r \in Reply,
                   sockOf[f] = c, Sends(v, f, r), s2c'[c] = Append(s2c[c], r)
            PROVE  s2c'[c] # <<>> /\ \A k \in DOMAIN s2c'[c] : s2c'[c][k] # Error
        BY <2>2, <3>1, <3>2, <4>2, StillNoError
      <4> QED
        BY <4>1, <4>2, OneHeard
    <3>4. Entered(w)' \/ pc'[w] = "close"
      BY <1>2, <2>5, StageCases DEF Pop, At
    <3> QED
      BY <3>3, <3>4
  <2> QED
    BY <2>3, <2>4, <2>5, <2>6
<1> QED
  BY <1>1, <1>2, StageCases

\* What waits in the queue was accepted just now, or waited before on the same socket.
LEMMA QueueCases ==
  ASSUME IInv, Next, NEW i \in DOMAIN queue'
  PROVE  \/ \E c \in Conns : Accept(c, queue'[i])
         \/ \E j \in DOMAIN queue : queue'[i] = queue[j] /\ sockOf'[queue[j]] = sockOf[queue[j]]
<1>0. VarTypes /\ DescriptorsOwned /\ queue \in Seq(Fds)
  BY DEF IInv, TypeOK, VarTypes
<1>1. \A j \in DOMAIN queue : queue[j] \in Fds /\ sockOf[queue[j]] # None
  <2>1. \A j \in DOMAIN queue : queue[j] \in Fds
    BY <1>0, ElementOfSeq, LenProperties
  <2> QED
    BY <1>0, <2>1 DEF DescriptorsOwned
<1>2. ASSUME NEW c \in Conns, NEW f \in Fds, Accept(c, f)
      PROVE  \/ queue'[i] = f
             \/ \E j \in DOMAIN queue : queue'[i] = queue[j] /\ sockOf'[queue[j]] = sockOf[queue[j]]
  <2>1. queue' = Append(queue, f)
    BY <1>2 DEF Accept
  <2>2. CASE i \in DOMAIN queue
    <3>1. queue'[i] = queue[i]
      BY <1>0, <2>1, <2>2, AppendElements
    <3>2. sockOf'[queue[i]] = sockOf[queue[i]]
      BY <1>0, <1>1, <1>2, <2>2 DEF Accept, VarTypes
    <3> QED
      BY <2>2, <3>1, <3>2
  <2>3. CASE i \notin DOMAIN queue
    BY <1>0, <2>1, <2>3, AppendElements
  <2> QED
    BY <2>2, <2>3
<1>3. ASSUME NEW w \in Workers, WorkerStep(w)
      PROVE  \E j \in DOMAIN queue : queue'[i] = queue[j] /\ sockOf'[queue[j]] = sockOf[queue[j]]
  <2>1. ~ Sigpipe(w)
    BY DEF Sigpipe
  <2>2. CASE Pop(w)
    <3>1. queue # <<>> /\ queue' = Tail(queue) /\ sockOf' = sockOf
      BY <2>2 DEF Pop, Popped
    <3> QED
      BY <1>0, <3>1, TailElements
  <2>3. CASE ~ Pop(w)
    <3>1. queue' = queue /\ (sockOf' = sockOf \/ sockOf' = [sockOf EXCEPT ![fd[w]] = None])
      BY <1>3, <2>1, <2>3, LockTaken
         DEF WorkerStep, RecvHello, SendWelcome, RecvAuth, CheckNick, Register, Refuse,
             SendInfo, DeliverOffline, RecvRequest, Broadcast, Lookup, FindTarget, SendPrivate,
             StoreOffline, SaveHistory, ListUsers, CollectHistory, SendAnswer, RemoveClient,
             CloseClient, CloseSocket, sharedVars
    <3>2. i \in DOMAIN queue /\ queue[i] # fd[w]
      BY <1>0, <3>1 DEF DescriptorsOwned
    <3> QED
      BY <1>0, <1>1, <3>1, <3>2 DEF VarTypes
  <2> QED
    BY <2>2, <2>3
<1>4. CASE \E c \in Conns : ClientStep(c)
  <2>1. queue' = queue /\ sockOf' = sockOf
    BY <1>4 DEF ClientStep, ClientAuth, ClientRequest, ClientQuit, ClientClose, ClientRead,
                ClientSame, sharedVars
  <2> QED
    BY <2>1
<1>5. CASE Restart
  BY <1>5 DEF Restart, sharedVars
<1> QED
  BY <1>2, <1>3, <1>4, <1>5 DEF Next

\* A connection hears nothing before its worker is there, and then what it says.
LEMMA HushedStep ==
  ASSUME IInv, OrderInv, Answering, Unwhispered, Hushed, Next
  PROVE  Hushed'
<1>0. VarTypes /\ Streams /\ DescriptorsOwned
  BY DEF IInv, TypeOK, OrderInv
<1>1. ASSUME NEW c \in Conns, peer'[c] = "none"
      PROVE  s2c'[c] = <<>>
  <2>1. peer[c] = "none"
    BY <1>0, <1>1, SocketCases, AcceptOpens
  <2>2. ~ \E w \in Workers, f \in Fds, r \in Reply : sockOf[f] = c /\ Sends(w, f, r)
    <3>1. \A f \in Fds : sockOf[f] = c => peer[c] # "none"
      BY <1>0 DEF Streams
    <3> QED
      BY <2>1, <3>1
  <2> QED
    BY <2>1, <2>2, OneHeard DEF Hushed
<1>2. ASSUME NEW i \in DOMAIN queue'
      PROVE  s2c'[sockOf'[queue'[i]]] = <<>>
  <2>1. ASSUME NEW c \in Conns, Accept(c, queue'[i])
        PROVE  s2c'[sockOf'[queue'[i]]] = <<>>
    <3>1. queue'[i] \in Fds
      <4>1. queue' \in Seq(Fds)
        BY StepIInv DEF IInv, TypeOK, VarTypes
      <4> QED
        BY <4>1, ElementOfSeq, LenProperties
    <3>2. s2c' = s2c /\ sockOf'[queue'[i]] = c /\ peer[c] = "none"
      BY <1>0, <2>1, <3>1 DEF Accept, VarTypes
    <3> QED
      BY <3>2 DEF Hushed
  <2>2. ASSUME NEW j \in DOMAIN queue, queue'[i] = queue[j], sockOf'[queue[j]] = sockOf[queue[j]]
        PROVE  s2c'[sockOf'[queue'[i]]] = <<>>
    <3>1. queue[j] \in Fds
      BY <1>0, ElementOfSeq, LenProperties DEF VarTypes
    <3>2. PICK c \in Conns : c = sockOf[queue[j]]
      BY <1>0, <3>1 DEF VarTypes, DescriptorsOwned
    <3>3. ASSUME NEW w \in Workers, NEW f \in Fds, NEW r \in Reply, sockOf[f] = c, Sends(w, f, r)
          PROVE  FALSE
      <4>1. f = queue[j]
        BY <1>0, <3>1, <3>2, <3>3 DEF Streams
      <4>2. \E v \in Workers : fd[v] = f
        BY <3>3, HushCases
      <4> QED
        BY <1>0, <4>1, <4>2 DEF DescriptorsOwned
    <3>4. s2c[c] = <<>>
      BY <3>2 DEF Hushed
    <3> QED
      BY <2>2, <3>2, <3>3, <3>4, OneHeard
  <2> QED
    BY <2>1, <2>2, QueueCases
<1>3. ASSUME NEW w \in Workers, pc'[w] # "pop"
      PROVE  /\ pc'[w] \in {"hello", "welcome"} => s2c'[sockOf'[fd'[w]]] = <<>>
             /\ pc'[w] \in {"auth", "check", "register", "refuse"} =>
                  s2c'[sockOf'[fd'[w]]] = <<Welcome>>
             /\ Entered(w)' => /\ s2c'[sockOf'[fd'[w]]] # <<>>
                               /\ \A k \in DOMAIN s2c'[sockOf'[fd'[w]]] :
                                    s2c'[sockOf'[fd'[w]]][k] # Error
  <2>1. IInv'
    BY StepIInv
  <2>2. fd'[w] \in Fds /\ sockOf'[fd'[w]] # None /\ sockOf'[fd'[w]] \in Conns \cup {None}
    <3>1. fd'[w] \in Fds
      BY <1>3, <2>1 DEF IInv, TypeOK, VarTypes, LocalsSet
    <3>2. sockOf'[fd'[w]] # None
      BY <2>1, <3>1 DEF IInv, DescriptorsOwned
    <3>3. sockOf' \in [Fds -> Conns \cup {None}]
      BY <2>1 DEF IInv, TypeOK, VarTypes
    <3> QED
      BY <3>1, <3>2, <3>3
  <2>3. PICK c \in Conns : c = sockOf'[fd'[w]]
    BY <2>2
  <2> QED
    BY <1>3, <2>3, HushedWorkers
<1>4. \A w \in Workers : Entered(w)' => pc'[w] # "pop"
  BY DEF Entered, InSession, SessionStages, Stages
<1> QED
  BY <1>1, <1>2, <1>3, <1>4 DEF Hushed, Sent

\* What is sent in this step is a WELCOME to a connection that has heard nothing, an ERROR
\* after it, or something else to one that was entered.
LEMMA RefusedSeesNothingStep ==
  ASSUME IInv, OrderInv, Answering, Unwhispered, Hushed, RefusedSeesNothing, Next
  PROVE  RefusedSeesNothing'
<1>0. VarTypes /\ Error \in Reply /\ Welcome \in Reply /\ Error # Welcome
  BY ReplyTypes DEF IInv, TypeOK, Error, Welcome
<1> SUFFICES ASSUME NEW c \in Conns
             PROVE  /\ s2c'[c] # <<>> => s2c'[c][1] = Welcome
                    /\ (\E k \in DOMAIN s2c'[c] : s2c'[c][k] = Error) => s2c'[c] = <<Welcome, Error>>
  BY DEF RefusedSeesNothing, Sent
<1>1. CASE s2c'[c] = s2c[c]
  BY <1>1 DEF RefusedSeesNothing, Sent
<1>2. ASSUME NEW w \in Workers, NEW f \in Fds, NEW r \in Reply,
             sockOf[f] = c, Sends(w, f, r), s2c'[c] = Append(s2c[c], r)
      PROVE  /\ s2c'[c] # <<>> => s2c'[c][1] = Welcome
             /\ (\E k \in DOMAIN s2c'[c] : s2c'[c][k] = Error) => s2c'[c] = <<Welcome, Error>>
  <2>1. CASE pc[w] = "welcome" /\ f = fd[w] /\ r = Welcome
    <3>1. s2c'[c] = <<Welcome>>
      <4>1. s2c[sockOf[fd[w]]] = <<>>
        BY <2>1 DEF Hushed
      <4>2. sockOf[fd[w]] = c /\ s2c'[c] = Append(s2c[c], Welcome)
        BY <1>2, <2>1
      <4>3. s2c'[c] = Append(<<>>, Welcome)
        BY <4>1, <4>2
      <4> QED
        BY <4>3
    <3> QED
      BY <1>0, <3>1
  <2>2. CASE pc[w] = "refuse" /\ f = fd[w] /\ r = Error
    <3>1. s2c'[c] = <<Welcome, Error>>
      <4>1. s2c[sockOf[fd[w]]] = <<Welcome>>
        BY <2>2 DEF Hushed
      <4>2. sockOf[fd[w]] = c /\ s2c'[c] = Append(s2c[c], Error)
        BY <1>2, <2>2
      <4>3. s2c'[c] = Append(<<Welcome>>, Error)
        BY <4>1, <4>2
      <4> QED
        BY <1>0, <4>3, AppendToOne
    <3> QED
      BY <3>1
  <2>3. ASSUME r # Error, NEW v \in Workers, Entered(v), fd[v] = f
        PROVE  /\ s2c'[c][1] = Welcome
               /\ \A k \in DOMAIN s2c'[c] : s2c'[c][k] # Error
    <3>1. s2c[c] # <<>> /\ \A k \in DOMAIN s2c[c] : s2c[c][k] # Error
      BY <1>2, <2>3 DEF Hushed, Sent
    <3>2. s2c[c][1] = Welcome /\ s2c[c] \in Seq(Reply)
      BY <1>0, <3>1 DEF RefusedSeesNothing, VarTypes
    <3> QED
      BY <1>2, <2>3, <3>1, <3>2, StillNoError
  <2> QED
    BY <1>2, <2>1, <2>2, <2>3, HushCases
<1> QED
  BY <1>1, <1>2, OneHeard

\* Nothing was asked or heard.
LEMMA InitQuiet == Init => QuietInv
<1> SUFFICES ASSUME Init PROVE QuietInv
  OBVIOUS
<1>1. Unwhispered
  BY DEF Init, Unwhispered, PendingStages, Range
<1>2. Hushed
  BY DEF Init, Hushed, Entered, InSession, SessionStages, Stages
<1>3. RefusedSeesNothing
  BY DEF Init, RefusedSeesNothing, Sent
<1> QED
  BY <1>1, <1>2, <1>3 DEF QuietInv

\* A step keeps the silence.
LEMMA StepQuiet ==
  NoWhispers /\ IInv /\ OrderInv /\ DeliveryInv /\ QuietInv /\ [Next]_vars => QuietInv'
<1> SUFFICES ASSUME NoWhispers, IInv, OrderInv, DeliveryInv, QuietInv, [Next]_vars
             PROVE  QuietInv'
  OBVIOUS
<1>1. CASE Next
  BY <1>1, UnwhisperedStep, HushedStep, RefusedSeesNothingStep DEF QuietInv, DeliveryInv
<1>2. CASE UNCHANGED vars
  <2> USE DEF vars, workerVars, sharedVars, clientVars
  <2>1. Unwhispered'
    BY <1>2 DEF QuietInv, Unwhispered, Range
  <2>2. Hushed'
    BY <1>2 DEF QuietInv, Hushed, Entered, InSession, Sent
  <2>3. RefusedSeesNothing'
    BY <1>2 DEF QuietInv, RefusedSeesNothing, Sent
  <2> QED
    BY <2>1, <2>2, <2>3 DEF QuietInv
<1> QED
  BY <1>1, <1>2

\* When nobody whispers, every connection hears WELCOME first, and one whose nickname is
\* refused hears the refusal and nothing of the chat, however the descriptors are reused.
THEOREM RefusedHearNothing == NoWhispers => (Spec => []RefusedSeesNothing)
<1> SUFFICES ASSUME NoWhispers PROVE Spec => []RefusedSeesNothing
  OBVIOUS
<1>1. Init => QuietInv
  BY InitQuiet
<1>2. IInv /\ OrderInv /\ DeliveryInv /\ QuietInv /\ [Next]_vars => QuietInv'
  BY StepQuiet
<1>3. QuietInv => RefusedSeesNothing
  BY DEF QuietInv
<1> QED
  BY <1>1, <1>2, <1>3, Invariance, OrderInvariance, DeliveryInvariance, PTL DEF Spec

-----------------------------------------------------------------------------
(* One order for everybody.  What the clients heard differs only by the broadcast that *)
(* is going on.                                                                        *)

\* What was heard was taken from its author's stream.
Heeded == \A c \in Conns : \A k \in Heard(c) : Read(s2c[c][k].msg)

\* Only who is or was in the chat has heard something of it.
Unheard ==
  \A c \in Conns : Heard(c) # {} =>
    /\ peer[c] # "none"
    /\ \A f \in Fds : sockOf[f] = c =>
         \E w \in Workers : fd[w] = f /\ (Entered(w) \/ pc[w] = "close")

\* What is being broadcast is the last that anybody heard, and only those behind whose
\* entry the broadcast is have heard it.
Airs ==
  \A w \in Workers, c \in Conns : \A k \in Heard(c) :
    pc[w] = "broadcast" /\ s2c[c][k].msg = msg[w] =>
      /\ \A n \in Heard(c) : n <= k
      /\ \E i \in DOMAIN clients : i < idx[w] /\ sockOf[clients[i].sock] = c

OnAir(m) == \E w \in Workers : pc[w] = "broadcast" /\ msg[w] = m
Members == {sockOf[clients[i].sock] : i \in DOMAIN clients}

\* Of two members of the chat with a message in common, each has heard what the other
\* heard after it, but for what is still being broadcast.
Sync ==
  \A c, d \in Members : \A i, n \in Heard(c), j \in Heard(d) :
    i < n /\ s2c[c][i].msg = s2c[d][j].msg /\ ~ OnAir(s2c[c][n].msg) =>
      \E p \in Heard(d) : j < p /\ s2c[d][p].msg = s2c[c][n].msg

AgreeInv == Heeded /\ Unheard /\ Airs /\ Sync /\ BroadcastAgreement

\* Worker u sends its chat message to connection e.
Airing(u, e) ==
  /\ ~ (\E v \in Workers : Sigpipe(v)) /\ Broadcast(u) /\ pc[u] = "broadcast"
  /\ msg[u] \in Msg /\ idx[u] \in DOMAIN clients /\ sockOf[clients[idx[u]].sock] = e
  /\ clientsLock = u /\ idx'[u] = idx[u] + 1
  /\ UNCHANGED <<pc, msg, fd, clients, sockOf>>

\* What was heard is a chat message, and stays heard.
LEMMA HeardKept ==
  ASSUME IInv, Next, NEW c \in Conns
  PROVE  /\ Heard(c) \subseteq Nat /\ Heard(c)' \subseteq Nat /\ Heard(c) \subseteq Heard(c)'
         /\ \A k \in Heard(c) : s2c[c][k].msg \in Msg /\ s2c'[c][k].msg = s2c[c][k].msg
<1>1. /\ Heard(c) \subseteq Nat /\ Heard(c)' \subseteq Nat /\ Heard(c) \subseteq Heard(c)'
      /\ \A k \in Heard(c) : s2c'[c][k].msg = s2c[c][k].msg
  BY SentCases DEF Heard
<1>2. ASSUME NEW k \in Heard(c)
      PROVE  s2c[c][k].msg \in Msg
  <2>1. k \in DOMAIN s2c[c] /\ s2c[c][k].type = "TEXT"
    BY DEF Heard
  <2>2. s2c[c][k] \in Range(s2c[c])
    BY <2>1 DEF Range
  <2>3. s2c[c][k] \in Reply
    BY <2>2, SentTypes
  <2> QED
    BY <2>1, <2>3 DEF Reply
<1> QED
  BY <1>1, <1>2

\* What is new comes last, and is sent to one connection.
LEMMA HeardCases ==
  ASSUME IInv, Answering, Next
  PROVE  \/ \A c \in Conns : Heard(c)' = Heard(c)
         \/ \E u \in Workers, e \in Conns, t \in Nat :
              /\ Airing(u, e)
              /\ Heard(e)' = Heard(e) \cup {t} /\ s2c'[e][t].msg = msg[u]
              /\ \A k \in Heard(e) : k < t
              /\ \A c \in Conns : c # e => Heard(c)' = Heard(c)
<1>0. VarTypes /\ LocalsSet
  BY DEF IInv, TypeOK
<1> SUFFICES ASSUME NEW e \in Conns, Heard(e)' # Heard(e)
             PROVE  \E u \in Workers, t \in Nat :
                      /\ Airing(u, e)
                      /\ Heard(e)' = Heard(e) \cup {t} /\ s2c'[e][t].msg = msg[u]
                      /\ \A k \in Heard(e) : k < t
                      /\ \A c \in Conns : c # e => Heard(c)' = Heard(c)
  OBVIOUS
<1>t. PICK t \in Heard(e)' : t \notin Heard(e)
  <2>1. Heard(e) \subseteq Heard(e)'
    BY HeardKept
  <2> QED
    BY <2>1
<1>1. t \in DOMAIN s2c'[e] \ DOMAIN s2c[e] /\ s2c'[e][t].type = "TEXT"
  BY <1>t, SentCases DEF Heard
<1>2. PICK u \in Workers, f \in Fds : sockOf[f] = e /\ Sends(u, f, s2c'[e][t])
  BY <1>1, SentCases
<1>3. Broadcast(u) /\ pc[u] = "broadcast" /\ s2c'[e][t] = Text(msg[u])
  <2>1. s2c'[e][t] \in Reply
    BY <1>2 DEF Sends
  <2> QED
    BY <1>1, <1>2, <2>1, TextSends
<1>4. idx[u] \in DOMAIN clients /\ f = clients[idx[u]].sock
  BY <1>2, <1>3 DEF Sends
<1>5. Airing(u, e)
  <2>1. ~ \E v \in Workers : Sigpipe(v)
    BY <1>1 DEF Sigpipe
  <2>2. idx[u] <= Len(clients)
    BY <1>0, <1>4, LenProperties DEF VarTypes
  <2>3. /\ clientsLock = u /\ idx'[u] = idx[u] + 1
        /\ UNCHANGED <<pc, msg, fd, clients, sockOf>>
    BY <1>0, <1>3, <2>2 DEF Broadcast, Holds, VarTypes
  <2> QED
    BY <1>0, <1>2, <1>3, <1>4, <2>1, <2>3 DEF Airing, LocalsSet, RequestStages
<1>6. /\ t \in Nat /\ \A k \in Heard(e) : k < t
      /\ \A k \in Heard(e)' : k \in Heard(e) \/ k = t
  BY <1>1, SentCases DEF Heard
<1>7. ASSUME NEW c \in Conns, c # e
      PROVE  Heard(c)' = Heard(c)
  <2>1. \A k \in DOMAIN s2c'[c] : k \in DOMAIN s2c[c]
    BY <1>1, <1>7, OneIsNew
  <2>2. /\ DOMAIN s2c[c] \subseteq DOMAIN s2c'[c]
        /\ \A k \in DOMAIN s2c[c] : s2c'[c][k] = s2c[c][k]
    BY SentCases
  <2> QED
    BY <2>1, <2>2 DEF Heard
<1>8. s2c'[e][t].msg = msg[u] /\ Heard(e)' = Heard(e) \cup {t}
  BY <1>3, <1>6, <1>t, HeardKept DEF Text
<1> QED
  BY <1>5, <1>6, <1>7, <1>8

\* What is sent is new to its receiver, and nothing else that somebody heard is on the air.
LEMMA AiringIsNew ==
  ASSUME IInv, Streams, Locks, Airs, NEW u \in Workers, NEW e \in Conns, Airing(u, e)
  PROVE  /\ \A k \in Heard(e) : s2c[e][k].msg # msg[u]
         /\ \A c \in Conns : \A n \in Heard(c) :
              OnAir(s2c[c][n].msg) => s2c[c][n].msg = msg[u]
<1>0. VarTypes /\ RegistryOwned
  BY DEF IInv, TypeOK
<1>1. ASSUME NEW k \in Heard(e), s2c[e][k].msg = msg[u]
      PROVE  FALSE
  <2>1. PICK i \in DOMAIN clients : i < idx[u] /\ sockOf[clients[i].sock] = e
    BY <1>1 DEF Airs, Airing
  <2>2. idx[u] \in DOMAIN clients /\ sockOf[clients[idx[u]].sock] = e
    BY DEF Airing
  <2>3. clients[i].sock = clients[idx[u]].sock
    <3>1. \A j \in DOMAIN clients : clients[j].sock \in Fds
      BY <1>0, ElementOfSeq, LenProperties, ClientFields DEF VarTypes
    <3>2. e # None
      BY ConstantsAssumption
    <3> QED
      BY <2>1, <2>2, <3>1, <3>2 DEF Streams
  <2>4. i = idx[u]
    BY <1>0, <2>1, <2>2, <2>3 DEF RegistryOwned
  <2>5. idx[u] \in Nat
    BY <1>0 DEF VarTypes
  <2> QED
    BY <2>1, <2>4, <2>5
<1>2. ASSUME NEW c \in Conns, NEW n \in Heard(c), NEW v \in Workers, pc[v] = "broadcast",
             msg[v] = s2c[c][n].msg
      PROVE  v = u
  <2>1. PICK i \in DOMAIN clients : i < idx[v]
    BY <1>2 DEF Airs
  <2>2. i \in Nat \ {0} /\ idx[v] \in Nat
    <3>1. clients \in Seq(Client) /\ idx[v] \in Nat
      BY <1>0 DEF VarTypes
    <3> QED
      BY <3>1, LenProperties
  <2>3. idx[v] # 1
    BY <2>1, <2>2
  <2>4. clientsLock = v
    BY <1>2, <2>3 DEF Locks
  <2> QED
    BY <2>4, ConstantsAssumption DEF Airing
<1> QED
  BY <1>1, <1>2 DEF OnAir

\* A worker in the middle of a broadcast goes on with it.
LEMMA BroadcastGoesOn ==
  ASSUME IInv, Next, NEW w \in Workers, pc[w] = "broadcast", pc'[w] = "broadcast"
  PROVE  msg'[w] = msg[w] /\ idx'[w] \in {idx[w], idx[w] + 1}
<1> USE DEF At, Goto
<1>0. VarTypes
  BY DEF IInv, TypeOK
<1>1. ~ \E v \in Workers : Sigpipe(v)
  BY DEF Sigpipe
<1>2. CASE WorkerStep(w)
  <2>1. LockClients(w) \/ Broadcast(w)
    BY <1>1, <1>2
       DEF WorkerStep, Pop, RecvHello, SendWelcome, RecvAuth, CheckNick, Register, Refuse,
           SendInfo, LockOffline, DeliverOffline, RecvRequest, Lookup, FindTarget, SendPrivate,
           StoreOffline, SaveHistory, ListUsers, CollectHistory, SendAnswer, RemoveClient,
           CloseClient
  <2>2. CASE Broadcast(w)
    BY <1>0, <2>2 DEF Broadcast, VarTypes
  <2>3. CASE LockClients(w)
    BY <2>3, LockTaken
  <2> QED
    BY <2>1, <2>2, <2>3
<1>3. CASE ~ WorkerStep(w)
  BY <1>0, <1>1, <1>3, OthersStay, OutsideStep DEF workerVars
<1> QED
  BY <1>2, <1>3

\* A worker that leaves its client has closed the socket.
LEMMA LeavesClosed ==
  ASSUME IInv, Next, NEW w \in Workers, pc[w] # "pop", pc'[w] = "pop"
  PROVE  sockOf'[fd[w]] = None
<1> USE DEF At, Goto
<1>0. VarTypes /\ fd[w] \in Fds
  BY HasSocket DEF IInv, TypeOK
<1>1. CASE \E v \in Workers : Sigpipe(v)
  BY <1>0, <1>1 DEF Sigpipe
<1>2. CASE ~ (\E v \in Workers : Sigpipe(v)) /\ WorkerStep(w)
  <2>1. CASE RecvHello(w) \/ CloseClient(w)
    BY <1>0, <2>1 DEF RecvHello, CloseClient, CloseSocket, NextClient, VarTypes
  <2>2. ~ (\/ Pop(w) \/ SendWelcome(w) \/ CheckNick(w) \/ Register(w) \/ Refuse(w)
          \/ SendInfo(w) \/ LockClients(w) \/ LockOffline(w))
    BY <1>0, LockTaken DEF Pop, SendWelcome, CheckNick, Register, Refuse, SendInfo, AfterStage,
                           VarTypes
  <2>3. ~ (RecvAuth(w) \/ DeliverOffline(w) \/ Broadcast(w))
    BY <1>0, DeliverMoves DEF RecvAuth, FirstVerdict, Broadcast, VarTypes
  <2>4. ~ RecvRequest(w)
    <3>1. SUFFICES ASSUME RecvRequest(w) PROVE pc'[w] # "pop"
      OBVIOUS
    <3>2. CASE pc'[w] # "remove"
      <4>1. PICK m \in Msg : m = Incoming(w) /\ pc'[w] = Handler[m.type]
        BY <1>0, <3>1, <3>2, ReceiveTypes DEF RecvRequest, IInv, VarTypes
      <4>2. m.type \in RequestTypes \cup {"HELLO", "AUTH", "BYE"}
        BY DEF Msg
      <4> QED
        BY <4>1, <4>2 DEF Handler, RequestTypes
    <3> QED
      BY <3>2
  <2>5. ~ (Lookup(w) \/ FindTarget(w) \/ SendPrivate(w) \/ StoreOffline(w))
    BY <1>0 DEF Lookup, FindTarget, SendPrivate, StoreOffline, VarTypes
  <2>6. ~ (SaveHistory(w) \/ ListUsers(w) \/ CollectHistory(w) \/ SendAnswer(w) \/ RemoveClient(w))
    BY <1>0 DEF SaveHistory, ListUsers, CollectHistory, SendAnswer, RemoveClient, VarTypes
  <2> QED
    BY <1>2, <2>1, <2>2, <2>3, <2>4, <2>5, <2>6 DEF WorkerStep
<1>3. CASE ~ (\E v \in Workers : Sigpipe(v)) /\ ~ WorkerStep(w)
  BY <1>0, <1>3, OthersStay, OutsideStep DEF workerVars
<1> QED
  BY <1>1, <1>2, <1>3

\* What is broadcast was taken from its stream before.
LEMMA HeededStep ==
  ASSUME IInv, OrderInv, Answering, Heeded, Next
  PROVE  Heeded'
<1>0. Streams /\ Handling
  BY DEF OrderInv
<1> SUFFICES ASSUME NEW c \in Conns, NEW k \in Heard(c)'
             PROVE  Read(s2c[c][k].msg)'
  BY DEF Heeded
<1>1. PICK m \in Msg : m = s2c'[c][k].msg /\ Read(m)
  <2>1. CASE k \in Heard(c)
    BY <2>1, HeardKept DEF Heeded
  <2>2. CASE k \notin Heard(c)
    <3>1. PICK u \in Workers : Airing(u, c) /\ s2c'[c][k].msg = msg[u]
      BY <2>2, HeardCases
    <3> QED
      BY <1>0, <3>1 DEF Handling, Airing, RequestStages
  <2> QED
    BY <2>1, <2>2
<1>2. Read(m)'
  BY <1>0, <1>1, ReadKept
<1> QED
  BY <1>1, <1>2 DEF Read

\* Who has heard something is served by a worker that entered it, to the end.
LEMMA UnheardStep ==
  ASSUME IInv, OrderInv, Answering, Unheard, Next
  PROVE  Unheard'
<1> USE DEF Entered, InSession, SessionStages, Stages
<1>0. VarTypes /\ Streams /\ RegistryOwned
  BY DEF IInv, TypeOK, OrderInv
<1> SUFFICES ASSUME NEW c \in Conns, Heard(c)' # {}
             PROVE  /\ peer'[c] # "none"
                    /\ \A f \in Fds : sockOf'[f] = c =>
                         \E w \in Workers : fd'[w] = f /\ (Entered(w)' \/ pc'[w] = "close")
  BY DEF Unheard
<1>1. /\ peer[c] # "none"
      /\ \A f \in Fds : sockOf[f] = c =>
           \E w \in Workers : fd[w] = f /\ (Entered(w) \/ pc[w] = "close")
  <2>1. CASE Heard(c) # {}
    BY <2>1 DEF Unheard
  <2>2. CASE Heard(c) = {}
    <3>1. PICK u \in Workers : Airing(u, c)
      BY <2>2, HeardCases
    <3> DEFINE g == clients[idx[u]].sock
    <3>2. g \in Fds /\ sockOf[g] = c /\ \E w \in Workers : fd[w] = g /\ Entered(w)
      BY <1>0, <3>1, EntrySocket DEF Airing, RegistryOwned
    <3>3. c # None
      BY ConstantsAssumption
    <3> HIDE DEF g
    <3> QED
      BY <1>0, <3>2, <3>3 DEF Streams
  <2> QED
    BY <2>1, <2>2
<1>2. peer'[c] # "none" /\ \A f \in Fds : sockOf'[f] = c => sockOf[f] = c
  <2>1. ASSUME NEW d \in Conns, NEW f \in Fds, Accept(d, f)
        PROVE  peer'[c] # "none" /\ \A g \in Fds : sockOf'[g] = c => sockOf[g] = c
    BY <1>0, <1>1, <2>1, AcceptOpens
  <2>2. CASE /\ \A f \in Fds : sockOf'[f] \in {sockOf[f], None}
             /\ \A d \in Conns : peer'[d] = "none" <=> peer[d] = "none"
    BY <1>1, <2>2, ConstantsAssumption
  <2> QED
    BY <2>1, <2>2, SocketCases
<1>3. ASSUME NEW f \in Fds, sockOf'[f] = c
      PROVE  \E w \in Workers : fd'[w] = f /\ (Entered(w)' \/ pc'[w] = "close")
  <2>1. PICK w \in Workers : fd[w] = f /\ (Entered(w) \/ pc[w] = "close")
    BY <1>1, <1>2, <1>3
  <2>2. pc[w] # "pop"
    BY <2>1
  <2>3. c # None
    BY ConstantsAssumption
  <2>4. pc'[w] # "pop"
    BY <1>3, <2>1, <2>2, <2>3, LeavesClosed
  <2> QED
    BY <2>1, <2>2, <2>4, StageCases DEF Pop, At
<1> QED
  BY <1>2, <1>3

\* A broadcast reaches its receivers in the order of the registry, under its mutex.
LEMMA AirsStep ==
  ASSUME IInv, OrderInv, Locks, Answering, Heeded, Airs, Next
  PROVE  Airs'
<1>0. VarTypes /\ LocalsSet /\ Streams /\ Handling
  BY DEF IInv, TypeOK, OrderInv
<1> SUFFICES ASSUME NEW w \in Workers, NEW c \in Conns, NEW k \in Heard(c)',
                    pc'[w] = "broadcast", s2c'[c][k].msg = msg'[w]
             PROVE  /\ \A n \in Heard(c)' : n <= k
                    /\ \E i \in DOMAIN clients' : i < idx'[w] /\ sockOf'[clients'[i].sock] = c
  BY DEF Airs
<1>1. ASSUME NEW u \in Workers, Airing(u, c), msg'[w] = msg[u]
      PROVE  w = u
  <2>1. pc[w] = "broadcast" /\ msg[w] = msg[u] /\ pc[u] = "broadcast"
    BY <1>1 DEF Airing
  <2>2. sockOf[fd[w]] = sockOf[fd[u]]
    BY <1>0, <2>1 DEF Handling, RequestStages
  <2> QED
    BY <1>0, <2>1, <2>2, OneWorker
<1>2. CASE k \notin Heard(c)
  <2>1. PICK u \in Workers :
          /\ Airing(u, c) /\ s2c'[c][k].msg = msg[u]
          /\ \A n \in Heard(c)' : n <= k
    <3>1. PICK u \in Workers, e \in Conns, t \in Nat :
              /\ Airing(u, e)
              /\ Heard(e)' = Heard(e) \cup {t} /\ s2c'[e][t].msg = msg[u]
              /\ \A n \in Heard(e) : n < t
              /\ \A d \in Conns : d # e => Heard(d)' = Heard(d)
      BY <1>2, HeardCases
    <3>2. e = c /\ k = t
      BY <1>2, <3>1
    <3>3. Heard(c) \subseteq Nat
      BY HeardKept
    <3> QED
      BY <3>1, <3>2, <3>3
  <2>2. w = u
    BY <1>1, <2>1
  <2>3. /\ idx[w] \in DOMAIN clients /\ sockOf[clients[idx[w]].sock] = c /\ idx'[w] = idx[w] + 1
        /\ UNCHANGED <<clients, sockOf>>
    BY <2>1, <2>2 DEF Airing
  <2>4. idx[w] \in Nat
    BY <1>0 DEF VarTypes
  <2> QED
    BY <2>1, <2>3, <2>4
<1>3. CASE k \in Heard(c)
  <2>1. s2c'[c][k].msg = s2c[c][k].msg
    BY <1>3, HeardKept
  <2>2. ~ HandlingBegins(w)
    <3>1. SUFFICES ASSUME HandlingBegins(w) PROVE FALSE
      OBVIOUS
    <3>2. PICK d \in Conns : /\ 1 \in DOMAIN c2s[d] /\ msg'[w] = c2s[d][1] /\ msg'[w] \in Msg
                             /\ msg'[w].src = d
      BY <1>0, <3>1, BeginsWith
    <3>3. Read(msg'[w])
      BY <1>3, <2>1 DEF Heeded
    <3>4. msg'[w].id \in Nat /\ msg'[w].id < msg'[w].id
      BY <3>2, <3>3 DEF Read, Msg
    <3> QED
      BY <3>4
  <2>3. pc[w] = "broadcast" /\ msg'[w] = msg[w]
    <3>1. HandlingGoesOn(w)
      BY <2>2, HandlingCases DEF RequestStages
    <3> QED
      BY <3>1 DEF HandlingGoesOn, PendingStages
  <2>3a. s2c[c][k].msg = msg[w]
    BY <2>1, <2>3
  <2>3b. \A n \in Heard(c) : n <= k
    BY <1>3, <2>3, <2>3a DEF Airs
  <2>4. PICK i \in DOMAIN clients : i < idx[w] /\ sockOf[clients[i].sock] = c
    BY <1>3, <2>3, <2>3a DEF Airs
  <2>5. i \in Nat \ {0} /\ idx[w] \in Nat
    <3>1. clients \in Seq(Client) /\ idx[w] \in Nat
      BY <1>0 DEF VarTypes
    <3> QED
      BY <3>1, LenProperties
  <2>6. clientsLock = w
    <3>1. idx[w] # 1
      BY <2>4, <2>5
    <3> QED
      BY <2>3, <3>1 DEF Locks
  <2>7. UNCHANGED clients
    BY <2>6, RegistryCases, ConstantsAssumption DEF Sigpipe
  <2>8. sockOf'[clients[i].sock] = c
    BY <2>4, <2>7, EntrySocket
  <2>9. i < idx'[w]
    <3>1. idx'[w] \in {idx[w], idx[w] + 1}
      BY <2>3, BroadcastGoesOn
    <3> QED
      BY <2>4, <2>5, <3>1
  <2>10. ASSUME NEW n \in Heard(c)', n \notin Heard(c)
         PROVE  FALSE
    <3>1. PICK u \in Workers : Airing(u, c)
      BY <2>10, HeardCases
    <3>2. u = w
      BY <2>6, <3>1, ConstantsAssumption DEF Airing
    <3> QED
      BY <1>0, <1>3, <2>3a, <3>1, <3>2, AiringIsNew
  <2> QED
    BY <2>3b, <2>4, <2>7, <2>8, <2>9, <2>10
<1> QED
  BY <1>2, <1>3

\* A registration lets in a connection that has heard nothing; all other members were
\* members before.
LEMMA MemberCases ==
  ASSUME IInv, OrderInv, Unheard, Next, NEW c \in Members', Heard(c) # {}
  PROVE  c \in Members /\ c \in Conns /\ ~ \E w \in Workers : Sigpipe(w)
<1>0. VarTypes /\ TypeOK /\ Streams /\ RegistryOwned /\ DescriptorsOwned
  BY DEF IInv, TypeOK, OrderInv
<1>1. PICK i \in DOMAIN clients' : c = sockOf'[clients'[i].sock]
  BY DEF Members
<1>2. ~ \E w \in Workers : Sigpipe(w)
  <2>1. SUFFICES ASSUME NEW w \in Workers, Sigpipe(w) PROVE FALSE
    OBVIOUS
  <2>2. clients' = <<>>
    BY <2>1 DEF Sigpipe
  <2> QED
    BY <1>1, <2>2
<1>3. ASSUME NEW j \in DOMAIN clients, clients'[i].sock = clients[j].sock
      PROVE  c \in Members /\ c \in Conns
  <2>1. clients[j].sock \in Fds /\ sockOf[clients[j].sock] \in Conns
    BY EntrySocket
  <2>2. sockOf'[clients[j].sock] # None
    <3>1. RegistryOwned'
      BY StepIInv DEF IInv
    <3> QED
      BY <1>1, <1>3, <3>1 DEF RegistryOwned
  <2>3. sockOf'[clients[j].sock] = sockOf[clients[j].sock]
    <3>1. ASSUME NEW d \in Conns, NEW f \in Fds, Accept(d, f)
          PROVE  sockOf'[clients[j].sock] = sockOf[clients[j].sock]
      BY <1>0, <2>1, <3>1, ConstantsAssumption DEF Accept, VarTypes
    <3> QED
      BY <2>1, <2>2, <3>1, SocketCases
  <2> QED
    BY <1>1, <1>3, <2>1, <2>3 DEF Members
<1>4. CASE UNCHANGED clients
  BY <1>1, <1>2, <1>3, <1>4
<1>5. ASSUME NEW w \in Workers, Register(w)
      PROVE  c \in Members /\ c \in Conns
  <2>1. /\ pc[w] = "register" /\ UNCHANGED sockOf
        /\ clients' = Append(clients, [sock |-> fd[w], nickname |-> nick[w]])
    BY <1>5 DEF Register, At
  <2>2. fd[w] \in Fds /\ sockOf[fd[w]] \in Conns
    BY <1>0, <2>1, HasSocket
  <2>3. [sock |-> fd[w], nickname |-> nick[w]] \in Client /\ clients \in Seq(Client)
    BY <1>0, <2>1, <2>2 DEF Client, TypeOK, LocalsSet, VarTypes
  <2>4. CASE i \in DOMAIN clients
    <3>1. clients'[i] = clients[i]
      BY <2>1, <2>3, <2>4, AppendElements
    <3> QED
      BY <1>3, <2>4, <3>1
  <2>5. CASE i \notin DOMAIN clients
    <3>1. clients'[i] = [sock |-> fd[w], nickname |-> nick[w]]
      BY <1>1, <2>1, <2>3, <2>5, AppendElements
    <3>2. c = sockOf[fd[w]]
      BY <1>1, <2>1, <3>1
    <3>3. PICK v \in Workers : fd[v] = fd[w] /\ (Entered(v) \/ pc[v] = "close")
      BY <2>2, <3>2 DEF Unheard
    <3>4. v = w
      BY <1>0, <2>2, <3>3, ConstantsAssumption DEF DescriptorsOwned
    <3> QED
      BY <2>1, <3>3, <3>4 DEF Entered, InSession, SessionStages, Stages
  <2> QED
    BY <2>4, <2>5
<1>6. ASSUME NEW w \in Workers, RemoveClient(w)
      PROVE  c \in Members /\ c \in Conns
  <2>1. clients' = Without(fd[w])
    BY <1>6 DEF RemoveClient
  <2>2. PICK j \in DOMAIN clients : clients'[i] = clients[j]
    BY <1>0, <1>1, <2>1, WithoutSpec DEF RegistryOwned
  <2> QED
    BY <1>3, <2>2
<1> QED
  BY <1>2, <1>4, <1>5, <1>6, RegistryCases

\* When a broadcast ends, all members have heard it, and it is the last they heard.
LEMMA OffAir ==
  ASSUME IInv, OrderInv, Echoed, Next, ~ \E v \in Workers : Sigpipe(v),
         NEW m \in Msg, OnAir(m), ~ OnAir(m)', NEW d \in Conns, d \in Members
  PROVE  \E p \in Heard(d) : s2c[d][p].msg = m
<1>1. PICK w \in Workers : pc[w] = "broadcast" /\ msg[w] = m
  BY DEF OnAir
<1>2. ~ (pc'[w] = "broadcast" /\ msg'[w] = m)
  BY DEF OnAir
<1>3. pc'[w] = "saveSent"
  <2>1. pc'[w] # "broadcast"
    BY <1>1, <1>2, BroadcastGoesOn
  <2>2. WorkerStep(w)
    BY <1>1, <2>1, OthersStay, OutsideStep DEF IInv, TypeOK, workerVars
  <2>3. Broadcast(w)
    BY <1>1, <2>1, <2>2, LockTaken
       DEF At, WorkerStep, Pop, RecvHello, SendWelcome, RecvAuth, CheckNick, Register, Refuse,
           SendInfo, DeliverOffline, RecvRequest, Lookup, FindTarget, SendPrivate,
           StoreOffline, SaveHistory, ListUsers, CollectHistory, SendAnswer, RemoveClient,
           CloseClient
  <2> QED
    BY <1>1, <2>1, <2>3 DEF Broadcast, Goto, IInv, TypeOK, VarTypes
<1>4. ~ (idx[w] <= Len(clients))
  BY <1>1, <1>3, BroadcastEnds
<1>5. PICK i \in DOMAIN clients : d = sockOf[clients[i].sock]
  BY DEF Members
<1>6. i < idx[w]
  <2>1. clients \in Seq(Client) /\ idx[w] \in Nat
    BY DEF IInv, TypeOK, VarTypes
  <2> QED
    BY <1>4, <1>5, <2>1, LenProperties
<1>7. Sent(d, Text(m))
  BY <1>1, <1>5, <1>6 DEF Echoed
<1> QED
  BY <1>7 DEF Sent, Heard, Text

\* What was not being sent in this step, and is heard by one of two members after what
\* they have in common, is heard by the other one, or is still being broadcast.
LEMMA SyncStep ==
  ASSUME IInv, OrderInv, Locks, Answering, Echoed, AgreeInv, Next
  PROVE  Sync'
<1>0. VarTypes /\ Streams /\ Heeded /\ Unheard /\ Airs /\ Sync /\ BroadcastAgreement
  BY DEF IInv, TypeOK, OrderInv, AgreeInv
<1> SUFFICES ASSUME NEW c \in Members', NEW d \in Members',
                    NEW i \in Heard(c)', NEW n \in Heard(c)', NEW j \in Heard(d)',
                    i < n, s2c'[c][i].msg = s2c'[d][j].msg,
                    ~ OnAir(s2c[c][n].msg)'
             PROVE  \E p \in Heard(d)' : j < p /\ s2c'[d][p].msg = s2c'[c][n].msg
  BY DEF Sync
<1>1. CASE \A e \in Conns : Heard(e)' = Heard(e)
  <2>0. c \in Conns /\ d \in Conns
    <3>1. \A k \in DOMAIN clients' : clients'[k].sock \in Fds /\ sockOf'[clients'[k].sock] \in Conns
      <4>1. VarTypes' /\ RegistryOwned'
        BY StepIInv DEF IInv, TypeOK
      <4>2. \A k \in DOMAIN clients' : clients'[k].sock \in Fds
        BY <4>1, ElementOfSeq, LenProperties, ClientFields DEF VarTypes
      <4>3. \A k \in DOMAIN clients' : sockOf'[clients'[k].sock] # None
        BY <4>1 DEF RegistryOwned
      <4>4. sockOf' \in [Fds -> Conns \cup {None}]
        BY <4>1 DEF VarTypes
      <4> QED
        BY <4>2, <4>3, <4>4
    <3> QED
      BY <3>1 DEF Members
  <2>1. /\ i \in Heard(c) /\ n \in Heard(c) /\ j \in Heard(d)
        /\ s2c'[c][i].msg = s2c[c][i].msg /\ s2c'[c][n].msg = s2c[c][n].msg
        /\ s2c'[d][j].msg = s2c[d][j].msg /\ s2c[c][n].msg \in Msg
    BY <1>1, <2>0, HeardKept
  <2>1a. s2c[c][i].msg = s2c[d][j].msg
    BY <2>1
  <2>2. c \in Members /\ d \in Members /\ ~ \E w \in Workers : Sigpipe(w)
    BY <1>0, <2>1, MemberCases
  <2>3. \E p \in Heard(d) : j < p /\ s2c[d][p].msg = s2c[c][n].msg
    <3>1. CASE ~ OnAir(s2c[c][n].msg)
      BY <1>0, <2>1, <2>2, <2>1a, <3>1 DEF Sync
    <3>2. CASE OnAir(s2c[c][n].msg)
      <4>1. PICK m \in Msg : m = s2c[c][n].msg /\ m = s2c'[c][n].msg
        BY <2>1
      <4>2. OnAir(m) /\ ~ OnAir(m)'
        BY <3>2, <4>1 DEF OnAir
      <4>3. PICK p \in Heard(d) : s2c[d][p].msg = m
        BY <2>0, <2>2, <4>2, OffAir
      <4>4. j < p
        <5>1. s2c[c][n].msg = s2c[d][p].msg
          BY <4>1, <4>3
        <5> QED
          BY <1>0, <2>0, <2>1, <2>1a, <4>3, <5>1 DEF BroadcastAgreement
      <4> QED
        BY <4>1, <4>3, <4>4
    <3> QED
      BY <3>1, <3>2
  <2> QED
    BY <2>0, <2>1, <2>3, HeardKept
<1>2. ASSUME NEW u \in Workers, NEW e \in Conns, NEW t \in Nat,
             Airing(u, e), Heard(e)' = Heard(e) \cup {t}, s2c'[e][t].msg = msg[u],
             \A k \in Heard(e) : k < t, \A b \in Conns : b # e => Heard(b)' = Heard(b)
      PROVE  \E p \in Heard(d)' : j < p /\ s2c'[d][p].msg = s2c'[c][n].msg
  <2>0. Members' = Members /\ c \in Members /\ d \in Members /\ c \in Conns /\ d \in Conns
    <3>1. Members' = Members
      BY <1>2 DEF Airing, Members
    <3>2. \A a \in DOMAIN clients : sockOf[clients[a].sock] \in Conns
      BY EntrySocket
    <3>3. c \in Members /\ d \in Members
      BY <3>1
    <3>4. c \in Conns /\ d \in Conns
      BY <3>2, <3>3 DEF Members
    <3> QED
      BY <3>1, <3>3, <3>4
  <2>1. ~ OnAir(s2c'[c][n].msg)
    BY <1>2 DEF Airing, OnAir
  <2>2. s2c'[c][n].msg # msg[u]
    BY <1>2, <2>1 DEF Airing, OnAir
  <2>3. n \in Heard(c) /\ s2c'[c][n].msg = s2c[c][n].msg
    BY <1>2, <2>0, <2>2, HeardKept
  <2>4. i \in Heard(c) /\ s2c'[c][i].msg = s2c[c][i].msg
    BY <1>2, <2>0, <2>3, HeardKept
  <2>5. j \in Heard(d) /\ s2c'[d][j].msg = s2c[d][j].msg
    <3>1. SUFFICES ASSUME j \notin Heard(d) PROVE FALSE
      BY <2>0, HeardKept
    <3>2. s2c[c][i].msg = msg[u]
      BY <1>2, <2>0, <2>4, <3>1
    <3>3. n <= i
      BY <1>0, <1>2, <2>0, <2>3, <2>4, <3>2 DEF Airs, Airing
    <3> QED
      BY <2>0, <2>3, <2>4, <3>3, HeardKept
  <2>6. \E p \in Heard(d) : j < p /\ s2c[d][p].msg = s2c[c][n].msg
    <3>1. s2c[c][i].msg = s2c[d][j].msg /\ ~ OnAir(s2c[c][n].msg)
      BY <2>1, <2>3, <2>4, <2>5
    <3> QED
      BY <1>0, <2>0, <2>3, <2>4, <2>5, <3>1 DEF Sync
  <2> QED
    BY <2>0, <2>3, <2>6, HeardKept
<1> QED
  BY <1>1, <1>2, HeardCases

\* A message that is heard in this step comes last for everybody.
LEMMA AgreementStep ==
  ASSUME IInv, OrderInv, Locks, Answering, AgreeInv, Next
  PROVE  BroadcastAgreement'
<1>0. VarTypes /\ Streams /\ Airs /\ Sync /\ BroadcastAgreement
  BY DEF IInv, TypeOK, OrderInv, AgreeInv
<1> SUFFICES ASSUME NEW c \in Conns, NEW d \in Conns,
                    NEW i \in Heard(c)', NEW k \in Heard(c)',
                    NEW j \in Heard(d)', NEW l \in Heard(d)',
                    i < k, s2c'[c][i].msg = s2c'[d][j].msg, s2c'[c][k].msg = s2c'[d][l].msg
             PROVE  /\ j < l
                    /\ \A n \in Heard(c)' : i < n /\ n < k =>
                         \E p \in Heard(d)' :
                           j < p /\ p < l /\ s2c'[d][p].msg = s2c'[c][n].msg
  BY DEF BroadcastAgreement
<1> DEFINE Between == \A n \in Heard(c) : i < n /\ n < k =>
                        \E p \in Heard(d) : j < p /\ p < l /\ s2c[d][p].msg = s2c[c][n].msg
<1>1. CASE /\ i \in Heard(c) /\ j \in Heard(d)
           /\ \A n \in Heard(c)' : n < k => n \in Heard(c)
           /\ j < l /\ Between
  <2>1. \A p \in Heard(d) : p \in Heard(d)' /\ s2c'[d][p].msg = s2c[d][p].msg
    BY HeardKept
  <2>2. \A n \in Heard(c) : s2c'[c][n].msg = s2c[c][n].msg
    BY HeardKept
  <2> QED
    BY <1>1, <2>1, <2>2
<1>2. CASE i \in Heard(c) /\ k \in Heard(c) /\ j \in Heard(d) /\ l \in Heard(d)
  <2>1. /\ s2c[c][i].msg = s2c[d][j].msg /\ s2c[c][k].msg = s2c[d][l].msg
    BY <1>2, HeardKept
  <2>2. j < l /\ Between
    BY <1>0, <1>2, <2>1 DEF BroadcastAgreement
  <2>3. \A n \in Heard(c)' : n < k => n \in Heard(c)
    <3>1. CASE Heard(c)' = Heard(c)
      BY <3>1
    <3>2. ASSUME NEW t \in Nat, Heard(c)' = Heard(c) \cup {t}, \A b \in Heard(c) : b < t
          PROVE  \A n \in Heard(c)' : n < k => n \in Heard(c)
      <4>1. k < t /\ k \in Nat
        BY <1>2, <3>2, HeardKept
      <4> QED
        BY <3>2, <4>1
    <3> QED
      BY <3>1, <3>2, HeardCases
  <2> QED
    BY <1>1, <1>2, <2>2, <2>3
<1>3. ASSUME NEW u \in Workers, NEW e \in Conns, NEW t \in Nat,
             Airing(u, e), Heard(e)' = Heard(e) \cup {t}, s2c'[e][t].msg = msg[u],
             \A a \in Heard(e) : a < t, \A b \in Conns : b # e => Heard(b)' = Heard(b),
             ~ (i \in Heard(c) /\ k \in Heard(c) /\ j \in Heard(d) /\ l \in Heard(d))
      PROVE  /\ i \in Heard(c) /\ j \in Heard(d)
             /\ \A n \in Heard(c)' : n < k => n \in Heard(c)
             /\ j < l /\ Between
  <2>0. /\ Heard(c) \subseteq Nat /\ Heard(d) \subseteq Nat /\ Heard(c)' \subseteq Nat
        /\ Heard(d)' \subseteq Nat
        /\ \A a \in Heard(c) : s2c'[c][a].msg = s2c[c][a].msg
        /\ \A a \in Heard(d) : s2c'[d][a].msg = s2c[d][a].msg
    BY HeardKept
  \* The sent message is new to e; who else heard it heard it last.
  <2>1. \A a \in Heard(e) : s2c[e][a].msg # msg[u]
    BY <1>0, <1>3, AiringIsNew
  <2>2. \A b \in Conns : \A a \in Heard(b) : s2c[b][a].msg = msg[u] =>
          b \in Members /\ \A n \in Heard(b) : n <= a
    BY <1>0, <1>3 DEF Airs, Airing, Members
  <2>3. e \in Members
    BY <1>3 DEF Airing, Members
  <2>4. \A b \in Conns : \A n \in Heard(b) :
          s2c[b][n].msg # msg[u] => ~ OnAir(s2c[b][n].msg)
    BY <1>0, <1>3, AiringIsNew
  <2>5. i \in Heard(c)
    <3>1. SUFFICES ASSUME i \notin Heard(c) PROVE FALSE
      OBVIOUS
    <3>2. e = c /\ i = t
      BY <1>3, <3>1
    <3>3. k \in Nat /\ (k = t \/ k < t)
      BY <1>3, <2>0, <3>2
    <3> QED
      BY <3>2, <3>3
  <2>6. j \in Heard(d)
    <3>1. SUFFICES ASSUME j \notin Heard(d) PROVE FALSE
      OBVIOUS
    <3>2. e = d /\ j = t
      BY <1>3, <3>1
    <3>3. s2c[c][i].msg = msg[u]
      BY <1>3, <2>0, <2>5, <3>2
    <3>4. c # d
      BY <2>1, <2>5, <3>2, <3>3
    <3>5. k \in Heard(c)
      BY <1>3, <3>2, <3>4
    <3>6. k <= i
      BY <2>2, <2>5, <3>3, <3>5
    <3> QED
      BY <2>0, <2>5, <3>5, <3>6
  <2>7. ASSUME k \notin Heard(c)
        PROVE  j < l /\ Between
    <3>1. e = c /\ k = t
      BY <1>3, <2>7
    <3>2. s2c'[d][l].msg = msg[u]
      BY <1>3, <3>1
    <3>3. s2c[c][i].msg # msg[u] /\ s2c[d][j].msg = s2c[c][i].msg
      BY <2>0, <2>1, <2>5, <2>6, <3>1
    <3>4. CASE l \in Heard(d)
      <4>1. s2c[d][l].msg = msg[u]
        BY <2>0, <3>2, <3>4
      <4>2. d \in Members /\ \A n \in Heard(d) : n <= l
        BY <2>2, <3>4, <4>1
      <4>3. j < l
        BY <2>0, <2>6, <3>3, <3>4, <4>1, <4>2
      <4>4. ASSUME NEW n \in Heard(c), i < n, n < k
            PROVE  \E p \in Heard(d) : j < p /\ p < l /\ s2c[d][p].msg = s2c[c][n].msg
        <5>1. s2c[c][n].msg # msg[u] /\ ~ OnAir(s2c[c][n].msg)
          BY <2>1, <2>4, <3>1
        <5>2. PICK p \in Heard(d) : j < p /\ s2c[d][p].msg = s2c[c][n].msg
          BY <1>0, <2>3, <2>5, <2>6, <3>1, <3>3, <4>2, <4>4, <5>1 DEF Sync
        <5>3. p < l
          BY <2>0, <3>4, <4>1, <4>2, <5>1, <5>2
        <5> QED
          BY <5>2, <5>3
      <4> QED
        BY <4>3, <4>4
    <3>5. CASE l \notin Heard(d)
      <4>1. c = d /\ l = t
        BY <1>3, <3>1, <3>5
      <4>2. i = j
        <5>1. i \in Nat /\ j \in Nat /\ i \in Heard(c) /\ j \in Heard(c)
          BY <2>0, <2>5, <2>6, <4>1
        <5>2. ~ (i < j)
          BY <1>0, <3>3, <4>1, <5>1 DEF BroadcastAgreement
        <5>3. ~ (j < i)
          BY <1>0, <3>3, <4>1, <5>1 DEF BroadcastAgreement
        <5> QED
          BY <5>1, <5>2, <5>3
      <4>3. j < l
        BY <3>1, <4>1, <4>2
      <4> QED
        BY <3>1, <4>1, <4>2, <4>3
    <3> QED
      BY <3>4, <3>5
  <2>8. ASSUME k \in Heard(c)
        PROVE  j < l /\ Between
    <3>1. l \notin Heard(d) /\ e = d /\ l = t
      BY <1>3, <2>5, <2>6, <2>8
    <3>2. s2c[c][k].msg = msg[u]
      BY <1>3, <2>0, <2>8, <3>1
    <3>3. j < l
      BY <1>3, <2>6, <3>1
    <3>4. c \in Members
      BY <2>2, <2>8, <3>2
    <3>5. ASSUME NEW n \in Heard(c), i < n, n < k
          PROVE  \E p \in Heard(d) : j < p /\ p < l /\ s2c[d][p].msg = s2c[c][n].msg
      <4>1. s2c[c][n].msg # msg[u]
        <5>1. SUFFICES ASSUME s2c[c][n].msg = msg[u] PROVE FALSE
          OBVIOUS
        <5>2. k <= n
          BY <2>2, <2>8, <5>1
        <5> QED
          BY <2>0, <2>8, <3>5, <5>2
      <4>2. ~ OnAir(s2c[c][n].msg)
        BY <2>4, <4>1
      <4>3. s2c[c][i].msg = s2c[d][j].msg
        BY <2>0, <2>5, <2>6
      <4>4. PICK p \in Heard(d) : j < p /\ s2c[d][p].msg = s2c[c][n].msg
        BY <1>0, <2>3, <2>5, <2>6, <3>1, <3>4, <3>5, <4>2, <4>3 DEF Sync
      <4> QED
        BY <1>3, <3>1, <4>4
    <3> QED
      BY <3>3, <3>5
  <2>9. \A n \in Heard(c)' : n < k => n \in Heard(c)
    <3>1. k \in Heard(c) \/ (e = c /\ k = t)
      BY <1>3
    <3> QED
      BY <1>3, <2>0, <3>1
  <2> HIDE DEF Between
  <2> QED
    BY <2>5, <2>6, <2>7, <2>8, <2>9
<1> HIDE DEF Between
<1> QED
  BY <1>1, <1>2, <1>3, HeardCases

\* Nobody heard anything.
LEMMA InitAgree == Init => AgreeInv
<1> SUFFICES ASSUME Init PROVE AgreeInv
  OBVIOUS
<1>1. \A c \in Conns : Heard(c) = {}
  BY DEF Init, Heard
<1>2. Members = {}
  BY DEF Init, Members
<1> QED
  BY <1>1, <1>2 DEF AgreeInv, Heeded, Unheard, Airs, Sync, BroadcastAgreement

\* A step keeps what the clients heard in one order.
LEMMA StepAgree == IInv /\ OrderInv /\ DeliveryInv /\ AgreeInv /\ [Next]_vars => AgreeInv'
<1> SUFFICES ASSUME IInv, OrderInv, DeliveryInv, AgreeInv, [Next]_vars
             PROVE  AgreeInv'
  OBVIOUS
<1>1. CASE Next
  <2>1. Heeded' /\ Unheard' /\ Airs'
    BY <1>1, HeededStep, UnheardStep, AirsStep DEF AgreeInv, DeliveryInv
  <2>2. Sync' /\ BroadcastAgreement'
    BY <1>1, SyncStep, AgreementStep DEF DeliveryInv
  <2> QED
    BY <2>1, <2>2 DEF AgreeInv
<1>2. CASE UNCHANGED vars
  <2> USE <1>2 DEF vars, workerVars, sharedVars, clientVars, Heard
  <2>1. Heeded'
    BY DEF AgreeInv, Heeded, Read
  <2>2. Unheard'
    BY DEF AgreeInv, Unheard, Entered, InSession
  <2>3. Airs'
    BY DEF AgreeInv, Airs
  <2>4. Sync'
    BY DEF AgreeInv, Sync, Members, OnAir
  <2>5. BroadcastAgreement'
    BY DEF AgreeInv, BroadcastAgreement
  <2> QED
    BY <2>1, <2>2, <2>3, <2>4, <2>5 DEF AgreeInv
<1> QED
  BY <1>1, <1>2

\* All clients hear the chat in one order, and who hears two messages of it misses none
\* that somebody else hears in between.
THEOREM AllHearOneChat == Spec => []BroadcastAgreement
<1>1. Init => AgreeInv
  BY InitAgree
<1>2. IInv /\ OrderInv /\ DeliveryInv /\ AgreeInv /\ [Next]_vars => AgreeInv'
  BY StepAgree
<1>3. AgreeInv => BroadcastAgreement
  BY DEF AgreeInv
<1> QED
  BY <1>1, <1>2, <1>3, Invariance, OrderInvariance, DeliveryInvariance, PTL DEF Spec

=============================================================================
