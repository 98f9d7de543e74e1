-------------------------- MODULE ChatDeliveryProofs --------------------------
(***************************************************************************)
(* Proofs about ChatServer: what the clients are sent.  The two locks that *)
(* are held over sends, the echo of a chat message to its author, and the  *)
(* messages that are stored for an absent receiver.                        *)
(***************************************************************************)
EXTENDS ChatServerProofs

USE ConstantsTyped DEF Names

\* A lock is held at its own stage only, and only its holder is inside a list; an answer
\* is the one to a PING, LIST or HISTORY.
Locks ==
  /\ \A w \in Workers : clientsLock = w => pc[w] = "broadcast"
  /\ \A w \in Workers : offlineLock = w => pc[w] = "drain"
  /\ \A w \in Workers : idx[w] # 1 =>
       \/ pc[w] = "broadcast" /\ clientsLock = w
       \/ pc[w] = "drain" /\ offlineLock = w

Answering ==
  \A w \in Workers : pc[w] = "answer" =>
    reply[w].type \in {"PONG", "SERVER_INFO", "HISTORY_DATA"}

-----------------------------------------------------------------------------
(* Who moves. *)

\* Taking a lock changes nothing but the lock.
LEMMA LockTaken ==
  ASSUME NEW w \in Workers, LockClients(w) \/ LockOffline(w)
  PROVE  /\ up /\ pc[w] \in {"broadcast", "drain"}
         /\ UNCHANGED <<pc, fd, nick, msg, idx, target, reply, queue, clients, offline>>
         /\ UNCHANGED <<history, file, sockOf, up, restarts, peer, login, nextId, taken>>
         /\ UNCHANGED <<c2s, s2c>>
BY DEF LockClients, LockOffline, At, ServerSame, workerVars, clientVars

\* A step of one worker leaves the locals of the others alone, unless the process dies.
LEMMA OthersStay ==
  ASSUME VarTypes, NEW w \in Workers, WorkerStep(w), ~ Sigpipe(w), NEW v \in Workers, v # w
  PROVE  /\ pc'[v] = pc[v] /\ fd'[v] = fd[v] /\ nick'[v] = nick[v] /\ msg'[v] = msg[v]
         /\ idx'[v] = idx[v] /\ target'[v] = target[v] /\ reply'[v] = reply[v]
<1> USE DEF Goto, sharedVars, workerVars, NextClient, VarTypes
<1>1. CASE Pop(w) \/ RecvHello(w) \/ SendWelcome(w) \/ Refuse(w) \/ CloseClient(w)
  BY <1>1 DEF Pop, RecvHello, SendWelcome, Refuse, CloseClient
<1>2. CASE RecvAuth(w) \/ CheckNick(w) \/ Register(w) \/ SendInfo(w)
  BY <1>2 DEF RecvAuth, CheckNick, Register, SendInfo
<1>3. CASE DeliverOffline(w) \/ Broadcast(w) \/ RecvRequest(w)
  BY <1>3 DEF DeliverOffline, Broadcast, RecvRequest
<1>4. CASE Lookup(w) \/ FindTarget(w) \/ SendPrivate(w) \/ StoreOffline(w)
  BY <1>4 DEF Lookup, FindTarget, SendPrivate, StoreOffline
<1>5. CASE SaveHistory(w) \/ ListUsers(w) \/ CollectHistory(w) \/ SendAnswer(w) \/ RemoveClient(w)
  BY <1>5 DEF SaveHistory, ListUsers, CollectHistory, SendAnswer, RemoveClient
<1>6. CASE LockClients(w) \/ LockOffline(w)
  BY <1>6, LockTaken
<1> QED
  BY <1>1, <1>2, <1>3, <1>4, <1>5, <1>6 DEF WorkerStep

\* What is no step of a worker leaves the pool and what it shares alone, but for the
\* queue of accepted connections.
LEMMA OutsideStep ==
  ASSUME Next, ~ \E w \in Workers : WorkerStep(w)
  PROVE  UNCHANGED <<workerVars, clients, clientsLock, offline, offlineLock, history, file,
                     s2c>>
<1> USE DEF sharedVars, workerVars
<1>1. ASSUME NEW c \in Conns, NEW f \in Fds, Accept(c, f)
      PROVE  UNCHANGED <<workerVars, clients, clientsLock, offline, offlineLock, history, file,
                         s2c>>
  BY <1>1 DEF Accept
<1>2. ASSUME NEW c \in Conns, ClientStep(c)
      PROVE  UNCHANGED <<workerVars, clients, clientsLock, offline, offlineLock, history, file,
                         s2c>>
  BY <1>2 DEF ClientStep, ClientAuth, ClientRequest, ClientQuit, ClientClose, ClientRead,
              ClientSame
<1>3. CASE Restart
  BY <1>3 DEF Restart
<1> QED
  BY <1>1, <1>2, <1>3 DEF Next

-----------------------------------------------------------------------------
(* What a step sends. *)

\* A worker sends r to the connection of descriptor f.
Sends(w, f, r) ==
  /\ f \in Fds /\ sockOf[f] \in Conns /\ r \in Reply /\ up
  /\ \/ SendWelcome(w) /\ pc[w] = "welcome" /\ f = fd[w] /\ r = Welcome
     \/ Refuse(w) /\ pc[w] = "refuse" /\ f = fd[w] /\ r = Error
     \/ SendInfo(w) /\ pc[w] = "info" /\ f = fd[w] /\ r = ServerInfo(<<>>)
     \/ /\ DeliverOffline(w) /\ pc[w] = "drain" /\ f = fd[w]
        /\ idx[w] \in DOMAIN offline[nick[w]]
        /\ r = Private(offline[nick[w]][idx[w]], TRUE)
     \/ /\ Broadcast(w) /\ pc[w] = "broadcast" /\ idx[w] \in DOMAIN clients
        /\ f = clients[idx[w]].sock /\ r = Text(msg[w])
     \/ SendPrivate(w) /\ pc[w] = "private" /\ f = target[w] /\ r = Private(msg[w], FALSE)
     \/ SendAnswer(w) /\ pc[w] = "answer" /\ f = fd[w] /\ r = reply[w]

\* Nothing is sent but by the seven stages that send, one message to one connection.
LEMMA WhoSends ==
  ASSUME IInv, Next
  PROVE  \/ UNCHANGED s2c
         \/ \E w \in Workers, f \in Fds, r \in Reply :
              Sends(w, f, r) /\ s2c' = [s2c EXCEPT ![sockOf[f]] = Append(@, r)]
<1> USE DEF At, sharedVars, workerVars, ServerSame, clientVars
<1>0. TypeOK /\ VarTypes /\ LocalsSet /\ DescriptorsOwned
  BY DEF IInv, TypeOK
<1>1. ASSUME NEW f \in Fds, NEW r, Send(f, r)
      PROVE  \/ UNCHANGED s2c
             \/ /\ sockOf[f] \in Conns
                /\ s2c' = [s2c EXCEPT ![sockOf[f]] = Append(@, r)]
  BY <1>0, <1>1 DEF Send, VarTypes
<1>2. ASSUME NEW w \in Workers, WorkerStep(w)
      PROVE  \/ UNCHANGED s2c
             \/ \E f \in Fds, r \in Reply :
                  Sends(w, f, r) /\ s2c' = [s2c EXCEPT ![sockOf[f]] = Append(@, r)]
  <2>0. pc[w] # "pop" => fd[w] \in Fds
    BY <1>0, HasSocket
  <2>1. CASE SendWelcome(w)
    BY <1>1, <2>0, <2>1, ReplyTypes DEF SendWelcome, Sends
  <2>2. CASE Refuse(w)
    BY <1>1, <2>0, <2>2, ReplyTypes DEF Refuse, Sends
  <2>3. CASE SendInfo(w)
    BY <1>1, <2>0, <2>3, ReplyTypes, EmptySeq DEF SendInfo, Sends
  <2>4. CASE DeliverOffline(w)
    <3>1. CASE idx[w] <= Len(offline[nick[w]])
      <4>1. pc[w] = "drain" /\ nick[w] \in Names /\ offline[nick[w]] \in Seq(Msg)
        BY <1>0, <2>4 DEF DeliverOffline, VarTypes
      <4>2. idx[w] \in DOMAIN offline[nick[w]] /\ offline[nick[w]][idx[w]] \in Msg
        BY <1>0, <3>1, <4>1, LenProperties, ElementOfSeq DEF VarTypes
      <4>3. Private(offline[nick[w]][idx[w]], TRUE) \in Reply
        BY <4>2, ReplyTypes
      <4>4. Send(fd[w], Private(offline[nick[w]][idx[w]], TRUE))
        BY <2>4, <3>1 DEF DeliverOffline
      <4>5. PICK r \in Reply : r = Private(offline[nick[w]][idx[w]], TRUE)
        BY <4>3
      <4>6. up /\ fd[w] \in Fds
        BY <2>0, <2>4, <4>1, DeliverMoves
      <4>7. ASSUME sockOf[fd[w]] \in Conns
            PROVE  Sends(w, fd[w], r)
        BY <2>4, <4>1, <4>2, <4>5, <4>6, <4>7 DEF Sends
      <4> QED
        BY <1>1, <4>4, <4>5, <4>6, <4>7
    <3>2. CASE ~ (idx[w] <= Len(offline[nick[w]]))
      BY <2>4, <3>2 DEF DeliverOffline
    <3> QED
      BY <3>1, <3>2
  <2>5. CASE Broadcast(w)
    <3>1. CASE idx[w] <= Len(clients)
      <4>1. pc[w] = "broadcast" /\ msg[w] \in Msg
        BY <1>0, <2>5 DEF Broadcast, LocalsSet, RequestStages
      <4>2. idx[w] \in DOMAIN clients /\ clients[idx[w]] \in Client
        BY <1>0, <3>1, LenProperties, ElementOfSeq DEF VarTypes
      <4>3. clients[idx[w]].sock \in Fds /\ Text(msg[w]) \in Reply
        BY <4>1, <4>2, ReplyTypes, ClientFields
      <4>4. Send(clients[idx[w]].sock, Text(msg[w]))
        BY <2>5, <3>1 DEF Broadcast
      <4> QED
        BY <1>1, <2>5, <4>1, <4>2, <4>3, <4>4 DEF Broadcast, Sends
    <3>2. CASE ~ (idx[w] <= Len(clients))
      BY <2>5, <3>2 DEF Broadcast
    <3> QED
      BY <3>1, <3>2
  <2>6. CASE SendPrivate(w)
    <3>1. pc[w] = "private" /\ target[w] \in Fds /\ msg[w] \in Msg
      BY <1>0, <2>6 DEF SendPrivate, LocalsSet, RequestStages
    <3>2. Private(msg[w], FALSE) \in Reply /\ Send(target[w], Private(msg[w], FALSE))
      BY <2>6, <3>1, ReplyTypes DEF SendPrivate
    <3> QED
      BY <1>1, <2>6, <3>1, <3>2 DEF SendPrivate, Sends
  <2>7. CASE SendAnswer(w)
    BY <1>0, <1>1, <2>0, <2>7 DEF SendAnswer, Sends, LocalsSet
  <2>8. CASE ~ (SendWelcome(w) \/ Refuse(w) \/ SendInfo(w) \/ DeliverOffline(w) \/ Broadcast(w)
                \/ SendPrivate(w) \/ SendAnswer(w))
    BY <1>2, <2>8, LockTaken
       DEF WorkerStep, Pop, RecvHello, RecvAuth, CheckNick, Register, RecvRequest, Lookup,
           FindTarget, StoreOffline, SaveHistory, ListUsers, CollectHistory, RemoveClient,
           CloseClient, Sigpipe
  <2> QED
    BY <2>1, <2>2, <2>3, <2>4, <2>5, <2>6, <2>7, <2>8
<1>3. ASSUME NEW c \in Conns, NEW f \in Fds, Accept(c, f)
      PROVE  UNCHANGED s2c
  BY <1>3 DEF Accept
<1>4. ASSUME NEW c \in Conns, ClientStep(c)
      PROVE  UNCHANGED s2c
  BY <1>4 DEF ClientStep, ClientAuth, ClientRequest, ClientQuit, ClientClose, ClientRead,
              ClientSame
<1>5. CASE Restart
  BY <1>5 DEF Restart
<1> QED
  BY <1>2, <1>3, <1>4, <1>5 DEF Next

\* What a connection was sent stays; what is new comes last, and some worker sent it.
LEMMA SentCases ==
  ASSUME IInv, Next, NEW c \in Conns
  PROVE  /\ s2c[c] \in Seq(Reply) /\ Len(s2c[c]) \in Nat /\ DOMAIN s2c[c] = 1..Len(s2c[c])
         /\ DOMAIN s2c[c] \subseteq DOMAIN s2c'[c] /\ DOMAIN s2c'[c] \subseteq Nat \ {0}
         /\ Len(s2c'[c]) \in Nat /\ Len(s2c[c]) <= Len(s2c'[c])
         /\ \A k \in DOMAIN s2c[c] : s2c'[c][k] = s2c[c][k]
         /\ \A k \in DOMAIN s2c'[c] \ DOMAIN s2c[c] :
              /\ k = Len(s2c[c]) + 1
              /\ \E w \in Workers, f \in Fds : sockOf[f] = c /\ Sends(w, f, s2c'[c][k])
<1>0. /\ s2c \in [Conns -> Seq(Reply)] /\ s2c[c] \in Seq(Reply)
      /\ Len(s2c[c]) \in Nat /\ DOMAIN s2c[c] = 1..Len(s2c[c])
  BY LenProperties DEF IInv, TypeOK, VarTypes
<1>1. CASE s2c'[c] = s2c[c]
  BY <1>0, <1>1
<1>2. ASSUME NEW w \in Workers, NEW f \in Fds, NEW r \in Reply, Sends(w, f, r), sockOf[f] = c,
             s2c'[c] = Append(s2c[c], r)
      PROVE  /\ DOMAIN s2c[c] \subseteq DOMAIN s2c'[c] /\ DOMAIN s2c'[c] \subseteq Nat \ {0}
             /\ Len(s2c'[c]) \in Nat /\ Len(s2c[c]) <= Len(s2c'[c])
             /\ \A k \in DOMAIN s2c[c] : s2c'[c][k] = s2c[c][k]
             /\ \A k \in DOMAIN s2c'[c] \ DOMAIN s2c[c] :
                  k = Len(s2c[c]) + 1 /\ s2c'[c][k] = r
  BY <1>0, <1>2, AppendElements
<1> QED
  BY <1>0, <1>1, <1>2, WhoSends

\* What was sent stays sent.
LEMMA SentKept ==
  ASSUME IInv, Next, NEW c \in Conns, NEW r, Sent(c, r)
  PROVE  Sent(c, r)'
  BY SentCases DEF Sent

-----------------------------------------------------------------------------
(* The locks. *)

\* One worker at a time goes through a list with its lock.
LEMMA LocksStep ==
  ASSUME IInv, Locks, Next
  PROVE  Locks'
<1> USE DEF At, Goto, Holds
<1>0. TypeOK /\ VarTypes /\ LocalsSet
  BY DEF IInv, TypeOK
<1>1. ASSUME NEW w \in Workers, WorkerStep(w)
      PROVE  Locks'
  <2> USE <1>0 DEF VarTypes, sharedVars
  <2>1. CASE Sigpipe(w)
    BY <2>1 DEF Sigpipe, Locks
  <2>2. ASSUME pc[w] \notin {"broadcast", "drain"}, ~ Sigpipe(w),
               UNCHANGED <<clientsLock, offlineLock, idx>>
        PROVE  Locks'
    BY <1>1, <2>2, OthersStay DEF Locks
  <2>3. CASE ~ (\/ LockOffline(w) \/ DeliverOffline(w) \/ LockClients(w) \/ Broadcast(w)
               \/ Sigpipe(w))
    <3>1. pc[w] \notin {"broadcast", "drain"} /\ UNCHANGED <<clientsLock, offlineLock, idx>>
      BY <1>1, <2>3 DEF WorkerStep, Pop, RecvHello, SendWelcome, RecvAuth, CheckNick, Register,
           Refuse, SendInfo, RecvRequest, Lookup, FindTarget, SendPrivate, StoreOffline,
           SaveHistory, ListUsers, CollectHistory, SendAnswer, RemoveClient, CloseClient
    <3> QED
      BY <2>2, <2>3, <3>1
  <2>4. CASE DeliverOffline(w) /\ ~ Sigpipe(w)
    <3>1. /\ pc[w] = "drain" /\ offlineLock = w /\ clientsLock' = clientsLock
          /\ \/ pc'[w] = "drain" /\ offlineLock' = w
             \/ pc'[w] = "recv" /\ offlineLock' = None /\ idx'[w] = 1
      BY <2>4, DeliverMoves
    <3>2. \A v \in Workers : v # w => pc'[v] = pc[v] /\ idx'[v] = idx[v]
      BY <1>1, <2>4, OthersStay
    <3> QED
      BY <3>1, <3>2 DEF Locks
  <2>5. CASE Broadcast(w) /\ ~ Sigpipe(w)
    <3>1. /\ pc[w] = "broadcast" /\ clientsLock = w /\ offlineLock' = offlineLock
          /\ \/ pc'[w] = "broadcast" /\ clientsLock' = w
             \/ pc'[w] = "saveSent" /\ clientsLock' = None /\ idx'[w] = 1
      BY <2>5 DEF Broadcast, Unlocked
    <3>2. \A v \in Workers : v # w => pc'[v] = pc[v] /\ idx'[v] = idx[v]
      BY <1>1, <2>5, OthersStay
    <3> QED
      BY <3>1, <3>2 DEF Locks
  <2>6. CASE LockOffline(w) \/ LockClients(w)
    BY <2>6 DEF LockOffline, LockClients, workerVars, Locks
  <2> QED
    BY <2>1, <2>3, <2>4, <2>5, <2>6
<1>2. CASE ~ \E w \in Workers : WorkerStep(w)
  BY <1>2, OutsideStep DEF workerVars, Locks
<1> QED
  BY <1>1, <1>2

\* Three stages prepare an answer, the others do not.
LEMMA NoAnswer ==
  ASSUME pc \in [Workers -> Stages], NEW w \in Workers, WorkerStep(w),
         ~ (RecvRequest(w) \/ ListUsers(w) \/ CollectHistory(w) \/ Sigpipe(w))
  PROVE  pc'[w] # "answer"
<1> USE DEF At, Goto
<1>1. ASSUME DeliverOffline(w) \/ LockClients(w) \/ LockOffline(w)
      PROVE  pc'[w] # "answer"
  <2>1. CASE DeliverOffline(w)
    BY <2>1, DeliverMoves
  <2>2. CASE LockClients(w) \/ LockOffline(w)
    BY <2>2, LockTaken
  <2> QED
    BY <1>1, <2>1, <2>2
<1>2. ASSUME Pop(w) \/ RecvHello(w) \/ SendWelcome(w) \/ RecvAuth(w) \/ CheckNick(w)
      PROVE  pc'[w] # "answer"
  BY <1>2 DEF Pop, RecvHello, SendWelcome, RecvAuth, CheckNick, FirstVerdict, NextClient
<1>3. ASSUME Register(w) \/ Refuse(w) \/ SendInfo(w) \/ Broadcast(w) \/ CloseClient(w)
      PROVE  pc'[w] # "answer"
  BY <1>3 DEF Register, Refuse, SendInfo, AfterStage, Broadcast, CloseClient, NextClient
<1>4. ASSUME Lookup(w) \/ FindTarget(w) \/ SendPrivate(w) \/ StoreOffline(w)
      PROVE  pc'[w] # "answer"
  BY <1>4 DEF Lookup, FindTarget, SendPrivate, StoreOffline
<1>5. ASSUME SaveHistory(w) \/ SendAnswer(w) \/ RemoveClient(w)
      PROVE  pc'[w] # "answer"
  BY <1>5 DEF SaveHistory, SendAnswer, RemoveClient
<1> QED
  BY <1>1, <1>2, <1>3, <1>4, <1>5 DEF WorkerStep

\* An answer is the one to what was asked.
LEMMA AnsweringStep ==
  ASSUME IInv, Answering, Next
  PROVE  Answering'
<1> USE DEF At, Goto
<1>0. TypeOK /\ VarTypes /\ LocalsSet
  BY DEF IInv, TypeOK
<1>1. ASSUME NEW w \in Workers, WorkerStep(w)
      PROVE  Answering'
  <2> USE <1>0 DEF VarTypes, sharedVars
  <2>1. CASE Sigpipe(w)
    BY <2>1 DEF Sigpipe, Answering
  <2>2. ASSUME ~ Sigpipe(w),
               pc'[w] = "answer" => reply'[w].type \in {"PONG", "SERVER_INFO", "HISTORY_DATA"}
        PROVE  Answering'
    <3>1. \A v \in Workers : v # w => pc'[v] = pc[v] /\ reply'[v] = reply[v]
      BY <1>1, <2>2, OthersStay
    <3> QED
      BY <2>2, <3>1 DEF Answering
  <2>3. CASE ~ (RecvRequest(w) \/ ListUsers(w) \/ CollectHistory(w) \/ Sigpipe(w))
    <3>1. pc'[w] # "answer"
      BY <1>1, <2>3, NoAnswer
    <3> QED
      BY <2>2, <2>3, <3>1
  <2>4. CASE RecvRequest(w) /\ ~ Sigpipe(w)
    <3>1. CASE pc' = [pc EXCEPT ![w] = "remove"] /\ UNCHANGED reply
      BY <3>1 DEF Answering
    <3>2. CASE /\ Receive(w)
               /\ reply' = [reply EXCEPT ![w] = IF Incoming(w).type = "PING" THEN Pong
                                                ELSE None]
               /\ pc' = [pc EXCEPT ![w] = Handler[Incoming(w).type]]
      <4>1. PICK t \in RequestTypes \cup {"HELLO", "AUTH", "BYE"} : t = Incoming(w).type
        BY <2>4, <3>2, ReceiveTypes DEF RecvRequest, Msg, IInv
      <4>2. Handler[t] = "answer" => t = "PING"
        BY DEF Handler, RequestTypes
      <4> QED
        BY <2>2, <2>4, <3>2, <4>1, <4>2 DEF Pong
    <3> QED
      BY <2>4, <3>1, <3>2 DEF RecvRequest
  <2>5. CASE (ListUsers(w) \/ CollectHistory(w)) /\ ~ Sigpipe(w)
    BY <2>2, <2>5 DEF ListUsers, CollectHistory, ServerInfo, HistoryData
  <2> QED
    BY <2>1, <2>3, <2>4, <2>5
<1>2. CASE ~ \E w \in Workers : WorkerStep(w)
  BY <1>2, OutsideStep DEF workerVars, Answering
<1> QED
  BY <1>1, <1>2

-----------------------------------------------------------------------------
(* The echo. *)

\* What a broadcast has passed was sent the message, and after it the author was.
Echoed ==
  /\ \A w \in Workers : pc[w] = "broadcast" =>
       \A i \in DOMAIN clients :
         i < idx[w] => Sent(sockOf[clients[i].sock], Text(msg[w]))
  /\ \A w \in Workers : pc[w] = "saveSent" /\ msg[w].type = "TEXT" =>
       Sent(msg[w].src, Text(msg[w]))

\* The registry changes under g_clients_mutex only, or is lost with the process.
LEMMA RegistryCases ==
  ASSUME Next
  PROVE  \/ UNCHANGED clients
         \/ \E w \in Workers : (Register(w) \/ RemoveClient(w)) /\ clientsLock = None
         \/ \E w \in Workers : Sigpipe(w)
<1>1. ASSUME NEW w \in Workers, WorkerStep(w), ~ Register(w), ~ RemoveClient(w), ~ Sigpipe(w)
      PROVE  UNCHANGED clients
  BY <1>1, LockTaken
     DEF WorkerStep, Pop, RecvHello, SendWelcome, RecvAuth, CheckNick, Refuse, SendInfo,
         DeliverOffline, RecvRequest, Broadcast, Lookup, FindTarget, SendPrivate, StoreOffline,
         SaveHistory, ListUsers, CollectHistory, SendAnswer, CloseClient, sharedVars
<1>2. ASSUME NEW w \in Workers, Register(w) \/ RemoveClient(w)
      PROVE  clientsLock = None
  BY <1>2 DEF Register, RemoveClient
<1> QED
  BY <1>1, <1>2, OutsideStep

\* A worker's position in a broadcast: at the start, where it was, or one further on;
\* while it is not at the start nobody changes the registry.
LEMMA BroadcastCases ==
  ASSUME IInv, Locks, Next, NEW w \in Workers, pc'[w] = "broadcast"
  PROVE  \/ idx'[w] = 1
         \/ /\ pc[w] = "broadcast" /\ msg'[w] = msg[w] /\ UNCHANGED clients
            /\ \/ idx'[w] = idx[w]
               \/ /\ idx'[w] = idx[w] + 1 /\ idx[w] \in DOMAIN clients
                  /\ Send(clients[idx[w]].sock, Text(msg[w]))
<1> USE DEF At, Goto
<1>0. TypeOK /\ VarTypes
  BY DEF IInv, TypeOK
<1>1. ASSUME NEW v \in Workers, Sigpipe(v)
      PROVE  FALSE
  BY <1>1 DEF Sigpipe
<1>2. CASE Broadcast(w)
  <2>1. idx[w] <= Len(clients) => idx[w] \in DOMAIN clients
    BY <1>0, LenProperties DEF VarTypes
  <2>2. /\ pc[w] = "broadcast" /\ msg'[w] = msg[w] /\ UNCHANGED clients
        /\ idx'[w] = 1 \/ idx'[w] = idx[w] + 1
    BY <1>0, <1>2 DEF Broadcast, VarTypes
  <2>3. CASE idx[w] <= Len(clients)
    BY <1>2, <2>1, <2>2, <2>3 DEF Broadcast
  <2>4. CASE ~ (idx[w] <= Len(clients))
    BY <1>0, <1>2, <2>4 DEF Broadcast, VarTypes
  <2> QED
    BY <2>3, <2>4
<1>3. CASE WorkerStep(w) /\ ~ Broadcast(w)
  <2>1. ~ (\/ Pop(w) \/ RecvHello(w) \/ SendWelcome(w) \/ RecvAuth(w) \/ CheckNick(w)
          \/ Register(w) \/ Refuse(w) \/ CloseClient(w) \/ RemoveClient(w))
    BY <1>0
       DEF Pop, RecvHello, SendWelcome, RecvAuth, FirstVerdict, CheckNick, Register, Refuse,
           AfterStage, CloseClient, RemoveClient, NextClient, VarTypes
  <2>2. ~ (SendInfo(w) \/ LockOffline(w) \/ DeliverOffline(w))
    BY <1>0, DeliverMoves DEF SendInfo, LockOffline, workerVars, AfterStage, VarTypes
  <2>3. ~ (\/ Lookup(w) \/ FindTarget(w) \/ SendPrivate(w) \/ StoreOffline(w) \/ SaveHistory(w)
          \/ ListUsers(w) \/ CollectHistory(w) \/ SendAnswer(w))
    BY <1>0 DEF Lookup, FindTarget, SendPrivate, StoreOffline, SaveHistory, ListUsers,
         CollectHistory, SendAnswer, VarTypes
  <2>4. RecvRequest(w) \/ LockClients(w)
    BY <1>1, <1>3, <2>1, <2>2, <2>3 DEF WorkerStep
  <2> QED
    BY <2>4 DEF RecvRequest, LockClients, workerVars, Locks
<1>4. CASE ~ WorkerStep(w)
  <2>1. pc'[w] = pc[w] /\ idx'[w] = idx[w] /\ msg'[w] = msg[w]
    BY <1>0, <1>1, <1>4, OthersStay, OutsideStep DEF workerVars
  <2>2. idx[w] # 1 => clientsLock = w
    BY <2>1 DEF Locks
  <2>3. idx[w] # 1 => UNCHANGED clients
    BY <1>1, <2>2, RegistryCases
  <2> QED
    BY <2>1, <2>3
<1> QED
  BY <1>2, <1>3, <1>4

\* An entry names an open socket, which stays that of the same connection for as long as
\* the registry does not change.
LEMMA EntrySocket ==
  ASSUME IInv, Next, NEW i \in DOMAIN clients
  PROVE  LET f == clients[i].sock
         IN  /\ f \in Fds /\ sockOf[f] \in Conns
             /\ UNCHANGED clients => sockOf'[f] = sockOf[f]
<1> DEFINE f == clients[i].sock
<1>0. VarTypes /\ RegistryOwned /\ IInv' /\ RegistryOwned' /\ VarTypes'
  BY StepIInv DEF IInv, TypeOK
<1>1. f \in Fds
  BY <1>0, ElementOfSeq, LenProperties, ClientFields DEF VarTypes
<1>2. sockOf[f] \in Conns
  BY <1>0, <1>1 DEF VarTypes, RegistryOwned
<1>3. ASSUME UNCHANGED clients
      PROVE  sockOf'[f] = sockOf[f]
  <2>1. sockOf'[f] # None
    BY <1>0, <1>3 DEF RegistryOwned
  <2>2. ASSUME NEW c \in Conns, NEW g \in Fds, Accept(c, g)
        PROVE  sockOf'[f] = sockOf[f]
    BY <1>0, <1>1, <1>2, <2>2 DEF Accept, VarTypes
  <2> HIDE DEF f
  <2> QED
    BY <1>1, <2>1, <2>2, SocketCases
<1> QED
  BY <1>1, <1>2, <1>3

\* A broadcast ends behind the last entry.
LEMMA BroadcastEnds ==
  ASSUME IInv, Next, NEW w \in Workers, pc[w] = "broadcast", pc'[w] = "saveSent"
  PROVE  ~ (idx[w] <= Len(clients))
<1> USE DEF At, Goto
<1>0. VarTypes
  BY DEF IInv, TypeOK
<1>1. ASSUME NEW v \in Workers, Sigpipe(v)
      PROVE  FALSE
  BY <1>1 DEF Sigpipe
<1>2. WorkerStep(w)
  BY <1>0, <1>1, OthersStay, OutsideStep DEF workerVars
<1>3. Broadcast(w)
  BY <1>1, <1>2, LockTaken
     DEF WorkerStep, Pop, RecvHello, SendWelcome, RecvAuth, CheckNick, Register, Refuse,
         SendInfo, DeliverOffline, RecvRequest, Lookup, FindTarget, SendPrivate, StoreOffline,
         SaveHistory, ListUsers, CollectHistory, SendAnswer, RemoveClient, CloseClient
<1> QED
  BY <1>3 DEF Broadcast

\* A send() to an open socket is in what its connection was sent.
LEMMA SendSent ==
  ASSUME VarTypes, NEW f \in Fds, NEW c \in Conns, sockOf[f] = c, NEW r \in Reply, Send(f, r)
  PROVE  Sent(c, r)'
<1>1. s2c' = [s2c EXCEPT ![c] = Append(@, r)]
  BY DEF Send
<1>2. s2c[c] \in Seq(Reply) /\ s2c'[c] = Append(s2c[c], r)
  BY <1>1 DEF VarTypes
<1>3. Len(s2c[c]) + 1 \in DOMAIN s2c'[c] /\ s2c'[c][Len(s2c[c]) + 1] = r
  BY <1>2, AppendElements
<1> QED
  BY <1>3 DEF Sent

\* Every client the broadcast has passed was sent the message, and the author is one.
LEMMA EchoedStep ==
  ASSUME IInv, OrderInv, Locks, Echoed, Next
  PROVE  Echoed'
<1>0. /\ VarTypes /\ LocalsSet /\ RegistryOwned /\ Streams /\ Handling /\ DescriptorsOwned
      /\ TypeOK
  BY DEF IInv, TypeOK, OrderInv
<1>1. ASSUME NEW w \in Workers, pc'[w] = "broadcast", NEW i \in DOMAIN clients', i < idx'[w]
      PROVE  Sent(sockOf[clients[i].sock], Text(msg[w]))'
  <2>0. idx'[w] # 1
    <3>1. clients' \in Seq(Client)
      BY StepIInv DEF IInv, TypeOK, VarTypes
    <3>2. i \in Nat \ {0}
      BY <3>1, LenProperties
    <3> QED
      BY <1>1, <3>2
  <2>1. /\ pc[w] = "broadcast" /\ msg'[w] = msg[w] /\ UNCHANGED clients
        /\ \/ idx'[w] = idx[w]
           \/ /\ idx'[w] = idx[w] + 1 /\ idx[w] \in DOMAIN clients
              /\ Send(clients[idx[w]].sock, Text(msg[w]))
    BY <1>1, <2>0, BroadcastCases
  <2>2. PICK m \in Msg : m = msg[w]
    BY <1>0, <2>1 DEF LocalsSet, RequestStages
  <2>3. PICK f \in Fds, c \in Conns :
          f = clients[i].sock /\ c = sockOf[f] /\ c = sockOf'[f]
    BY <1>1, <2>1, EntrySocket
  <2>4. CASE i < idx[w]
    <3>1. Sent(c, Text(m))
      <4>1. i \in DOMAIN clients
        BY <1>1, <2>1
      <4>2. Sent(sockOf[clients[i].sock], Text(msg[w]))
        BY <2>1, <2>4, <4>1 DEF Echoed
      <4> QED
        BY <2>2, <2>3, <4>2 DEF Sent
    <3>2. Sent(c, Text(m))'
      BY <3>1, SentKept
    <3> QED
      BY <2>1, <2>2, <2>3, <3>2 DEF Sent
  <2>5. CASE ~ (i < idx[w])
    <3>1. i = idx[w]
      <4>1. idx[w] \in Nat /\ i \in Nat
        BY <1>0, <1>1, <2>1, LenProperties DEF VarTypes
      <4> QED
        BY <1>1, <2>1, <2>5, <4>1
    <3>2. Send(f, Text(m))
      BY <1>1, <2>1, <2>2, <2>3, <2>5, <3>1
    <3>3. Sent(c, Text(m))'
      BY <1>0, <2>3, <3>2, SendSent, ReplyTypes
    <3> QED
      BY <2>1, <2>2, <2>3, <3>3 DEF Sent
  <2> QED
    BY <2>4, <2>5
<1>2. ASSUME NEW w \in Workers, pc'[w] = "saveSent", msg'[w].type = "TEXT"
      PROVE  Sent(msg[w].src, Text(msg[w]))'
  <2>1. HandlingGoesOn(w)
    <3>1. pc'[w] \in RequestStages
      BY <1>2 DEF RequestStages
    <3>2. \A t \in RequestTypes \cup {"HELLO", "AUTH", "BYE"} : Handler[t] # "saveSent"
      BY DEF Handler, RequestTypes
    <3>3. ~ HandlingBegins(w)
      BY <1>0, <1>2, <3>2, BeginsWith DEF HandlingBegins, Msg
    <3> QED
      BY <3>1, <3>3, HandlingCases
  <2>2. msg'[w] = msg[w] /\ pc[w] \in {"saveSent", "broadcast"}
    BY <1>0, <1>2, <2>1 DEF HandlingGoesOn, Handling, PendingStages, RequestStages
  <2>3. PICK m \in Msg, c \in Conns : m = msg[w] /\ c = m.src /\ c = sockOf[fd[w]]
    BY <1>0, <2>2, HasSocket DEF LocalsSet, RequestStages, Handling
  <2>4. CASE pc[w] = "saveSent"
    <3>1. Sent(c, Text(m))
      BY <1>2, <2>2, <2>3, <2>4 DEF Echoed
    <3>2. Sent(c, Text(m))'
      BY <3>1, SentKept
    <3> QED
      BY <2>2, <2>3, <3>2 DEF Sent
  <2>5. CASE pc[w] = "broadcast"
    <3>1. PICK i \in DOMAIN clients : clients[i].sock = fd[w]
      BY <1>0, <2>5 DEF RegistryOwned, InSession, SessionStages, Stages, Socks
    <3>2. i < idx[w]
      <4>1. ~ (idx[w] <= Len(clients))
        BY <1>2, <2>5, BroadcastEnds
      <4> QED
        BY <1>0, <3>1, <4>1, LenProperties DEF VarTypes
    <3>3. Sent(c, Text(m))
      BY <2>3, <2>5, <3>1, <3>2 DEF Echoed
    <3>4. Sent(c, Text(m))'
      BY <3>3, SentKept
    <3> QED
      BY <2>2, <2>3, <3>4 DEF Sent
  <2> QED
    BY <2>2, <2>4, <2>5
<1> QED
  BY <1>1, <1>2 DEF Echoed

\* A record of the history was there before, in a process that lives on, or is the one
\* that a worker saves.
LEMMA RecordCases ==
  ASSUME IInv, Next, NEW h \in Range(history')
  PROVE  /\ h \in Record /\ h.msg \in Msg
         /\ \/ h \in Range(history) /\ ~ \E w \in Workers : Sigpipe(w)
            \/ \E w \in Workers :
                 /\ SaveHistory(w) /\ pc[w] \in {"saveSent", "saveStored"} /\ h.msg = msg[w]
                 /\ h.is_offline <=> pc[w] = "saveStored"
<1>0. history \in Seq(Record)
  BY DEF IInv, TypeOK, VarTypes
<1>1. CASE UNCHANGED history
  <2>1. h \in Record
    BY <1>0, <1>1, ElementOfSeq, LenProperties DEF Range
  <2>2. ASSUME NEW w \in Workers, Sigpipe(w)
        PROVE  FALSE
    BY <1>1, <2>2 DEF Sigpipe, Range
  <2> QED
    BY <1>1, <2>1, <2>2 DEF Record
<1>2. CASE history' = <<>>
  BY <1>2 DEF Range
<1>3. ASSUME NEW w \in Workers, NEW r \in Record, SaveHistory(w),
             pc[w] \in {"saveSent", "saveStored"}, r.msg = msg[w],
             r.is_offline <=> pc[w] = "saveStored", history' = Append(history, r)
      PROVE  /\ h \in Record
             /\ h \in Range(history) \/ h = r
             /\ ~ \E v \in Workers : Sigpipe(v)
  <2>1. Range(history) \subseteq Record /\ Range(history') = Range(history) \cup {r}
    BY <1>0, <1>3, RangeAppend
  <2>2. ASSUME NEW v \in Workers, Sigpipe(v)
        PROVE  FALSE
    BY <1>3, <2>2 DEF Sigpipe, SaveHistory, At, ServerSame
  <2> QED
    BY <2>1, <2>2
<1> QED
  BY <1>1, <1>2, <1>3, HistoryCases DEF Record

\* What is recorded was echoed.
LEMMA AuthorEchoedStep ==
  ASSUME IInv, OrderInv, Echoed, AuthorEchoed, Next
  PROVE  AuthorEchoed'
<1>0. LocalsSet /\ Handling
  BY DEF IInv, TypeOK, OrderInv
<1>1. ASSUME NEW h \in Range(history'), h.msg.type = "TEXT"
      PROVE  Sent(h.msg.src, Text(h.msg))'
  <2>1. PICK m \in Msg : m = h.msg
    BY RecordCases
  <2>2. m.src \in Conns
    BY DEF Msg
  <2>3. Sent(m.src, Text(m))
    <3>1. CASE h \in Range(history)
      BY <1>1, <2>1, <3>1 DEF Range, AuthorEchoed
    <3>2. ASSUME NEW w \in Workers, pc[w] \in {"saveSent", "saveStored"}, m = msg[w]
          PROVE  Sent(m.src, Text(m))
      <4>1. pc[w] = "saveSent"
        BY <1>0, <1>1, <2>1, <3>2 DEF Handling, RequestStages
      <4> QED
        BY <1>1, <2>1, <3>2, <4>1 DEF Echoed
    <3> QED
      BY <2>1, <3>1, <3>2, RecordCases
  <2>4. Sent(m.src, Text(m))'
    BY <2>2, <2>3, SentKept
  <2> QED
    BY <2>1, <2>4 DEF Sent
<1> QED
  BY <1>1 DEF Range, AuthorEchoed

-----------------------------------------------------------------------------
(* The nickname. *)

\* What a client does: it connects, sends the one AUTH after its WELCOME, or sends what is
\* no AUTH; the nickname it typed does not change any more.
LEMMA ClientCases ==
  ASSUME IInv, Streams, Next, NEW c \in Conns
  PROVE  /\ c2s[c] \in Seq(Msg) /\ nextId[c] \in Nat
         /\ \/ /\ login'[c] = login[c] /\ nextId'[c] = nextId[c]
               /\ c2s'[c] = c2s[c] \/ (c2s[c] # <<>> /\ c2s'[c] = Tail(c2s[c]))
            \/ /\ peer[c] = "none" /\ login'[c] = login[c]
               /\ c2s'[c] = <<Hello(c)>> /\ nextId'[c] = 2
            \/ \E m \in Msg :
                 /\ c2s'[c] = Append(c2s[c], m) /\ nextId'[c] = nextId[c] + 1
                 /\ \/ /\ nextId[c] = 2 /\ s2c[c] # <<>> /\ Head(s2c[c]).type = "WELCOME"
                       /\ m.type = "AUTH" /\ m.name = login'[c]
                    \/ nextId[c] > 2 /\ login'[c] = login[c] /\ m.type # "AUTH"
<1> USE DEF At, sharedVars, workerVars, ServerSame, clientVars
<1>0. TypeOK /\ VarTypes /\ c2s[c] \in Seq(Msg) /\ nextId[c] \in Nat
  BY DEF IInv, TypeOK, VarTypes
<1> DEFINE Stays == /\ login'[c] = login[c] /\ nextId'[c] = nextId[c]
                    /\ c2s'[c] = c2s[c] \/ (c2s[c] # <<>> /\ c2s'[c] = Tail(c2s[c]))
           Opens == /\ peer[c] = "none" /\ login'[c] = login[c]
                    /\ c2s'[c] = <<Hello(c)>> /\ nextId'[c] = 2
           Asks(m) == /\ c2s'[c] = Append(c2s[c], m) /\ nextId'[c] = nextId[c] + 1
                      /\ \/ /\ nextId[c] = 2 /\ s2c[c] # <<>> /\ Head(s2c[c]).type = "WELCOME"
                            /\ m.type = "AUTH" /\ m.name = login'[c]
                         \/ nextId[c] > 2 /\ login'[c] = login[c] /\ m.type # "AUTH"
<1>1. ASSUME NEW w \in Workers, WorkerStep(w)
      PROVE  Stays
  <2>1. UNCHANGED login
    BY <1>1, LockTaken
       DEF WorkerStep, Pop, RecvHello, SendWelcome, RecvAuth, CheckNick, Register, Refuse,
           SendInfo, DeliverOffline, RecvRequest, Broadcast, Lookup, FindTarget, SendPrivate,
           StoreOffline, SaveHistory, ListUsers, CollectHistory, SendAnswer, RemoveClient,
           CloseClient, Sigpipe
  <2>2. UNCHANGED nextId
    BY <1>1, LockTaken
       DEF WorkerStep, Pop, RecvHello, SendWelcome, RecvAuth, CheckNick, Register, Refuse,
           SendInfo, DeliverOffline, RecvRequest, Broadcast, Lookup, FindTarget, SendPrivate,
           StoreOffline, SaveHistory, ListUsers, CollectHistory, SendAnswer, RemoveClient,
           CloseClient, Sigpipe
  <2>3. c2s'[c] = c2s[c] \/ (c2s[c] # <<>> /\ c2s'[c] = Tail(c2s[c]))
    BY <2>2, <1>0, OneStream DEF Streams
  <2> QED
    BY <2>1, <2>2, <2>3
<1>2. ASSUME NEW d \in Conns, NEW f \in Fds, Accept(d, f)
      PROVE  Stays \/ Opens
  BY <1>0, <1>2, AcceptOpens
<1>3. ASSUME NEW d \in Conns, ClientStep(d), d # c
      PROVE  Stays
  BY <1>0, <1>3 DEF ClientStep, ClientAuth, ClientRequest, ClientQuit, ClientClose, ClientRead,
                    ClientSend, VarTypes
<1>4. ASSUME ClientStep(c)
      PROVE  Stays \/ \E m \in Msg : Asks(m)
  <2>1. ASSUME NEW type \in {"AUTH", "BYE"} \cup RequestTypes, NEW name \in Names,
               NEW count \in Nat, ClientSend(c, type, name, count),
               \/ /\ nextId[c] = 2 /\ s2c[c] # <<>> /\ Head(s2c[c]).type = "WELCOME"
                  /\ type = "AUTH" /\ name = login'[c]
               \/ nextId[c] > 2 /\ login'[c] = login[c] /\ type # "AUTH"
        PROVE  \E m \in Msg : Asks(m)
    <3> DEFINE m == [type |-> type, src |-> c, id |-> nextId[c], name |-> name,
                     count |-> count]
    <3>1. m \in Msg
      BY <1>0 DEF Msg
    <3>2. Asks(m)
      BY <1>0, <2>1 DEF ClientSend, VarTypes
    <3> HIDE DEF m, Asks
    <3> QED
      BY <3>1, <3>2
  <2> HIDE DEF Asks, Stays
  <2>2. ASSUME NEW n \in Logins[c], ClientAuth(c, n)
        PROVE  \E m \in Msg : Asks(m)
    <3>1. n \in Names /\ 0 \in Nat
      OBVIOUS
    <3>2. /\ ClientSend(c, "AUTH", n, 0) /\ nextId[c] = 2 /\ s2c[c] # <<>>
          /\ Head(s2c[c]).type = "WELCOME" /\ n = login'[c]
      BY <1>0, <2>2 DEF ClientAuth, VarTypes
    <3> QED
      BY <2>1, <3>1, <3>2
  <2>3. ASSUME NEW r \in Requests[c], ClientRequest(c, r)
        PROVE  \E m \in Msg : Asks(m)
    <3>1. r \in [type : RequestTypes, name : Names, count : Nat]
      OBVIOUS
    <3>2. r.type \in RequestTypes /\ r.name \in Names /\ r.count \in Nat /\ r.type # "AUTH"
      BY <3>1 DEF RequestTypes
    <3>3. ClientSend(c, r.type, r.name, r.count) /\ nextId[c] > 2 /\ login'[c] = login[c]
      BY <2>3 DEF ClientRequest, InChat
    <3> QED
      BY <2>1, <3>2, <3>3
  <2>4. ASSUME ClientQuit(c)
        PROVE  \E m \in Msg : Asks(m)
    <3>1. /\ ClientSend(c, "BYE", None, 0) /\ None \in Names /\ 0 \in Nat
          /\ nextId[c] > 2 /\ login'[c] = login[c]
      BY <2>4 DEF ClientQuit, InChat
    <3> QED
      BY <2>1, <3>1
  <2>5. CASE ClientClose(c) \/ ClientRead(c)
    BY <2>5 DEF ClientClose, ClientRead, Stays
  <2> QED
    BY <1>4, <2>2, <2>3, <2>4, <2>5 DEF ClientStep
<1>5. ASSUME Restart PROVE Stays
  BY <1>5 DEF Restart
<1>6. Stays \/ Opens \/ \E m \in Msg : Asks(m)
  <2> HIDE DEF Stays, Opens, Asks
  <2> QED
    BY <1>1, <1>2, <1>3, <1>4, <1>5 DEF Next
<1> QED
  BY <1>0, <1>6

\* A client that has sent its AUTH keeps its nickname.
LEMMA LoginKept ==
  ASSUME IInv, Streams, Next, NEW c \in Conns, nextId[c] > 2
  PROVE  login'[c] = login[c] /\ nextId'[c] > 2
<1>1. peer[c] # "none" /\ nextId[c] # 2
  BY DEF Streams
<1> QED
  BY <1>1, ClientCases

\* The stages at which a worker knows the nickname its client has typed.
NamedStages == {"check", "register"} \cup SessionStages

\* The nickname of a worker, and of an AUTH on its way, is the one the client typed after
\* it had read its WELCOME.
Named ==
  /\ \A c \in Conns : nextId[c] > 2 => s2c[c] # <<>> /\ s2c[c][1] = Welcome
  /\ \A c \in Conns : \A m \in Range(c2s[c]) :
       /\ m.type # "HELLO" => nextId[c] > 2
       /\ m.type = "AUTH" => m.name = login[c]
  /\ \A w \in Workers : pc[w] \in NamedStages =>
       nextId[sockOf[fd[w]]] > 2 /\ nick[w] = login[sockOf[fd[w]]]

\* A worker learns the nickname from an AUTH, and keeps it.
LEMMA NamedCases ==
  ASSUME IInv, Next, NEW w \in Workers, pc'[w] \in NamedStages
  PROVE  /\ fd'[w] = fd[w] /\ pc[w] # "pop"
         /\ \/ /\ pc[w] \in NamedStages /\ nick'[w] = nick[w]
               /\ \/ pc'[w] \in {"check", "register", "info"}
                  \/ pc[w] \in SessionStages \ {"info"}
                  \/ pc[w] = "info" /\ SendInfo(w)
            \/ /\ pc[w] = "auth" /\ Receive(w) /\ Incoming(w).type = "AUTH"
               /\ nick'[w] = Incoming(w).name /\ pc'[w] = "check"
<1> USE DEF At, Goto, NamedStages, SessionStages, Stages
<1>0. VarTypes
  BY DEF IInv, TypeOK
<1>1. ASSUME NEW v \in Workers, Sigpipe(v)
      PROVE  FALSE
  BY <1>1 DEF Sigpipe
<1>2. CASE ~ WorkerStep(w)
  BY <1>0, <1>1, <1>2, OthersStay, OutsideStep DEF workerVars
<1>3. CASE RecvAuth(w)
  BY <1>0, <1>3 DEF RecvAuth, FirstVerdict, VarTypes
<1>4. CASE Pop(w) \/ RecvHello(w) \/ SendWelcome(w) \/ Refuse(w) \/ CloseClient(w)
           \/ RemoveClient(w)
  BY <1>0, <1>4 DEF Pop, RecvHello, SendWelcome, Refuse, CloseClient, RemoveClient, NextClient,
                    VarTypes
<1>5. CASE CheckNick(w) \/ Register(w) \/ SendInfo(w) \/ DeliverOffline(w)
  BY <1>0, <1>5, DeliverMoves DEF CheckNick, Register, SendInfo, AfterStage, VarTypes
<1>6. CASE RecvRequest(w) \/ Broadcast(w) \/ Lookup(w) \/ FindTarget(w) \/ SendPrivate(w)
           \/ StoreOffline(w)
  BY <1>0, <1>6 DEF RecvRequest, Broadcast, Lookup, FindTarget, SendPrivate, StoreOffline,
                    VarTypes
<1>7. CASE SaveHistory(w) \/ ListUsers(w) \/ CollectHistory(w) \/ SendAnswer(w)
  BY <1>0, <1>7 DEF SaveHistory, ListUsers, CollectHistory, SendAnswer, VarTypes
<1>8. CASE LockClients(w) \/ LockOffline(w)
  BY <1>8, LockTaken
<1> QED
  BY <1>1, <1>2, <1>3, <1>4, <1>5, <1>6, <1>7, <1>8 DEF WorkerStep

\* What a worker receives was in the stream of its client.
LEMMA IncomingInStream ==
  ASSUME IInv, NEW w \in Workers, pc[w] # "pop", Receive(w)
  PROVE  LET c == sockOf[fd[w]]
         IN  c \in Conns /\ Incoming(w) \in Msg /\ Incoming(w) \in Range(c2s[c])
<1>1. TypeOK /\ DescriptorsOwned
  BY DEF IInv
<1>2. PICK c \in Conns : c = sockOf[fd[w]]
  BY <1>1, HasSocket
<1>3. c2s[c] \in Seq(Msg) /\ c2s[c] # <<>>
  BY <1>1, <1>2 DEF Receive, TypeOK, VarTypes
<1>4. 1 \in DOMAIN c2s[c] /\ Incoming(w) = c2s[c][1]
  BY <1>2, <1>3, TailElements DEF Incoming
<1> QED
  BY <1>1, <1>2, <1>4, ReceiveTypes DEF Range

\* A nickname is known from the one AUTH on.
LEMMA NamedStep ==
  ASSUME IInv, Streams, Named, Next
  PROVE  Named'
<1>0. TypeOK /\ VarTypes /\ DescriptorsOwned
  BY DEF IInv, TypeOK
<1>1. ASSUME NEW c \in Conns, nextId'[c] > 2
      PROVE  s2c'[c] # <<>> /\ s2c'[c][1] = Welcome
  <2>1. s2c[c] \in Seq(Reply) /\ s2c[c] # <<>> /\ s2c[c][1] = Welcome
    <3>1. s2c[c] \in Seq(Reply)
      BY <1>0 DEF VarTypes
    <3>2. CASE nextId[c] > 2
      BY <3>1, <3>2 DEF Named
    <3>3. CASE s2c[c] # <<>> /\ Head(s2c[c]).type = "WELCOME"
      <4>1. s2c[c][1] \in Reply /\ s2c[c][1].type = "WELCOME"
        BY <3>1, <3>3, HeadTailProperties
      <4>2. s2c[c][1] = Welcome
        BY <4>1 DEF Reply, Welcome
      <4> QED
        BY <3>1, <3>3, <4>2
    <3> QED
      BY <1>1, <3>2, <3>3, ClientCases
  <2>2. 1 \in DOMAIN s2c[c]
    BY <2>1, TailElements
  <2>3. 1 \in DOMAIN s2c'[c] /\ s2c'[c][1] = Welcome
    BY <2>1, <2>2, SentCases
  <2> QED
    BY <2>3
<1>2. ASSUME NEW c \in Conns, NEW m \in Range(c2s'[c])
      PROVE  /\ m.type # "HELLO" => nextId'[c] > 2
             /\ m.type = "AUTH" => m.name = login'[c]
  <2>1. CASE m \in Range(c2s[c])
    <3>1. m.type # "HELLO" => nextId[c] > 2
      BY <2>1 DEF Named
    <3>2. m.type = "AUTH" => m.name = login[c]
      BY <2>1 DEF Named
    <3> QED
      BY <3>1, <3>2, LoginKept
  <2>2. CASE m \notin Range(c2s[c])
    <3>1. c2s[c] \in Seq(Msg)
      BY ClientCases
    <3>2. c2s'[c] # Tail(c2s[c]) \/ c2s[c] = <<>>
      BY <1>2, <2>2, <3>1, RangeTail
    <3>3. ASSUME NEW n \in Msg, c2s'[c] = Append(c2s[c], n)
          PROVE  m = n
      BY <1>2, <2>2, <3>1, <3>3, RangeAppend
    <3>4. CASE c2s'[c] = <<Hello(c)>>
      BY <1>2, <3>4 DEF Range, Hello
    <3> QED
      BY <1>2, <2>2, <3>2, <3>3, <3>4, ClientCases
  <2> QED
    BY <2>1, <2>2
<1>3. ASSUME NEW w \in Workers, pc'[w] \in NamedStages
      PROVE  nextId'[sockOf'[fd'[w]]] > 2 /\ nick'[w] = login'[sockOf'[fd'[w]]]
  <2>1. fd'[w] = fd[w] /\ pc[w] # "pop" /\ fd[w] # None
    BY <1>0, <1>3, NamedCases, HasSocket
  <2>2. PICK c \in Conns : c = sockOf[fd[w]] /\ c = sockOf'[fd'[w]]
    BY <2>1, SocketKept
  <2>3. nextId[c] > 2 /\ nick'[w] = login[c]
    <3>1. CASE pc[w] \in NamedStages /\ nick'[w] = nick[w]
      BY <2>2, <3>1 DEF Named
    <3>2. CASE Receive(w) /\ Incoming(w).type = "AUTH" /\ nick'[w] = Incoming(w).name
      BY <2>1, <2>2, <3>2, IncomingInStream DEF Named
    <3> QED
      BY <1>3, <3>1, <3>2, NamedCases
  <2> QED
    BY <2>2, <2>3, LoginKept
<1> QED
  BY <1>1, <1>2, <1>3 DEF Named

-----------------------------------------------------------------------------
(* Store and forward. *)

\* What is stored under a nickname is addressed to it.
Addressed == \A n \in Names : \A m \in Range(offline[n]) : m.name = n

\* What the queues do: a message is stored, a worker that is through a queue clears it, or
\* all are lost with the process.
LEMMA OfflineCases ==
  ASSUME IInv, Next
  PROVE  \/ UNCHANGED offline
         \/ \E w \in Workers :
              /\ StoreOffline(w) /\ pc[w] = "store" /\ offlineLock = None
              /\ msg[w] \in Msg /\ msg[w].name \in Names
              /\ offline' = [offline EXCEPT ![msg[w].name] = Append(@, msg[w])]
         \/ \E w \in Workers :
              /\ DeliverOffline(w) /\ pc[w] = "drain" /\ Holds(offlineLock, w)
              /\ nick[w] \in Names /\ ~ (idx[w] <= Len(offline[nick[w]]))
              /\ offline' = [offline EXCEPT ![nick[w]] = <<>>]
         \/ /\ \E w \in Workers : Sigpipe(w)
            /\ offline' = [n \in Names |-> <<>>]
<1> USE DEF At
<1>0. VarTypes /\ LocalsSet
  BY DEF IInv, TypeOK
<1>1. ASSUME NEW w \in Workers, WorkerStep(w), ~ StoreOffline(w), ~ DeliverOffline(w),
             ~ Sigpipe(w)
      PROVE  UNCHANGED offline
  BY <1>1, LockTaken
     DEF WorkerStep, Pop, RecvHello, SendWelcome, RecvAuth, CheckNick, Register, Refuse,
         SendInfo, RecvRequest, Broadcast, Lookup, FindTarget, SendPrivate, SaveHistory,
         ListUsers, CollectHistory, SendAnswer, RemoveClient, CloseClient, sharedVars
<1>2. ASSUME NEW w \in Workers, StoreOffline(w)
      PROVE  /\ pc[w] = "store" /\ offlineLock = None
             /\ msg[w] \in Msg /\ msg[w].name \in Names
             /\ offline' = [offline EXCEPT ![msg[w].name] = Append(@, msg[w])]
  BY <1>0, <1>2 DEF StoreOffline, Enqueue, LocalsSet, RequestStages, Msg
<1>3. ASSUME NEW w \in Workers, DeliverOffline(w)
      PROVE  \/ UNCHANGED offline
             \/ /\ pc[w] = "drain" /\ Holds(offlineLock, w)
                /\ nick[w] \in Names /\ ~ (idx[w] <= Len(offline[nick[w]]))
                /\ offline' = [offline EXCEPT ![nick[w]] = <<>>]
  BY <1>0, <1>3 DEF DeliverOffline, Cleared, VarTypes
<1>4. ASSUME NEW w \in Workers, Sigpipe(w)
      PROVE  offline' = [n \in Names |-> <<>>]
  BY <1>4 DEF Sigpipe
<1> QED
  BY <1>1, <1>2, <1>3, <1>4, OutsideStep

\* A message is stored under the nickname it is addressed to.
LEMMA AddressedStep ==
  ASSUME IInv, Addressed, Next
  PROVE  Addressed'
<1>0. offline \in [Names -> Seq(Msg)]
  BY DEF IInv, TypeOK, VarTypes
<1>1. ASSUME NEW n \in Names, NEW m \in Range(offline'[n])
      PROVE  m.name = n
  <2>1. m \notin Range(<<>>)
    BY DEF Range
  <2>2. CASE offline'[n] = offline[n]
    BY <1>1, <2>2 DEF Addressed
  <2>3. ASSUME NEW p \in Msg, p.name \in Names,
               offline' = [offline EXCEPT ![p.name] = Append(@, p)]
        PROVE  m.name = n
    <3>1. CASE n = p.name
      <4>1. Range(offline'[n]) = Range(offline[n]) \cup {p}
        BY <1>0, <2>3, <3>1, RangeAppend
      <4> QED
        BY <1>1, <3>1, <4>1 DEF Addressed
    <3>2. CASE n # p.name
      BY <1>0, <2>2, <2>3, <3>2
    <3> QED
      BY <3>1, <3>2
  <2>4. ASSUME NEW p \in Names, offline' = [offline EXCEPT ![p] = <<>>]
        PROVE  m.name = n
    BY <1>0, <1>1, <2>1, <2>2, <2>4
  <2>5. CASE offline' = [p \in Names |-> <<>>]
    BY <1>1, <2>1, <2>5
  <2> QED
    BY <2>2, <2>3, <2>4, <2>5, OfflineCases
<1> QED
  BY <1>1 DEF Addressed

\* A client in the chat has been sent WELCOME and its SERVER_INFO; what was stored comes
\* after both, and goes to a client that logged in under the nickname it is addressed to.
Greeted ==
  /\ \A w \in Workers : pc[w] \in SessionStages \ {"info"} => Len(s2c[sockOf[fd[w]]]) >= 2
  /\ \A c \in Conns : \A k \in DOMAIN s2c[c] :
       s2c[c][k].type = "PRIVATE" /\ s2c[c][k].offline =>
         k > 2 /\ nextId[c] > 2 /\ s2c[c][k].msg.name = login[c]

\* A stage sends one type of reply.
LEMMA TypeSent ==
  ASSUME Answering, NEW w \in Workers, NEW f \in Fds, NEW r \in Reply, Sends(w, f, r)
  PROVE  \/ r.type \in {"WELCOME", "ERROR", "SERVER_INFO", "PONG"}
         \/ r.type = "TEXT" /\ Broadcast(w) /\ pc[w] = "broadcast" /\ r = Text(msg[w])
         \/ /\ r.type = "PRIVATE" /\ SendPrivate(w) /\ pc[w] = "private"
            /\ r = Private(msg[w], FALSE)
         \/ /\ r.type = "PRIVATE" /\ DeliverOffline(w) /\ pc[w] = "drain" /\ f = fd[w]
            /\ idx[w] \in DOMAIN offline[nick[w]]
            /\ r = Private(offline[nick[w]][idx[w]], TRUE)
         \/ /\ r.type = "HISTORY_DATA" /\ SendAnswer(w) /\ pc[w] = "answer"
            /\ f = fd[w] /\ r = reply[w]
<1>1. CASE pc[w] = "answer" /\ r = reply[w] /\ SendAnswer(w) /\ f = fd[w]
  BY <1>1 DEF Answering
<1>2. CASE r = Welcome \/ r = Error \/ r = ServerInfo(<<>>)
  <2>1. r.type \in {"WELCOME", "ERROR", "SERVER_INFO"}
    BY <1>2 DEF Welcome, Error, ServerInfo
  <2> QED
    BY <2>1
<1>3. CASE SendPrivate(w) /\ pc[w] = "private" /\ r = Private(msg[w], FALSE)
  <2>1. r.type = "PRIVATE"
    BY <1>3 DEF Private
  <2> QED
    BY <1>3, <2>1
<1>4. CASE /\ DeliverOffline(w) /\ pc[w] = "drain" /\ f = fd[w]
           /\ idx[w] \in DOMAIN offline[nick[w]]
           /\ r = Private(offline[nick[w]][idx[w]], TRUE)
  <2>1. r.type = "PRIVATE"
    BY <1>4 DEF Private
  <2> QED
    BY <1>4, <2>1
<1>5. CASE Broadcast(w) /\ pc[w] = "broadcast" /\ r = Text(msg[w])
  BY <1>5 DEF Text
<1> QED
  BY <1>1, <1>2, <1>3, <1>4, <1>5 DEF Sends

\* A chat message is sent by a broadcast, ...
LEMMA TextSends ==
  ASSUME Answering, NEW w \in Workers, NEW f \in Fds, NEW r \in Reply, Sends(w, f, r),
         r.type = "TEXT"
  PROVE  Broadcast(w) /\ pc[w] = "broadcast" /\ r = Text(msg[w])
BY TypeSent

\* ... and the history by the worker that was asked for it.
LEMMA HistorySends ==
  ASSUME Answering, NEW w \in Workers, NEW f \in Fds, NEW r \in Reply, Sends(w, f, r),
         r.type = "HISTORY_DATA"
  PROVE  SendAnswer(w) /\ pc[w] = "answer" /\ f = fd[w] /\ r = reply[w]
BY TypeSent

\* The two ways to send a private message: live, and from the queue.
Whispers(w, m) ==
  /\ SendPrivate(w) /\ pc[w] = "private" /\ m = msg[w] /\ msg[w] \in Msg

Delivers(w, c, m) ==
  /\ DeliverOffline(w) /\ pc[w] = "drain" /\ Holds(offlineLock, w)
  /\ fd[w] \in Fds /\ sockOf[fd[w]] = c /\ nick[w] \in Names
  /\ idx[w] \in DOMAIN offline[nick[w]] /\ m = offline[nick[w]][idx[w]] /\ m \in Msg
  /\ idx' = [idx EXCEPT ![w] = @ + 1] /\ UNCHANGED <<pc, nick, fd, sockOf, offline>>

\* A private message is sent in one of them.
LEMMA PrivateSends ==
  ASSUME IInv, Answering, NEW w \in Workers, NEW f \in Fds, NEW r \in Reply, Sends(w, f, r),
         r.type = "PRIVATE"
  PROVE  \/ Whispers(w, r.msg) /\ r.offline = FALSE
         \/ Delivers(w, sockOf[f], r.msg) /\ r.offline = TRUE
<1>0. VarTypes /\ LocalsSet
  BY DEF IInv, TypeOK
<1>1. CASE SendPrivate(w) /\ pc[w] = "private" /\ r = Private(msg[w], FALSE)
  <2>1. r.offline = FALSE /\ r.msg = msg[w]
    BY <1>1 DEF Private
  <2>2. msg[w] \in Msg
    BY <1>0, <1>1 DEF LocalsSet, RequestStages
  <2> QED
    BY <1>1, <2>1, <2>2 DEF Whispers
<1>2. CASE /\ DeliverOffline(w) /\ pc[w] = "drain" /\ f = fd[w]
           /\ idx[w] \in DOMAIN offline[nick[w]]
           /\ r = Private(offline[nick[w]][idx[w]], TRUE)
  <2>1. nick[w] \in Names /\ offline[nick[w]] \in Seq(Msg)
    BY <1>0 DEF VarTypes
  <2>2. idx[w] <= Len(offline[nick[w]]) /\ offline[nick[w]][idx[w]] \in Msg
    BY <1>2, <2>1, LenProperties, ElementOfSeq
  <2>3. /\ Holds(offlineLock, w) /\ idx' = [idx EXCEPT ![w] = @ + 1]
        /\ UNCHANGED <<pc, nick, fd, sockOf, offline>>
    BY <1>2, <2>2 DEF DeliverOffline
  <2>4. r.offline = TRUE /\ r.msg = offline[nick[w]][idx[w]]
    BY <1>2 DEF Private
  <2> QED
    BY <1>2, <2>1, <2>2, <2>3, <2>4 DEF Delivers
<1> QED
  BY <1>1, <1>2, TypeSent

\* Who is in the chat was greeted before.
LEMMA GreetedStep ==
  ASSUME IInv, Streams, Named, Answering, Addressed, Greeted, Next
  PROVE  Greeted'
<1>0. TypeOK /\ VarTypes /\ DescriptorsOwned
  BY DEF IInv, TypeOK
<1>1. ASSUME NEW w \in Workers, pc'[w] \in SessionStages \ {"info"}
      PROVE  Len(s2c'[sockOf'[fd'[w]]]) >= 2
  <2>0. pc'[w] \in NamedStages /\ pc'[w] \notin {"check", "register", "info"}
    BY <1>1 DEF NamedStages, SessionStages
  <2>1. fd'[w] = fd[w] /\ pc[w] # "pop" /\ fd[w] # None
    BY <1>0, <2>0, NamedCases, HasSocket
  <2>2. PICK c \in Conns : c = sockOf[fd[w]] /\ c = sockOf'[fd'[w]] /\ fd[w] \in Fds
    BY <2>1, SocketKept
  <2>3. /\ Len(s2c[c]) \in Nat /\ Len(s2c'[c]) \in Nat /\ Len(s2c[c]) <= Len(s2c'[c])
        /\ s2c[c] \in Seq(Reply)
    BY SentCases
  <2>4. CASE pc[w] \in SessionStages \ {"info"}
    <3>1. Len(s2c[c]) >= 2
      BY <2>2, <2>4 DEF Greeted
    <3> QED
      BY <2>2, <2>3, <3>1
  <2>5. CASE pc[w] = "info" /\ SendInfo(w)
    <3>1. s2c[c] # <<>>
      BY <2>2, <2>5 DEF Named, NamedStages, SessionStages, Stages
    <3>2. Len(s2c[c]) # 0
      BY <2>3, <3>1, EmptySeq
    <3>3. s2c'[c] = Append(s2c[c], ServerInfo(<<>>)) /\ ServerInfo(<<>>) \in Reply
      <4>1. Send(fd[w], ServerInfo(<<>>)) /\ ServerInfo(<<>>) \in Reply
        BY <2>5, ReplyTypes, EmptySeq DEF SendInfo
      <4>2. s2c' = [s2c EXCEPT ![c] = Append(@, ServerInfo(<<>>))]
        BY <2>2, <4>1 DEF Send
      <4> QED
        BY <1>0, <4>1, <4>2 DEF VarTypes
    <3>4. Len(s2c'[c]) = Len(s2c[c]) + 1
      BY <2>3, <3>3, AppendElements
    <3> QED
      BY <2>2, <2>3, <3>2, <3>4
  <2> QED
    BY <2>0, <2>4, <2>5, NamedCases
<1>2. ASSUME NEW c \in Conns, NEW k \in DOMAIN s2c'[c], s2c'[c][k].type = "PRIVATE",
             s2c'[c][k].offline
      PROVE  k > 2 /\ nextId'[c] > 2 /\ s2c'[c][k].msg.name = login'[c]
  <2>1. k > 2 /\ nextId[c] > 2 /\ s2c'[c][k].msg.name = login[c]
    <3>1. CASE k \in DOMAIN s2c[c]
      BY <1>2, <3>1, SentCases DEF Greeted
    <3>2. CASE k \notin DOMAIN s2c[c]
      <4>1. PICK r \in Reply : r = s2c'[c][k]
        BY <1>2, <3>2, SentCases DEF Sends
      <4>2. k = Len(s2c[c]) + 1 /\ Len(s2c[c]) \in Nat
        BY <1>2, <3>2, SentCases
      <4>3. PICK w \in Workers, f \in Fds : sockOf[f] = c /\ Sends(w, f, r)
        BY <1>2, <3>2, <4>1, SentCases
      <4>4. /\ pc[w] = "drain" /\ sockOf[fd[w]] = c /\ nick[w] \in Names
            /\ idx[w] \in DOMAIN offline[nick[w]] /\ r.msg = offline[nick[w]][idx[w]]
        <5>1. r.type = "PRIVATE" /\ r.offline
          BY <1>2, <4>1
        <5>2. Delivers(w, sockOf[f], r.msg)
          BY <4>3, <5>1, PrivateSends
        <5> QED
          BY <4>3, <5>2 DEF Delivers
      <4>5. r.msg.name = nick[w]
        BY <4>4 DEF Addressed, Range
      <4>6. Len(s2c[c]) >= 2 /\ nextId[c] > 2 /\ nick[w] = login[c]
        BY <4>3, <4>4 DEF Greeted, Named, NamedStages, SessionStages, Stages
      <4> QED
        BY <4>1, <4>2, <4>5, <4>6
    <3> QED
      BY <3>1, <3>2
  <2> QED
    BY <2>1, LoginKept
<1> QED
  BY <1>1, <1>2 DEF Greeted

\* Where a message is that was stored: in the queue of its receiver, or sent to a client
\* that logged in under that nickname.
Kept(m) ==
  \/ m \in Range(offline[m.name])
  \/ \E c \in Conns : login[c] = m.name /\ Sent(c, Private(m, TRUE))

\* What a delivery has passed was sent; what a worker says was stored is kept.
Conserved ==
  /\ \A w \in Workers : pc[w] = "drain" =>
       \A k \in DOMAIN offline[nick[w]] :
         k < idx[w] => Sent(sockOf[fd[w]], Private(offline[nick[w]][k], TRUE))
  /\ \A w \in Workers : pc[w] = "saveStored" => Kept(msg[w])

\* A worker's position in a queue: at the start, where it was, or one further on; while
\* it is not at the start nobody changes a queue.
LEMMA DrainCases ==
  ASSUME IInv, Locks, Next, NEW w \in Workers, pc'[w] = "drain"
  PROVE  /\ fd'[w] = fd[w] /\ nick'[w] = nick[w] /\ pc[w] # "pop"
         /\ \/ idx'[w] = 1
            \/ /\ pc[w] = "drain" /\ UNCHANGED offline
               /\ \/ idx'[w] = idx[w]
                  \/ /\ idx'[w] = idx[w] + 1 /\ idx[w] \in DOMAIN offline[nick[w]]
                     /\ Send(fd[w], Private(offline[nick[w]][idx[w]], TRUE))
<1> USE DEF At, Goto
<1>0. VarTypes
  BY DEF IInv, TypeOK
<1>1. ASSUME NEW v \in Workers, Sigpipe(v)
      PROVE  FALSE
  BY <1>1 DEF Sigpipe
<1>2. fd'[w] = fd[w] /\ nick'[w] = nick[w] /\ pc[w] # "pop"
  BY NamedCases DEF NamedStages, SessionStages, Stages
<1>3. CASE DeliverOffline(w)
  <2>1. pc[w] = "drain" /\ nick[w] \in Names /\ offline[nick[w]] \in Seq(Msg)
    BY <1>0, <1>3 DEF DeliverOffline, VarTypes
  <2>2. idx[w] <= Len(offline[nick[w]]) => idx[w] \in DOMAIN offline[nick[w]]
    BY <1>0, <2>1, LenProperties DEF VarTypes
  <2>3. CASE idx[w] <= Len(offline[nick[w]])
    BY <1>0, <1>2, <1>3, <2>1, <2>2, <2>3 DEF DeliverOffline, VarTypes
  <2>4. CASE ~ (idx[w] <= Len(offline[nick[w]]))
    BY <1>0, <1>2, <1>3, <2>4 DEF DeliverOffline, VarTypes
  <2> QED
    BY <2>3, <2>4
<1>4. CASE WorkerStep(w) /\ ~ DeliverOffline(w)
  <2>0. ~ RecvRequest(w)
    <3>1. \A t \in RequestTypes \cup {"HELLO", "AUTH", "BYE"} : Handler[t] # "drain"
      BY DEF Handler, RequestTypes
    <3>2. ASSUME Receive(w), pc[w] = "recv"
          PROVE  Incoming(w).type \in RequestTypes \cup {"HELLO", "AUTH", "BYE"}
      BY <3>2, ReceiveTypes DEF IInv, Msg
    <3> QED
      BY <1>0, <3>1, <3>2 DEF RecvRequest, VarTypes
  <2>1. ~ (\/ Pop(w) \/ RecvHello(w) \/ SendWelcome(w) \/ RecvAuth(w) \/ CheckNick(w)
          \/ Refuse(w) \/ CloseClient(w) \/ RemoveClient(w))
    BY <1>0 DEF Pop, RecvHello, SendWelcome, RecvAuth, FirstVerdict, CheckNick, Refuse,
         CloseClient, RemoveClient, NextClient, VarTypes
  <2>2. ~ (LockClients(w) \/ Broadcast(w) \/ Lookup(w) \/ FindTarget(w) \/ SendPrivate(w))
    BY <1>0 DEF LockClients, workerVars, Broadcast, Lookup, FindTarget, SendPrivate, VarTypes
  <2>3. ~ (\/ StoreOffline(w) \/ SaveHistory(w) \/ ListUsers(w) \/ CollectHistory(w)
          \/ SendAnswer(w))
    BY <1>0 DEF StoreOffline, SaveHistory, ListUsers, CollectHistory, SendAnswer, VarTypes
  <2>4. SendInfo(w) \/ Register(w) \/ LockOffline(w)
    BY <1>1, <1>4, <2>0, <2>1, <2>2, <2>3 DEF WorkerStep
  <2>5. CASE SendInfo(w) \/ Register(w)
    <3>1. idx'[w] = idx[w] /\ pc[w] \in {"info", "register"}
      BY <2>5 DEF SendInfo, Register
    <3> QED
      BY <1>2, <3>1 DEF Locks
  <2>6. CASE LockOffline(w)
    BY <1>2, <2>6 DEF LockOffline, workerVars
  <2> QED
    BY <2>4, <2>5, <2>6
<1>5. CASE ~ WorkerStep(w)
  <2>1. pc'[w] = pc[w] /\ idx'[w] = idx[w]
    BY <1>0, <1>1, <1>5, OthersStay, OutsideStep DEF workerVars
  <2>2. idx[w] # 1 => offlineLock = w
    BY <2>1 DEF Locks
  <2>3. idx[w] # 1 => UNCHANGED offline
    BY <1>1, <1>5, <2>2, OfflineCases DEF Holds, WorkerStep
  <2> QED
    BY <1>2, <2>1, <2>3
<1> QED
  BY <1>3, <1>4, <1>5

\* A message that was stored is not lost as long as the process lives.
LEMMA KeptOn ==
  ASSUME IInv, Streams, Named, Greeted, Conserved, Next,
         ~ \E w \in Workers : Sigpipe(w), NEW m \in Msg, Kept(m)
  PROVE  Kept(m)'
<1>0. TypeOK /\ VarTypes /\ DescriptorsOwned /\ offline \in [Names -> Seq(Msg)] /\ m.name \in Names
  BY DEF IInv, TypeOK, VarTypes, Msg
<1>1. ASSUME NEW c \in Conns, login[c] = m.name, nextId[c] > 2, Sent(c, Private(m, TRUE))
      PROVE  Kept(m)'
  <2>1. login'[c] = m.name /\ Sent(c, Private(m, TRUE))'
    BY <1>1, LoginKept, SentKept
  <2> QED
    BY <2>1 DEF Kept
<1>2. ASSUME NEW c \in Conns, login[c] = m.name, Sent(c, Private(m, TRUE))
      PROVE  Kept(m)'
  <2>1. nextId[c] > 2
    BY <1>2 DEF Sent, Private, Greeted
  <2> QED
    BY <1>1, <1>2, <2>1
<1>3. CASE m \in Range(offline[m.name])
  <2>1. CASE UNCHANGED offline
    BY <1>3, <2>1 DEF Kept
  <2>2. ASSUME NEW p \in Msg, p.name \in Names,
               offline' = [offline EXCEPT ![p.name] = Append(@, p)]
        PROVE  Kept(m)'
    <3>1. m \in Range(offline'[m.name])
      <4>1. CASE p.name = m.name
        BY <1>0, <1>3, <2>2, <4>1, RangeAppend
      <4>2. CASE p.name # m.name
        BY <1>0, <1>3, <2>2, <4>2
      <4> QED
        BY <4>1, <4>2
    <3> QED
      BY <3>1 DEF Kept
  <2>3. ASSUME NEW w \in Workers, pc[w] = "drain", nick[w] \in Names,
               ~ (idx[w] <= Len(offline[nick[w]])), offline' = [offline EXCEPT ![nick[w]] = <<>>]
        PROVE  Kept(m)'
    <3>1. CASE nick[w] # m.name
      <4>1. offline'[m.name] = offline[m.name]
        BY <1>0, <2>3, <3>1
      <4> QED
        BY <1>3, <4>1 DEF Kept
    <3>2. CASE nick[w] = m.name
      <4>1. PICK k \in DOMAIN offline[m.name] : offline[m.name][k] = m
        BY <1>3 DEF Range
      <4>2. k < idx[w]
        <5>1. k \in 1..Len(offline[m.name]) /\ Len(offline[m.name]) \in Nat
          BY <1>0, LenProperties
        <5> QED
          BY <1>0, <2>3, <3>2, <5>1 DEF VarTypes
      <4>3. PICK c \in Conns : c = sockOf[fd[w]]
        BY <1>0, <2>3, HasSocket
      <4>4. Sent(sockOf[fd[w]], Private(offline[nick[w]][k], TRUE))
        BY <2>3, <3>2, <4>1, <4>2 DEF Conserved
      <4>5. Sent(c, Private(m, TRUE))
        BY <3>2, <4>1, <4>3, <4>4 DEF Sent
      <4>6. login[c] = m.name
        BY <2>3, <3>2, <4>3 DEF Named, NamedStages, SessionStages, Stages
      <4> QED
        BY <1>2, <4>5, <4>6
    <3> QED
      BY <3>1, <3>2
  <2> QED
    BY <2>1, <2>2, <2>3, OfflineCases
<1> QED
  BY <1>2, <1>3 DEF Kept

\* A worker says that it stored a message only after it did.
LEMMA StoredByStore ==
  ASSUME IInv, Handling, Next, NEW w \in Workers, pc'[w] = "saveStored"
  PROVE  /\ msg'[w] = msg[w] /\ pc[w] \in RequestStages
         /\ pc[w] = "saveStored" \/ (pc[w] = "store" /\ StoreOffline(w))
         /\ ~ \E v \in Workers : Sigpipe(v)
<1> USE DEF At, Goto
<1>0. VarTypes
  BY DEF IInv, TypeOK
<1>1. ASSUME NEW v \in Workers, Sigpipe(v)
      PROVE  FALSE
  BY <1>1 DEF Sigpipe
<1>2. HandlingGoesOn(w)
  <2>1. \A t \in RequestTypes \cup {"HELLO", "AUTH", "BYE"} : Handler[t] # "saveStored"
    BY DEF Handler, RequestTypes
  <2>2. ASSUME HandlingBegins(w)
        PROVE  FALSE
    <3>1. Incoming(w).type \in RequestTypes \cup {"HELLO", "AUTH", "BYE"}
      BY <2>2, ReceiveTypes DEF HandlingBegins, IInv, Msg
    <3> QED
      BY <2>1, <2>2, <3>1 DEF HandlingBegins
  <2>3. pc'[w] \in RequestStages
    BY DEF RequestStages
  <2> QED
    BY <2>2, <2>3, HandlingCases
<1>3. CASE ~ WorkerStep(w)
  <2>1. pc'[w] = pc[w]
    BY <1>0, <1>1, <1>3, OthersStay, OutsideStep DEF workerVars
  <2> QED
    BY <1>1, <1>2, <2>1 DEF HandlingGoesOn
<1>4. CASE WorkerStep(w)
  <2>1. CASE StoreOffline(w)
    BY <1>1, <1>2, <2>1 DEF StoreOffline, HandlingGoesOn
  <2>2. CASE ~ StoreOffline(w)
    <3>1. pc[w] \in RequestStages
      BY <1>2 DEF HandlingGoesOn
    <3> QED
      BY <1>0, <1>1, <1>4, <2>2, <3>1, LockTaken
         DEF RequestStages, WorkerStep, Pop, RecvHello, SendWelcome, RecvAuth, CheckNick,
             Register, Refuse, SendInfo, DeliverOffline, RecvRequest, Broadcast, Lookup,
             FindTarget, SendPrivate, SaveHistory, ListUsers, CollectHistory, SendAnswer,
             RemoveClient, CloseClient, VarTypes
  <2> QED
    BY <2>1, <2>2
<1> QED
  BY <1>3, <1>4

\* What is delivered is sent before it is dropped, and what is stored is kept.
LEMMA ConservedStep ==
  ASSUME IInv, OrderInv, Locks, Named, Greeted, Conserved, Next
  PROVE  Conserved'
<1>0. TypeOK /\ VarTypes /\ LocalsSet /\ DescriptorsOwned /\ Streams /\ Handling
  BY DEF IInv, TypeOK, OrderInv
<1>1. ASSUME NEW w \in Workers, pc'[w] = "drain", NEW k \in DOMAIN offline'[nick'[w]],
             k < idx'[w]
      PROVE  Sent(sockOf[fd[w]], Private(offline[nick[w]][k], TRUE))'
  <2>1. nick'[w] \in Names /\ offline'[nick'[w]] \in Seq(Msg)
    BY StepIInv DEF IInv, TypeOK, VarTypes
  <2>2. idx'[w] # 1
    BY <1>1, <2>1, LenProperties
  <2>3. /\ fd'[w] = fd[w] /\ nick'[w] = nick[w] /\ pc[w] = "drain" /\ UNCHANGED offline
        /\ \/ idx'[w] = idx[w]
           \/ /\ idx'[w] = idx[w] + 1 /\ idx[w] \in DOMAIN offline[nick[w]]
              /\ Send(fd[w], Private(offline[nick[w]][idx[w]], TRUE))
    BY <1>1, <2>2, DrainCases
  <2>4. PICK n \in Names : n = nick[w] /\ offline[n] \in Seq(Msg)
    BY <2>1, <2>3
  <2>5. k \in DOMAIN offline[n] /\ k \in Nat
    BY <1>1, <2>3, <2>4, LenProperties
  <2>6. PICK m \in Msg : m = offline[n][k]
    BY <2>4, <2>5, ElementOfSeq, LenProperties
  <2>7. PICK c \in Conns : c = sockOf[fd[w]] /\ c = sockOf'[fd'[w]] /\ fd[w] \in Fds
    BY <1>0, <2>3, HasSocket, SocketKept
  <2>8. Sent(c, Private(m, TRUE))'
    <3>1. CASE k < idx[w]
      <4>1. Sent(sockOf[fd[w]], Private(offline[nick[w]][k], TRUE))
        BY <2>3, <2>4, <2>5, <3>1 DEF Conserved
      <4>2. Sent(c, Private(m, TRUE))
        BY <2>4, <2>6, <2>7, <4>1 DEF Sent
      <4> QED
        BY <4>2, SentKept
    <3>2. CASE ~ (k < idx[w])
      <4>1. PICK j \in Nat : j = idx[w]
        BY <1>0 DEF VarTypes
      <4>2. k < idx'[w] /\ ~ (k < j) /\ (idx'[w] = j \/ idx'[w] = j + 1)
        BY <1>1, <2>3, <3>2, <4>1
      <4>3. k = j /\ idx'[w] # idx[w]
        BY <2>5, <4>1, <4>2
      <4>4. Send(fd[w], Private(m, TRUE))
        BY <2>3, <2>4, <2>6, <4>1, <4>3
      <4> QED
        BY <1>0, <2>7, <4>4, SendSent, ReplyTypes
    <3> QED
      BY <3>1, <3>2
  <2>9. m = offline'[nick'[w]][k]
    BY <2>3, <2>4, <2>6
  <2> QED
    BY <2>7, <2>8, <2>9 DEF Sent
<1>2. ASSUME NEW w \in Workers, pc'[w] = "saveStored"
      PROVE  Kept(msg[w])'
  <2>1. PICK m \in Msg : m = msg[w] /\ m = msg'[w]
    BY <1>0, <1>2, StoredByStore DEF LocalsSet
  <2>2. Kept(m)'
    <3>1. CASE pc[w] = "saveStored"
      BY <1>0, <1>2, <2>1, <3>1, KeptOn, StoredByStore DEF Conserved
    <3>2. CASE StoreOffline(w)
      <4>1. m.name \in Names /\ offline[m.name] \in Seq(Msg)
        BY <1>0 DEF Msg, VarTypes
      <4>2. offline'[m.name] = Append(offline[m.name], m)
        BY <1>0, <2>1, <3>2, <4>1 DEF StoreOffline, Enqueue, VarTypes
      <4>3. m \in Range(offline'[m.name])
        BY <4>1, <4>2, RangeAppend
      <4> QED
        BY <4>3 DEF Kept
    <3> QED
      BY <1>0, <1>2, <3>1, <3>2, StoredByStore
  <2> QED
    BY <2>1, <2>2 DEF Kept
<1> QED
  BY <1>1, <1>2 DEF Conserved

\* What the history calls stored is in the queue of its receiver, or was delivered.
LEMMA OfflineConservedStep ==
  ASSUME IInv, OrderInv, Named, Greeted, Conserved, OfflineConserved, Next
  PROVE  OfflineConserved'
<1>0. Streams
  BY DEF OrderInv
<1>1. ASSUME NEW h \in Range(history'), h.is_offline
      PROVE  Kept(h.msg)'
  <2>1. PICK m \in Msg : m = h.msg
    BY RecordCases
  <2>2. Kept(m) /\ ~ \E w \in Workers : Sigpipe(w)
    <3>1. CASE h \in Range(history) /\ ~ \E w \in Workers : Sigpipe(w)
      <4>1. PICK i \in DOMAIN history : history[i] = h
        BY <3>1 DEF Range
      <4>2. Kept(m)
        BY <1>1, <2>1, <4>1 DEF Range, Kept, OfflineConserved
      <4> QED
        BY <3>1, <4>2
    <3>2. ASSUME NEW w \in Workers, SaveHistory(w), pc[w] = "saveStored", m = msg[w]
          PROVE  Kept(m) /\ ~ \E v \in Workers : Sigpipe(v)
      <4>1. Kept(m)
        BY <3>2 DEF Conserved
      <4>2. ~ \E v \in Workers : Sigpipe(v)
        BY <3>2 DEF SaveHistory, Sigpipe, At, ServerSame
      <4> QED
        BY <4>1, <4>2
    <3> QED
      BY <1>1, <2>1, <3>1, <3>2, RecordCases
  <2>3. Kept(m)'
    BY <1>0, <2>2, KeptOn
  <2> QED
    BY <2>1, <2>3 DEF Kept
<1> QED
  BY <1>1 DEF Range, Kept, OfflineConserved

-----------------------------------------------------------------------------
(* The theorems. *)

DeliveryInv ==
  Locks /\ Answering /\ Echoed /\ AuthorEchoed /\ Named /\ Addressed /\ Greeted
    /\ Conserved /\ OfflineConserved

\* Nothing was sent, stored or recorded, so all that was is where it should be.
LEMMA InitDelivery == Init => DeliveryInv
<1> SUFFICES ASSUME Init PROVE DeliveryInv
  OBVIOUS
<1>1. Locks /\ Answering /\ Echoed /\ AuthorEchoed
  BY DEF Init, Locks, Answering, Echoed, AuthorEchoed
<1>2. Named /\ Addressed
  BY DEF Init, Named, Addressed, NamedStages, SessionStages, Stages, Range
<1>3. Greeted /\ Conserved /\ OfflineConserved
  BY DEF Init, Greeted, Conserved, OfflineConserved, SessionStages, Stages
<1> QED
  BY <1>1, <1>2, <1>3 DEF DeliveryInv

\* What is sent, stored and recorded stays where it should be.
LEMMA StepDelivery == IInv /\ OrderInv /\ DeliveryInv /\ [Next]_vars => DeliveryInv'
<1> SUFFICES ASSUME IInv, OrderInv, DeliveryInv, [Next]_vars PROVE DeliveryInv'
  OBVIOUS
<1>1. CASE Next
  <2>1. /\ Locks /\ Answering /\ Echoed /\ AuthorEchoed /\ Named /\ Addressed /\ Greeted
        /\ Conserved /\ OfflineConserved /\ Streams
    BY DEF DeliveryInv, OrderInv
  <2>2. Locks' /\ Answering' /\ Echoed' /\ AuthorEchoed'
    BY <1>1, <2>1, LocksStep, AnsweringStep, EchoedStep, AuthorEchoedStep
  <2>3. Named' /\ Addressed' /\ Greeted'
    BY <1>1, <2>1, NamedStep, AddressedStep, GreetedStep
  <2>4. Conserved' /\ OfflineConserved'
    BY <1>1, <2>1, ConservedStep, OfflineConservedStep
  <2> QED
    BY <2>2, <2>3, <2>4 DEF DeliveryInv
<1>2. CASE UNCHANGED vars
  <2> USE DEF vars, workerVars, sharedVars, clientVars, Sent
  <2>1. Locks' /\ Answering' /\ Echoed' /\ AuthorEchoed'
    BY <1>2 DEF DeliveryInv, Locks, Answering, Echoed, AuthorEchoed
  <2>2. Named' /\ Addressed' /\ Greeted'
    BY <1>2 DEF DeliveryInv, Named, Addressed, Greeted
  <2>3. ASSUME NEW m, Kept(m)
        PROVE  Kept(m)'
    BY <1>2, <2>3 DEF Kept
  <2>4. Conserved'
    <3>1. ASSUME NEW w \in Workers, pc'[w] = "saveStored"
          PROVE  Kept(msg[w])'
      <4>1. Kept(msg[w])
        BY <1>2, <3>1 DEF DeliveryInv, Conserved
      <4>2. PICK m : m = msg[w] /\ m = msg'[w]
        BY <1>2
      <4>3. Kept(m)'
        BY <2>3, <4>1, <4>2
      <4> QED
        BY <4>2, <4>3 DEF Kept
    <3>2. ASSUME NEW w \in Workers, pc'[w] = "drain", NEW k \in DOMAIN offline'[nick'[w]],
                 k < idx'[w]
          PROVE  Sent(sockOf[fd[w]], Private(offline[nick[w]][k], TRUE))'
      BY <1>2, <3>2 DEF DeliveryInv, Conserved
    <3> QED
      BY <3>1, <3>2 DEF Conserved
  <2>5. OfflineConserved'
    <3>1. \A i \in DOMAIN history : history[i].is_offline => Kept(history[i].msg)
      BY DEF DeliveryInv, OfflineConserved, Kept, Range
    <3>2. history' = history
      BY <1>2
    <3>3. ASSUME NEW i \in DOMAIN history', history'[i].is_offline
          PROVE  Kept(history[i].msg)'
      <4>1. PICK m : m = history[i].msg /\ m = history'[i].msg
        BY <3>2
      <4>2. Kept(m)'
        BY <2>3, <3>1, <3>2, <3>3, <4>1
      <4> QED
        BY <4>1, <4>2 DEF Kept
    <3> QED
      BY <3>3 DEF OfflineConserved, Kept, Range
  <2> QED
    BY <2>1, <2>2, <2>4, <2>5 DEF DeliveryInv
<1> QED
  BY <1>1, <1>2

\* Locks, echoes, nicknames and stored messages are always as they should be.
THEOREM DeliveryInvariance == Spec => []DeliveryInv
  BY InitDelivery, StepDelivery, Invariance, OrderInvariance, PTL DEF Spec

\* The author of a chat message that is in the history has been sent it, whatever the
\* other workers do with the registry and whoever leaves meanwhile.
THEOREM AuthorsSeeTheirTexts == Spec => []AuthorEchoed
<1>1. DeliveryInv => AuthorEchoed
  BY DEF DeliveryInv
<1> QED
  BY <1>1, DeliveryInvariance, PTL

\* A message the history says was stored waits in its receiver's queue or was sent,
\* marked [OFFLINE], to a client that logged in under that nickname.
THEOREM StoredIsNotLost == Spec => []OfflineConserved
<1>1. DeliveryInv => OfflineConserved
  BY DEF DeliveryInv
<1> QED
  BY <1>1, DeliveryInvariance, PTL

\* What is delivered from the store comes after WELCOME and the answer to the AUTH, so the
\* client shows it.
THEOREM StoredIsShown == Spec => []OfflineShown
<1>1. DeliveryInv => OfflineShown
  <2> SUFFICES ASSUME DeliveryInv, NEW c \in Conns, NEW k \in DOMAIN s2c[c],
                      s2c[c][k].type = "PRIVATE", s2c[c][k].offline
               PROVE  k \in Shown(c)
    BY DEF OfflineShown
  <2>1. k > 2 /\ nextId[c] > 2
    BY DEF DeliveryInv, Greeted
  <2>2. s2c[c][1] = Welcome
    BY <2>1 DEF DeliveryInv, Named
  <2>3. k # 2
    BY <2>1
  <2> QED
    BY <2>2, <2>3 DEF Shown
<1> QED
  BY <1>1, DeliveryInvariance, PTL

=============================================================================
