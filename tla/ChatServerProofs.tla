--------------------------- MODULE ChatServerProofs ---------------------------
(***************************************************************************)
(* Proofs about ChatServer, for every number of connections, workers and   *)
(* descriptors, every set of nicknames and requests, and every bound: its  *)
(* types, the owners of descriptors and of registry entries, the pool, and *)
(* the order of messages and records.                                      *)
(***************************************************************************)
EXTENDS ChatServer, ListLemmas

\* What most proofs need of the constants.
LEMMA ConstantsTyped ==
  /\ None \notin Conns \cup Workers \cup Fds \cup Nicks
  /\ \A c \in Conns : Logins[c] \subseteq Names
  /\ \A c \in Conns : Requests[c] \subseteq [type : RequestTypes, name : Names, count : Nat]
  /\ MaxRestarts \in Nat
BY ConstantsAssumption

USE ConstantsTyped DEF Names

\* A step of a delivery goes on through the queue, or ends with it.
LEMMA DeliverMoves ==
  ASSUME NEW w \in Workers, DeliverOffline(w)
  PROVE  /\ up /\ pc[w] = "drain" /\ offlineLock = w
         /\ UNCHANGED <<fd, nick, msg, target, reply, queue, clients, clientsLock, history>>
         /\ UNCHANGED <<file, sockOf, up, restarts, login, nextId, taken, c2s>>
         /\ \/ UNCHANGED <<pc, offline, offlineLock>> /\ idx' = [idx EXCEPT ![w] = @ + 1]
            \/ /\ pc' = [pc EXCEPT ![w] = "recv"] /\ idx' = [idx EXCEPT ![w] = 1]
               /\ offlineLock' = None /\ offline' = [offline EXCEPT ![nick[w]] = <<>>]
<1>1. AfterStage.drain = "recv"
  BY DEF AfterStage
<1> QED
  BY <1>1 DEF DeliverOffline, Cleared, Unlocked, Holds, At, Goto, ServerSame, clientVars

\* A new connection leaves the others alone.
LEMMA AcceptOpens ==
  ASSUME VarTypes, NEW c \in Conns, NEW f \in Fds, Accept(c, f)
  PROVE  /\ peer[c] = "none" /\ peer'[c] \in {"open", "closed"}
         /\ sockOf[f] = None /\ sockOf'[f] = c
         /\ \A g \in Fds : g # f => sockOf'[g] = sockOf[g]
         /\ \/ c2s'[c] = <<Hello(c)>> /\ nextId'[c] = 2
            \/ c2s'[c] = c2s[c] /\ nextId'[c] = nextId[c]
         /\ \A d \in Conns : d # c =>
              peer'[d] = peer[d] /\ c2s'[d] = c2s[d] /\ nextId'[d] = nextId[d]
         /\ UNCHANGED <<login, s2c>>
<1> USE DEF VarTypes
<1>1. /\ peer[c] = "none" /\ sockOf[f] = None /\ sockOf' = [sockOf EXCEPT ![f] = c]
      /\ UNCHANGED <<login, s2c>>
  BY DEF Accept
<1>2. CASE /\ peer' = [peer EXCEPT ![c] = "open"] /\ c2s' = [c2s EXCEPT ![c] = <<Hello(c)>>]
           /\ nextId' = [nextId EXCEPT ![c] = 2]
  BY <1>1, <1>2
<1>3. CASE peer' = [peer EXCEPT ![c] = "closed"] /\ UNCHANGED <<c2s, nextId>>
  BY <1>1, <1>3
<1> QED
  BY <1>2, <1>3 DEF Accept

\* The inductive invariant.
IInv == TypeOK /\ DescriptorsOwned /\ RegistryOwned

-----------------------------------------------------------------------------
(* Sockets. *)

\* A worker that serves a connection does so on an open socket.
LEMMA HasSocket ==
  ASSUME TypeOK, DescriptorsOwned, NEW w \in Workers, pc[w] # "pop"
  PROVE  fd[w] \in Fds /\ sockOf[fd[w]] \in Conns
  BY DEF TypeOK, VarTypes, LocalsSet, DescriptorsOwned

\* A send() keeps the streams to the clients and the clients' states well typed.
LEMMA SendTypes ==
  ASSUME VarTypes, NEW f \in Fds, NEW r \in Reply, Send(f, r)
  PROVE  /\ s2c' \in [Conns -> Seq(Reply)]
         /\ peer' \in [Conns -> {"none", "open", "closed", "reset"}]
<1>1. CASE sockOf[f] = None /\ UNCHANGED <<s2c, peer>>
  BY <1>1 DEF VarTypes
<1>2. CASE ~ (sockOf[f] = None /\ UNCHANGED <<s2c, peer>>)
  <2>1. sockOf[f] \in Conns
    BY <1>2 DEF VarTypes, Send
  <2>2. s2c' = [s2c EXCEPT ![sockOf[f]] = Append(@, r)]
    BY <1>2 DEF Send
  <2>3. peer' = peer \/ peer' = [peer EXCEPT ![sockOf[f]] = "reset"]
    BY <1>2 DEF Send
  <2>4. Append(s2c[sockOf[f]], r) \in Seq(Reply)
    BY <2>1, AppendProperties DEF VarTypes
  <2> QED
    BY <2>1, <2>2, <2>3, <2>4 DEF VarTypes
<1> QED
  BY <1>1, <1>2

\* What recv() hands to a worker is a message, and the streams stay well typed.
LEMMA ReceiveTypes ==
  ASSUME TypeOK, DescriptorsOwned, NEW w \in Workers, pc[w] # "pop", Receive(w)
  PROVE  Incoming(w) \in Msg /\ c2s' \in [Conns -> Seq(Msg)]
<1>1. sockOf[fd[w]] \in Conns
  BY HasSocket
<1>2. /\ c2s[sockOf[fd[w]]] \in Seq(Msg) /\ c2s[sockOf[fd[w]]] # <<>>
      /\ c2s' = [c2s EXCEPT ![sockOf[fd[w]]] = Tail(@)]
  BY <1>1 DEF Receive, TypeOK, VarTypes
<1> QED
  BY <1>1, <1>2, HeadTailProperties DEF Incoming, TypeOK, VarTypes

\* What the server answers has the type of an answer.
LEMMA ReplyTypes ==
  /\ Welcome \in Reply /\ Error \in Reply /\ Pong \in Reply
  /\ \A users \in Seq(Nicks) : ServerInfo(users) \in Reply
  /\ \A m \in Msg : Text(m) \in Reply
  /\ \A m \in Msg, b \in BOOLEAN : Private(m, b) \in Reply
  /\ \A lines \in Seq(Record) : HistoryData(lines) \in Reply
<1>1. Welcome \in Reply /\ Error \in Reply /\ Pong \in Reply
  BY DEF Welcome, Error, Pong, Reply
<1>2. \A users \in Seq(Nicks) : ServerInfo(users) \in Reply
  BY DEF ServerInfo, Reply
<1>3. \A m \in Msg, b \in BOOLEAN : Private(m, b) \in Reply
  BY DEF Private, Reply
<1>4. \A m \in Msg : Text(m) \in Reply
  BY DEF Text, Reply
<1>5. \A lines \in Seq(Record) : HistoryData(lines) \in Reply
  BY DEF HistoryData, Reply
<1> QED
  BY <1>1, <1>2, <1>3, <1>4, <1>5

-----------------------------------------------------------------------------
(* The registry's helpers. *)

\* An entry of g_clients has a socket and a nickname.
LEMMA ClientFields ==
  ASSUME NEW e \in Client
  PROVE  e.sock \in Fds /\ e.nickname \in Nicks
  BY DEF Client

\* A worker's position in a list goes up by one or back to the start.
LEMMA Counting ==
  ASSUME idx \in [Workers -> Nat \ {0}], NEW w \in Workers,
         idx' = [idx EXCEPT ![w] = @ + 1] \/ idx' = [idx EXCEPT ![w] = 1]
  PROVE  idx' \in [Workers -> Nat \ {0}]
<1>1. idx[w] + 1 \in Nat \ {0} /\ 1 \in Nat \ {0}
  OBVIOUS
<1> QED
  BY <1>1

\* The reply to a HISTORY is a list of records, whatever N was asked for.
LEMMA LastRecordsType ==
  ASSUME VarTypes, NEW n \in Nat
  PROVE  Payload(LastRecords(n)) \in Seq(Record)
<1> DEFINE start == IF n > 0 /\ Len(history) > n THEN Len(history) - n ELSE 0
           lines == LastRecords(n)
           room == IF Len(lines) < ReplyLines THEN Len(lines) ELSE ReplyLines
<1>1. /\ Len(history) \in Nat
      /\ \A i \in 1..Len(history) : history[i] \in Record
  BY LenProperties DEF VarTypes
<1>2. start \in Nat
  BY <1>1
<1>3. lines \in Seq(Record)
  <2>1. \A i \in (start + 1)..Len(history) : history[i] \in Record
    BY <1>1, <1>2
  <2>2. lines = SubSeq(history, start + 1, Len(history))
    BY DEF LastRecords
  <2> HIDE DEF start, lines
  <2> QED
    BY <1>1, <1>2, <2>1, <2>2, SubSeqProperties
<1>4. Len(lines) \in Nat /\ \A i \in 1..Len(lines) : lines[i] \in Record
  BY <1>3, LenProperties
<1>5. room \in Nat /\ room <= Len(lines)
  BY <1>4, ConstantsAssumption
<1>6. Payload(lines) = SubSeq(lines, 1, room)
  BY DEF Payload
<1> HIDE DEF lines, room
<1>7. \A i \in 1..room : lines[i] \in Record
  BY <1>4, <1>5
<1> QED
  BY <1>5, <1>6, <1>7, SubSeqProperties DEF lines

\* remove_client() takes out the one entry of this socket and leaves all others.
LEMMA WithoutSpec ==
  ASSUME VarTypes, NEW f,
         \A i, j \in DOMAIN clients : clients[i].sock = clients[j].sock => i = j
  PROVE  /\ Without(f) \in Seq(Client)
         /\ \A i \in DOMAIN Without(f) : \E j \in DOMAIN clients :
              Without(f)[i] = clients[j] /\ clients[j].sock # f
         /\ \A j \in DOMAIN clients : clients[j].sock # f =>
              \E i \in DOMAIN Without(f) : Without(f)[i] = clients[j]
         /\ \A i, j \in DOMAIN Without(f) :
              Without(f)[i].sock = Without(f)[j].sock => i = j
<1> DEFINE I == {i \in 1..Len(clients) : clients[i].sock = f}
           k == Min(I)
           r == RemoveAt(clients, k)
<1>1. /\ clients \in Seq(Client) /\ Len(clients) \in Nat
      /\ DOMAIN clients = 1..Len(clients)
  BY LenProperties DEF VarTypes
<1>2. CASE I = {}
  <2>1. Without(f) = clients
    BY <1>2 DEF Without, RemoveFirstMatch
  <2> QED
    BY <1>1, <1>2, <2>1
<1>3. CASE I # {}
  <2>1. Without(f) = r
    <3>1. \E i \in 1..Len(clients) : clients[i].sock = f
      BY <1>3
    <3>2. SelectInSeq(clients, LAMBDA c : c.sock = f) = k
      BY <1>3 DEF SelectInSeq
    <3> QED
      BY <3>1, <3>2 DEF Without, RemoveFirstMatch
  <2>2. k \in I
    <3>1. I \in SUBSET Nat
      BY <1>1
    <3> HIDE DEF I
    <3> QED
      BY <1>3, <3>1, MinInSet
  <2>3. k \in 1..Len(clients) /\ clients[k].sock = f
    BY <2>2
  <2> HIDE DEF k
  <2>4. /\ r \in Seq(Client) /\ Len(r) = Len(clients) - 1
        /\ \A i \in 1..(Len(clients) - 1) :
             r[i] = IF i < k THEN clients[i] ELSE clients[i + 1]
    <3>1. \A n \in 1..Len(clients) :
            /\ RemoveAt(clients, n) \in Seq(Client)
            /\ Len(RemoveAt(clients, n)) = Len(clients) - 1
            /\ \A i \in 1..(Len(clients) - 1) :
                 RemoveAt(clients, n)[i] = IF i < n THEN clients[i] ELSE clients[i + 1]
      BY <1>1, RemoveAtSpec
    <3> QED
      BY <2>3, <3>1
  <2>5. DOMAIN r = 1..(Len(clients) - 1)
    BY <2>4, LenProperties
  <2> HIDE DEF r, I
  <2>6. \A i \in DOMAIN r : \E j \in DOMAIN clients :
          r[i] = clients[j] /\ j # k /\ j = IF i < k THEN i ELSE i + 1
    <3> TAKE i \in DOMAIN r
    <3>1. CASE i < k
      <4>1. i \in DOMAIN clients /\ i # k
        BY <1>1, <2>3, <2>5, <3>1
      <4>2. r[i] = clients[i]
        BY <2>4, <2>5, <3>1
      <4> QED
        BY <3>1, <4>1, <4>2
    <3>2. CASE ~ (i < k)
      <4>1. i + 1 \in DOMAIN clients /\ i + 1 # k
        BY <1>1, <2>3, <2>5, <3>2
      <4>2. r[i] = clients[i + 1]
        BY <2>4, <2>5, <3>2
      <4> QED
        BY <3>2, <4>1, <4>2
    <3> QED
      BY <3>1, <3>2
  <2>7. \A j \in DOMAIN clients : j # k => \E i \in DOMAIN r : r[i] = clients[j]
    <3> SUFFICES ASSUME NEW j \in DOMAIN clients, j # k
                 PROVE  \E i \in DOMAIN r : r[i] = clients[j]
      OBVIOUS
    <3>1. CASE j < k
      <4>1. j \in DOMAIN r
        BY <1>1, <2>3, <2>5, <3>1
      <4>2. r[j] = clients[j]
        BY <2>4, <2>5, <3>1, <4>1
      <4> QED
        BY <4>1, <4>2
    <3>2. CASE ~ (j < k)
      <4>1. j - 1 \in DOMAIN r /\ ~ (j - 1 < k) /\ (j - 1) + 1 = j
        BY <1>1, <2>3, <2>5, <3>2
      <4>2. r[j - 1] = clients[j]
        BY <2>4, <2>5, <4>1
      <4> QED
        BY <4>1, <4>2
    <3> QED
      BY <3>1, <3>2
  <2>8. \A i \in DOMAIN r : \E j \in DOMAIN clients : r[i] = clients[j] /\ clients[j].sock # f
    BY <1>1, <2>3, <2>6
  <2>9. \A i, j \in DOMAIN r : r[i].sock = r[j].sock => i = j
    <3> SUFFICES ASSUME NEW i \in DOMAIN r, NEW j \in DOMAIN r, r[i].sock = r[j].sock
                 PROVE  i = j
      OBVIOUS
    <3>1. PICK a \in DOMAIN clients :
            r[i] = clients[a] /\ a = IF i < k THEN i ELSE i + 1
      BY <2>6
    <3>2. PICK b \in DOMAIN clients :
            r[j] = clients[b] /\ b = IF j < k THEN j ELSE j + 1
      BY <2>6
    <3>3. a = b
      BY <3>1, <3>2
    <3> QED
      BY <1>1, <2>3, <2>5, <3>1, <3>2, <3>3
  <2>10. \A j \in DOMAIN clients : clients[j].sock # f =>
           \E i \in DOMAIN r : r[i] = clients[j]
    BY <2>3, <2>7
  <2> QED
    BY <2>1, <2>4, <2>8, <2>9, <2>10
<1> QED
  BY <1>2, <1>3

-----------------------------------------------------------------------------
(* Types. *)

\* Every step of a worker keeps the types: one case per action.
LEMMA TypeStep ==
  ASSUME IInv, NEW w \in Workers, WorkerStep(w)
  PROVE  TypeOK'
<1> USE DEF At, Goto, ServerSame, workerVars, sharedVars, clientVars, Stages,
            SessionStages, RequestStages
<1>0. TypeOK /\ VarTypes /\ LocalsSet /\ DescriptorsOwned /\ RegistryOwned
  BY DEF IInv, TypeOK
<1>1. CASE Pop(w)
  BY <1>0, <1>1 DEF Pop, Popped, TypeOK, VarTypes, LocalsSet
<1>2. CASE RecvHello(w)
  <2>1. c2s' \in [Conns -> Seq(Msg)]
    BY <1>0, <1>2, ReceiveTypes DEF RecvHello, EndOfStream, VarTypes
  <2>2. \/ UNCHANGED <<fd, nick, sockOf>> /\ pc' = [pc EXCEPT ![w] = "welcome"]
        \/ CloseSocket(w) /\ NextClient(w)
    BY <1>2 DEF RecvHello
  <2>3. UNCHANGED <<msg, idx, target, reply, sharedVars, file, up, restarts, peer,
                    clientVars, s2c>>
    BY <1>2 DEF RecvHello
  <2>4. pc[w] = "hello" /\ fd[w] \in Fds
    BY <1>0, <1>2, HasSocket DEF RecvHello
  <2>5. VarTypes'
    BY <1>0, <2>1, <2>2, <2>3, <2>4 DEF VarTypes, CloseSocket, NextClient
  <2>6. LocalsSet'
    BY <1>0, <2>2, <2>3, <2>4 DEF VarTypes, LocalsSet, NextClient
  <2> QED
    BY <2>5, <2>6 DEF TypeOK
<1>3. CASE SendWelcome(w)
  BY <1>0, <1>3, HasSocket, SendTypes, ReplyTypes DEF SendWelcome, TypeOK, VarTypes, LocalsSet
<1>4. CASE RecvAuth(w)
  <2>1. c2s' \in [Conns -> Seq(Msg)]
    BY <1>0, <1>4, ReceiveTypes DEF RecvAuth, EndOfStream, VarTypes
  <2>2. \/ pc' = [pc EXCEPT ![w] = "remove"] /\ UNCHANGED nick
        \/ UNCHANGED <<pc, nick>>
        \/ \E n \in Names : /\ nick' = [nick EXCEPT ![w] = n]
                            /\ pc' = [pc EXCEPT ![w] = FirstVerdict(n)]
    <3>1. CASE EndOfStream(w) /\ pc' = [pc EXCEPT ![w] = "remove"] /\ UNCHANGED nick
      BY <3>1
    <3>2. CASE Receive(w) /\ Incoming(w).type # "AUTH" /\ UNCHANGED <<pc, nick>>
      BY <3>2
    <3>3. CASE /\ Receive(w)
               /\ nick' = [nick EXCEPT ![w] = Incoming(w).name]
               /\ pc' = [pc EXCEPT ![w] = FirstVerdict(Incoming(w).name)]
      <4>1. Incoming(w).name \in Names
        BY <1>0, <1>4, <3>3, ReceiveTypes DEF RecvAuth, Msg
      <4> QED
        BY <3>3, <4>1
    <3> QED
      BY <1>4, <3>1, <3>2, <3>3 DEF RecvAuth, FirstVerdict
  <2>3. UNCHANGED <<fd, msg, idx, target, reply, sharedVars, file, sockOf, up, restarts,
                    peer, clientVars, s2c>> /\ pc[w] = "auth"
    BY <1>4 DEF RecvAuth
  <2>4. pc' \in [Workers -> Stages] /\ nick' \in [Workers -> Names]
    <3>1. ASSUME NEW n \in Names, nick' = [nick EXCEPT ![w] = n],
                 pc' = [pc EXCEPT ![w] = FirstVerdict(n)]
          PROVE  pc' \in [Workers -> Stages] /\ nick' \in [Workers -> Names]
      <4>1. FirstVerdict(n) \in Stages
        BY DEF FirstVerdict
      <4> QED
        BY <1>0, <3>1, <4>1 DEF VarTypes
    <3>2. CASE pc' = [pc EXCEPT ![w] = "remove"] /\ UNCHANGED nick
      BY <1>0, <3>2 DEF VarTypes
    <3>3. CASE UNCHANGED <<pc, nick>>
      BY <1>0, <3>3 DEF VarTypes
    <3> QED
      BY <2>2, <3>1, <3>2, <3>3
  <2>5. VarTypes'
    BY <1>0, <2>1, <2>3, <2>4 DEF VarTypes
  <2>6. LocalsSet'
    BY <1>0, <2>2, <2>3 DEF VarTypes, LocalsSet, FirstVerdict
  <2> QED
    BY <2>5, <2>6 DEF TypeOK
<1>5. CASE CheckNick(w)
  BY <1>0, <1>5 DEF CheckNick, TypeOK, VarTypes, LocalsSet
<1>6. CASE Register(w)
  <2>1. [sock |-> fd[w], nickname |-> nick[w]] \in Client
    BY <1>0, <1>6, HasSocket DEF Register, AfterStage, LocalsSet, Client
  <2>2. clients' \in Seq(Client)
    BY <1>0, <1>6, <2>1, AppendProperties DEF Register, AfterStage, VarTypes
  <2>3. VarTypes'
    BY <1>0, <1>6, <2>2 DEF Register, AfterStage, VarTypes
  <2>4. LocalsSet'
    BY <1>0, <1>6 DEF Register, AfterStage, VarTypes, LocalsSet
  <2> QED
    BY <2>3, <2>4 DEF TypeOK
<1>7. CASE Refuse(w)
  BY <1>0, <1>7, HasSocket, SendTypes, ReplyTypes
     DEF Refuse, TypeOK, VarTypes, LocalsSet
<1>8. CASE SendInfo(w)
  <2>1. ServerInfo(<<>>) \in Reply
    BY ReplyTypes, EmptySeq
  <2>2. /\ s2c' \in [Conns -> Seq(Reply)]
        /\ peer' \in [Conns -> {"none", "open", "closed", "reset"}]
    BY <1>0, <1>8, <2>1, HasSocket, SendTypes DEF SendInfo, AfterStage
  <2>3. VarTypes'
    BY <1>0, <1>8, <2>2 DEF SendInfo, AfterStage, VarTypes
  <2>4. LocalsSet'
    BY <1>0, <1>8 DEF SendInfo, AfterStage, VarTypes, LocalsSet
  <2> QED
    BY <2>3, <2>4 DEF TypeOK
<1>9. CASE DeliverOffline(w)
  <2>1. fd[w] \in Fds /\ nick[w] \in Names /\ offline[nick[w]] \in Seq(Msg) /\ idx[w] \in Nat
    BY <1>0, <1>9, HasSocket DEF DeliverOffline, AfterStage, VarTypes, LocalsSet
  <2>2. /\ s2c' \in [Conns -> Seq(Reply)]
        /\ peer' \in [Conns -> {"none", "open", "closed", "reset"}]
    <3>1. CASE idx[w] <= Len(offline[nick[w]])
      <4>1. offline[nick[w]][idx[w]] \in Msg
        <5>1. idx[w] \in 1..Len(offline[nick[w]])
          BY <1>0, <2>1, <3>1, LenProperties DEF VarTypes
        <5> QED
          BY <2>1, <5>1, ElementOfSeq
      <4>2. Send(fd[w], Private(offline[nick[w]][idx[w]], TRUE))
        BY <1>9, <3>1 DEF DeliverOffline, AfterStage
      <4> QED
        BY <1>0, <2>1, <4>1, <4>2, SendTypes, ReplyTypes
    <3>2. CASE ~ (idx[w] <= Len(offline[nick[w]]))
      BY <1>0, <1>9, <3>2 DEF DeliverOffline, AfterStage, VarTypes
    <3> QED
      BY <3>1, <3>2
  <2>3. /\ pc' = pc \/ pc' = [pc EXCEPT ![w] = "recv"]
        /\ offline' = offline \/ offline' = [offline EXCEPT ![nick[w]] = <<>>]
        /\ idx' = [idx EXCEPT ![w] = @ + 1] \/ idx' = [idx EXCEPT ![w] = 1]
        /\ offlineLock' = offlineLock \/ offlineLock' = None
    BY <1>9, DeliverMoves
  <2>4. /\ UNCHANGED <<fd, nick, msg, target, reply, queue, clients, clientsLock, history,
                       file, sockOf, c2s, up, restarts, clientVars>>
        /\ pc[w] = "drain"
    BY <1>9, DeliverMoves
  <2>5. /\ offline' \in [Names -> Seq(Msg)] /\ pc' \in [Workers -> Stages]
        /\ idx' \in [Workers -> Nat \ {0}]
    <3>1. <<>> \in Seq(Msg)
      BY EmptySeq
    <3>2. offline' \in [Names -> Seq(Msg)]
      <4>1. offline \in [Names -> Seq(Msg)]
        BY <1>0 DEF VarTypes
      <4> QED
        BY <2>3, <3>1, <4>1
    <3>3. pc' \in [Workers -> Stages]
      BY <1>0, <2>3 DEF VarTypes
    <3>4. idx' \in [Workers -> Nat \ {0}]
      BY <1>0, <2>3, Counting DEF VarTypes
    <3> QED
      BY <3>2, <3>3, <3>4
  <2>6. VarTypes'
    BY <1>0, <2>2, <2>3, <2>4, <2>5 DEF VarTypes
  <2>7. LocalsSet'
    BY <1>0, <2>3, <2>4 DEF VarTypes, LocalsSet
  <2> QED
    BY <2>6, <2>7 DEF TypeOK
<1>10. CASE RecvRequest(w)
  <2>1. c2s' \in [Conns -> Seq(Msg)]
    BY <1>0, <1>10, ReceiveTypes DEF RecvRequest, EndOfStream, VarTypes
  <2>2. \/ pc' = [pc EXCEPT ![w] = "remove"] /\ UNCHANGED <<msg, reply>>
        \/ \E m \in Msg :
             /\ msg' = [msg EXCEPT ![w] = m]
             /\ reply' = [reply EXCEPT ![w] = IF m.type = "PING" THEN Pong ELSE None]
             /\ pc' = [pc EXCEPT ![w] = Handler[m.type]]
    BY <1>0, <1>10, ReceiveTypes DEF RecvRequest
  <2>3. /\ UNCHANGED <<fd, nick, idx, target, sharedVars, file, sockOf, up, restarts,
                       peer, clientVars, s2c>>
        /\ pc[w] = "recv"
    BY <1>10 DEF RecvRequest
  <2>4. CASE pc' = [pc EXCEPT ![w] = "remove"] /\ UNCHANGED <<msg, reply>>
    BY <1>0, <2>1, <2>3, <2>4 DEF TypeOK, VarTypes, LocalsSet
  <2>5. ASSUME NEW m \in Msg,
               msg' = [msg EXCEPT ![w] = m],
               reply' = [reply EXCEPT ![w] = IF m.type = "PING" THEN Pong ELSE None],
               pc' = [pc EXCEPT ![w] = Handler[m.type]]
        PROVE  TypeOK'
    <3>1. /\ Handler[m.type] \in Stages \ {"pop", "check", "register", "private"}
          /\ Handler[m.type] = "answer" => m.type = "PING"
      BY DEF Handler, Msg, RequestTypes
    <3>2. VarTypes'
      BY <1>0, <2>1, <2>3, <2>5, <3>1, ReplyTypes DEF VarTypes
    <3>3. LocalsSet'
      BY <1>0, <2>3, <2>5, <3>1, ReplyTypes DEF VarTypes, LocalsSet
    <3> QED
      BY <3>2, <3>3 DEF TypeOK
  <2> QED
    BY <2>2, <2>4, <2>5
<1>11. CASE Broadcast(w)
  <2>1. msg[w] \in Msg /\ idx[w] \in Nat \ {0}
    BY <1>0, <1>11 DEF Broadcast, VarTypes, LocalsSet
  <2>2. /\ s2c' \in [Conns -> Seq(Reply)]
        /\ peer' \in [Conns -> {"none", "open", "closed", "reset"}]
    <3>1. CASE idx[w] <= Len(clients)
      <4>1. clients[idx[w]] \in Client
        <5>1. idx[w] \in 1..Len(clients)
          BY <1>0, <2>1, <3>1, LenProperties DEF VarTypes
        <5> QED
          BY <1>0, <5>1, ElementOfSeq DEF VarTypes
      <4>2. clients[idx[w]].sock \in Fds
        BY <4>1, ClientFields
      <4>3. Send(clients[idx[w]].sock, Text(msg[w]))
        BY <1>11, <3>1 DEF Broadcast
      <4> QED
        BY <1>0, <2>1, <4>2, <4>3, SendTypes, ReplyTypes
    <3>2. CASE ~ (idx[w] <= Len(clients))
      BY <1>0, <1>11, <3>2 DEF Broadcast, VarTypes
    <3> QED
      BY <3>1, <3>2
  <2>3. VarTypes'
    <3>1. /\ pc' = pc \/ pc' = [pc EXCEPT ![w] = "saveSent"]
          /\ idx' = [idx EXCEPT ![w] = @ + 1] \/ idx' = [idx EXCEPT ![w] = 1]
          /\ clientsLock' = clientsLock \/ clientsLock' = None
      BY <1>11 DEF Broadcast, Unlocked
    <3>2. idx' \in [Workers -> Nat \ {0}]
      BY <1>0, <3>1, Counting DEF VarTypes
    <3> QED
      BY <1>0, <1>11, <2>2, <3>1, <3>2 DEF Broadcast, VarTypes
  <2>4. LocalsSet'
    BY <1>0, <1>11 DEF Broadcast, VarTypes, LocalsSet
  <2> QED
    BY <2>3, <2>4 DEF TypeOK
<1>12. CASE Lookup(w)
  BY <1>0, <1>12 DEF Lookup, TypeOK, VarTypes, LocalsSet
<1>13. CASE FindTarget(w)
  <2> DEFINE found == SelectInSeq(clients, LAMBDA c : c.nickname = msg[w].name)
  <2>1. \/ pc' = [pc EXCEPT ![w] = "saveSent"] /\ UNCHANGED target
        \/ \E f \in Fds : /\ target' = [target EXCEPT ![w] = f]
                          /\ pc' = [pc EXCEPT ![w] = "private"]
    <3>1. CASE found = 0
      BY <1>13, <3>1 DEF FindTarget
    <3>2. CASE found # 0
      <4> DEFINE I == {i \in 1..Len(clients) : clients[i].nickname = msg[w].name}
      <4>1. I # {} /\ found = Min(I)
        BY <3>2 DEF SelectInSeq
      <4>2. found \in 1..Len(clients)
        <5>1. I \in SUBSET Nat
          OBVIOUS
        <5>2. Min(I) \in I
          <6> HIDE DEF I
          <6> QED
            BY <4>1, <5>1, MinInSet
        <5> HIDE DEF found
        <5> QED
          BY <4>1, <5>2
      <4>3. clients[found] \in Client
        <5> HIDE DEF found
        <5> QED
          BY <1>0, <4>2, ElementOfSeq DEF VarTypes
      <4>4. /\ target' = [target EXCEPT ![w] = clients[found].sock]
            /\ pc' = [pc EXCEPT ![w] = "private"]
        BY <1>13, <3>2 DEF FindTarget
      <4> HIDE DEF found
      <4> QED
        BY <4>3, <4>4 DEF Client
    <3> QED
      BY <3>1, <3>2
  <2>2. /\ UNCHANGED <<fd, nick, msg, idx, reply, sharedVars, file, sockOf, up, restarts,
                       peer, clientVars, c2s, s2c>>
        /\ pc[w] = "deliver"
    BY <1>13 DEF FindTarget
  <2>3. CASE pc' = [pc EXCEPT ![w] = "saveSent"] /\ UNCHANGED target
    BY <1>0, <2>2, <2>3 DEF TypeOK, VarTypes, LocalsSet
  <2>4. ASSUME NEW f \in Fds,
               target' = [target EXCEPT ![w] = f], pc' = [pc EXCEPT ![w] = "private"]
        PROVE  TypeOK'
    BY <1>0, <2>2, <2>4 DEF TypeOK, VarTypes, LocalsSet
  <2> QED
    BY <2>1, <2>3, <2>4
<1>14. CASE SendPrivate(w)
  BY <1>0, <1>14, SendTypes, ReplyTypes DEF SendPrivate, TypeOK, VarTypes, LocalsSet
<1>15. CASE StoreOffline(w)
  <2>1. msg[w] \in Msg /\ msg[w].name \in Names
    BY <1>0, <1>15 DEF StoreOffline, LocalsSet, Msg
  <2>2. Append(offline[msg[w].name], msg[w]) \in Seq(Msg)
    BY <1>0, <2>1, AppendProperties DEF VarTypes
  <2>3. VarTypes'
    BY <1>0, <1>15, <2>1, <2>2 DEF StoreOffline, VarTypes, Enqueue
  <2>4. LocalsSet'
    BY <1>0, <1>15 DEF StoreOffline, VarTypes, LocalsSet
  <2> QED
    BY <2>3, <2>4 DEF TypeOK
<1>16. CASE SaveHistory(w)
  <2> DEFINE rec == [msg |-> msg[w], delivered |-> pc[w] = "saveSent",
                     is_offline |-> pc[w] = "saveStored"]
  <2>1. rec \in Record
    BY <1>0, <1>16 DEF SaveHistory, LocalsSet, Record
  <2>2. /\ history' = Append(history, rec)
        /\ file' = Append(file, rec) \/ file' = file
    BY <1>16 DEF SaveHistory, Logged
  <2> HIDE DEF rec
  <2>3. history' \in Seq(Record) /\ file' \in Seq(Record)
    <3>1. Append(history, rec) \in Seq(Record) /\ Append(file, rec) \in Seq(Record)
      BY <1>0, <2>1, AppendProperties DEF VarTypes
    <3> QED
      BY <1>0, <2>2, <3>1 DEF VarTypes
  <2>4. VarTypes'
    BY <1>0, <1>16, <2>3 DEF SaveHistory, VarTypes
  <2>5. LocalsSet'
    BY <1>0, <1>16 DEF SaveHistory, VarTypes, LocalsSet
  <2> QED
    BY <2>4, <2>5 DEF TypeOK
<1>17. CASE ListUsers(w)
  <2> DEFINE users == [i \in DOMAIN clients |-> clients[i].nickname]
  <2>1. users \in Seq(Nicks)
    <3>1. Len(clients) \in Nat /\ DOMAIN clients = 1..Len(clients)
      BY <1>0, LenProperties DEF VarTypes
    <3>2. ASSUME NEW i \in 1..Len(clients)
          PROVE  clients[i].nickname \in Nicks
      <4>1. clients[i] \in Client
        BY <1>0, ElementOfSeq DEF VarTypes
      <4> QED
        BY <4>1, ClientFields
    <3> QED
      BY <3>1, <3>2, IsASeq
  <2>2. ServerInfo(users) \in Reply
    BY <2>1, ReplyTypes
  <2>3. reply' = [reply EXCEPT ![w] = ServerInfo(users)]
    BY <1>17 DEF ListUsers
  <2> HIDE DEF users
  <2>4. VarTypes'
    BY <1>0, <1>17, <2>2, <2>3 DEF ListUsers, VarTypes
  <2>5. LocalsSet'
    BY <1>0, <1>17, <2>2, <2>3 DEF ListUsers, VarTypes, LocalsSet
  <2> QED
    BY <2>4, <2>5 DEF TypeOK
<1>18. CASE CollectHistory(w)
  <2> DEFINE r == HistoryData(Payload(LastRecords(msg[w].count)))
  <2>1. msg[w].count \in Nat
    BY <1>0, <1>18 DEF CollectHistory, LocalsSet, Msg
  <2>2. r \in Reply
    BY <1>0, <2>1, LastRecordsType, ReplyTypes
  <2>3. reply' = [reply EXCEPT ![w] = r]
    BY <1>18 DEF CollectHistory
  <2> HIDE DEF r
  <2>4. VarTypes'
    BY <1>0, <1>18, <2>2, <2>3 DEF CollectHistory, VarTypes
  <2>5. LocalsSet'
    BY <1>0, <1>18, <2>2, <2>3 DEF CollectHistory, VarTypes, LocalsSet
  <2> QED
    BY <2>4, <2>5 DEF TypeOK
<1>19. CASE SendAnswer(w)
  BY <1>0, <1>19, HasSocket, SendTypes DEF SendAnswer, TypeOK, VarTypes, LocalsSet
<1>20. CASE RemoveClient(w)
  <2>1. Without(fd[w]) \in Seq(Client)
    BY <1>0, WithoutSpec DEF RegistryOwned
  <2>2. VarTypes'
    BY <1>0, <1>20, <2>1 DEF RemoveClient, VarTypes
  <2>3. LocalsSet'
    BY <1>0, <1>20 DEF RemoveClient, VarTypes, LocalsSet
  <2> QED
    BY <2>2, <2>3 DEF TypeOK
<1>21. CASE CloseClient(w)
  BY <1>0, <1>21, HasSocket
     DEF CloseClient, TypeOK, VarTypes, LocalsSet, NextClient, CloseSocket
<1>22. CASE Sigpipe(w)
  <2>1. /\ queue' \in Seq(Fds) /\ clients' \in Seq(Client) /\ history' \in Seq(Record)
        /\ offline' \in [Names -> Seq(Msg)]
    BY <1>22, EmptySeq DEF Sigpipe
  <2>2. VarTypes'
    <3>1. /\ pc' \in [Workers -> Stages] /\ fd' \in [Workers -> Fds \cup {None}]
          /\ nick' \in [Workers -> Names] /\ msg' \in [Workers -> Msg \cup {None}]
          /\ idx' \in [Workers -> Nat \ {0}] /\ target' \in [Workers -> Fds \cup {None}]
          /\ reply' \in [Workers -> Reply \cup {None}]
      BY <1>22 DEF Sigpipe
    <3>2. /\ clientsLock' = None /\ offlineLock' = None /\ up' = FALSE
          /\ sockOf' \in [Fds -> Conns \cup {None}]
          /\ UNCHANGED <<file, restarts, peer, login, nextId, taken, c2s, s2c>>
      BY <1>22 DEF Sigpipe
    <3> QED
      BY <1>0, <2>1, <3>1, <3>2 DEF VarTypes
  <2>3. LocalsSet'
    BY <1>22 DEF Sigpipe, LocalsSet
  <2> QED
    BY <2>2, <2>3 DEF TypeOK
<1>23. CASE LockClients(w) \/ LockOffline(w)
  BY <1>0, <1>23 DEF LockClients, LockOffline, TypeOK, VarTypes, LocalsSet
<1> QED
  BY <1>1, <1>2, <1>3, <1>4, <1>5, <1>6, <1>7, <1>8, <1>9, <1>10, <1>11, <1>12, <1>13,
     <1>14, <1>15, <1>16, <1>17, <1>18, <1>19, <1>20, <1>21, <1>22, <1>23 DEF WorkerStep

\* A request of a client keeps the stream to the server well typed.
LEMMA SendToServerTypes ==
  ASSUME VarTypes, NEW c \in Conns, NEW type \in {"AUTH", "BYE"} \cup RequestTypes,
         NEW n \in Names, NEW count \in Nat, ClientSend(c, type, n, count)
  PROVE  c2s' \in [Conns -> Seq(Msg)] /\ nextId' \in [Conns -> Nat \ {0}]
<1> DEFINE m == [type |-> type, src |-> c, id |-> nextId[c], name |-> n, count |-> count]
<1>1. m \in Msg /\ nextId[c] + 1 \in Nat \ {0}
  <2>1. nextId[c] \in Nat \ {0} /\ c \in Conns
    BY DEF VarTypes
  <2>2. m \in Msg
    BY <2>1 DEF Msg
  <2> HIDE DEF m
  <2> QED
    BY <2>1, <2>2
<1>2. /\ c2s' = [c2s EXCEPT ![c] = Append(@, m)]
      /\ nextId' = [nextId EXCEPT ![c] = @ + 1]
  BY DEF ClientSend
<1> HIDE DEF m
<1>3. Append(c2s[c], m) \in Seq(Msg)
  BY <1>1, AppendProperties DEF VarTypes
<1> QED
  BY <1>1, <1>2, <1>3 DEF VarTypes

\* What the clients, the main thread and a restart do keeps the types.
LEMMA OtherTypeStep ==
  ASSUME TypeOK,
         \/ \E c \in Conns, f \in Fds : Accept(c, f)
         \/ \E c \in Conns : ClientStep(c)
         \/ Restart
  PROVE  TypeOK'
<1> USE DEF workerVars, sharedVars, clientVars
<1>0. VarTypes /\ LocalsSet
  BY DEF TypeOK
<1>1. ASSUME NEW c \in Conns, NEW f \in Fds, Accept(c, f)
      PROVE  TypeOK'
  <2>1. Hello(c) \in Msg /\ <<Hello(c)>> \in Seq(Msg)
    BY DEF Hello, Msg
  <2>2. \/ c2s' = [c2s EXCEPT ![c] = <<Hello(c)>>] /\ nextId' = [nextId EXCEPT ![c] = 2]
        \/ UNCHANGED <<c2s, nextId>>
    BY <1>1 DEF Accept
  <2>3. c2s' \in [Conns -> Seq(Msg)] /\ nextId' \in [Conns -> Nat \ {0}]
    <3>1. 2 \in Nat \ {0}
      OBVIOUS
    <3>2. c2s' \in [Conns -> Seq(Msg)]
      BY <1>0, <2>1, <2>2 DEF VarTypes
    <3>3. nextId' \in [Conns -> Nat \ {0}]
      BY <1>0, <2>2, <3>1 DEF VarTypes
    <3> QED
      BY <3>2, <3>3
  <2>4. queue' \in Seq(Fds)
    BY <1>0, <1>1, AppendProperties DEF Accept, VarTypes
  <2>5. peer' \in [Conns -> {"none", "open", "closed", "reset"}]
    <3>1. peer' = [peer EXCEPT ![c] = "open"] \/ peer' = [peer EXCEPT ![c] = "closed"]
      BY <1>1 DEF Accept
    <3> QED
      BY <1>0, <3>1 DEF VarTypes
  <2>6. VarTypes'
    BY <1>0, <1>1, <2>3, <2>4, <2>5 DEF Accept, VarTypes
  <2>7. LocalsSet'
    BY <1>0, <1>1 DEF Accept, LocalsSet
  <2> QED
    BY <2>6, <2>7 DEF TypeOK
<1>2. ASSUME NEW c \in Conns, ClientStep(c)
      PROVE  TypeOK'
  <2>0. LocalsSet' /\ UNCHANGED <<workerVars, sharedVars, file, sockOf, up, restarts, s2c>>
    <3>1. ClientSame
      BY <1>2 DEF ClientStep, ClientAuth, ClientRequest, ClientQuit, ClientClose, ClientRead
    <3> QED
      BY <1>0, <3>1 DEF ClientSame, LocalsSet
  <2>1. ASSUME NEW n \in Logins[c], ClientAuth(c, n)
        PROVE  VarTypes'
    <3>1. n \in Names
      OBVIOUS
    <3> QED
      BY <1>0, <2>0, <2>1, <3>1, SendToServerTypes DEF ClientAuth, VarTypes
  <2>2. ASSUME NEW r \in Requests[c], ClientRequest(c, r)
        PROVE  VarTypes'
    <3>1. r \in [type : RequestTypes, name : Names, count : Nat]
      OBVIOUS
    <3>2. r.type \in RequestTypes /\ r.name \in Names /\ r.count \in Nat
      BY <3>1
    <3> QED
      BY <1>0, <2>0, <2>2, <3>2, SendToServerTypes DEF ClientRequest, VarTypes
  <2>3. CASE ClientQuit(c)
    <3>1. c2s' \in [Conns -> Seq(Msg)] /\ nextId' \in [Conns -> Nat \ {0}]
      BY <1>0, <2>3, SendToServerTypes DEF ClientQuit
    <3>2. peer' \in [Conns -> {"none", "open", "closed", "reset"}]
      BY <1>0, <2>3 DEF ClientQuit, VarTypes
    <3>3. VarTypes'
      BY <1>0, <2>0, <2>3, <3>1, <3>2 DEF ClientQuit, VarTypes
    <3> QED
      BY <2>0, <3>3 DEF TypeOK
  <2>4. CASE ClientClose(c)
    <3>1. peer' \in [Conns -> {"none", "open", "closed", "reset"}]
      BY <1>0, <2>4 DEF ClientClose, VarTypes
    <3>2. VarTypes'
      BY <1>0, <2>0, <2>4, <3>1 DEF ClientClose, VarTypes
    <3> QED
      BY <2>0, <3>2 DEF TypeOK
  <2>5. CASE ClientRead(c)
    <3>1. Len(s2c[c]) \in Nat
      BY <1>0, LenProperties DEF VarTypes
    <3>2. taken' \in [Conns -> Nat]
      BY <1>0, <2>5, <3>1 DEF ClientRead, VarTypes
    <3>3. VarTypes'
      BY <1>0, <2>0, <2>5, <3>2 DEF ClientRead, VarTypes
    <3> QED
      BY <2>0, <3>3 DEF TypeOK
  <2> QED
    BY <1>2, <2>0, <2>1, <2>2, <2>3, <2>4, <2>5 DEF ClientStep, TypeOK
<1>3. CASE Restart
  BY <1>0, <1>3 DEF Restart, TypeOK, VarTypes, LocalsSet
<1> QED
  BY <1>1, <1>2, <1>3

-----------------------------------------------------------------------------
(* Descriptors. *)

\* Every step keeps the descriptors owned: accept() gives a new one to the queue, a pop
\* hands it on to one worker, and only its worker closes it.
LEMMA DescriptorsStep ==
  ASSUME IInv, Next
  PROVE  DescriptorsOwned'
<1>0. TypeOK /\ VarTypes /\ LocalsSet /\ DescriptorsOwned
  BY DEF IInv, TypeOK
<1>1. CASE UNCHANGED <<queue, fd, sockOf>>
  BY <1>0, <1>1 DEF DescriptorsOwned
<1>2. ASSUME NEW c \in Conns, NEW f \in Fds, Accept(c, f)
      PROVE  DescriptorsOwned'
  <2>1. /\ sockOf[f] = None /\ queue' = Append(queue, f) /\ UNCHANGED fd
        /\ sockOf' = [sockOf EXCEPT ![f] = c]
    BY <1>2 DEF Accept, workerVars
  <2>2. /\ Len(queue) \in Nat /\ DOMAIN queue = 1..Len(queue)
        /\ queue' \in Seq(Fds) /\ Len(queue') = Len(queue) + 1
        /\ DOMAIN queue' = 1..(Len(queue) + 1)
        /\ \A i \in 1..Len(queue) : queue'[i] = queue[i]
        /\ queue'[Len(queue) + 1] = f
    BY <1>0, <2>1, AppendProperties, LenProperties DEF VarTypes
  <2>3. /\ \A i \in DOMAIN queue : queue[i] \in Fds /\ queue[i] # f
        /\ \A w \in Workers : fd[w] # f
    BY <1>0, <2>1, <2>2, ElementOfSeq DEF DescriptorsOwned, VarTypes
  <2>4. c # None /\ sockOf'[f] = c /\ \A g \in Fds : g # f => sockOf'[g] = sockOf[g]
    BY <1>0, <2>1 DEF VarTypes
  <2>5. ASSUME NEW g \in Fds
        PROVE  sockOf'[g] # None <=> \/ \E i \in DOMAIN queue' : queue'[i] = g
                                     \/ \E w \in Workers : fd'[w] = g
    <3>1. CASE g = f
      BY <2>2, <2>4, <3>1
    <3>2. CASE g # f
      <4>1. ASSUME NEW i \in DOMAIN queue', queue'[i] = g
            PROVE  i \in DOMAIN queue /\ queue[i] = g
        <5>1. i # Len(queue) + 1
          BY <2>2, <3>2, <4>1
        <5>2. i \in 1..Len(queue)
          BY <2>2, <5>1
        <5> QED
          BY <2>2, <4>1, <5>2
      <4>2. ASSUME NEW i \in DOMAIN queue, queue[i] = g
            PROVE  i \in DOMAIN queue' /\ queue'[i] = g
        BY <2>2, <4>2
      <4> QED
        BY <1>0, <2>1, <2>4, <3>2, <4>1, <4>2 DEF DescriptorsOwned
    <3> QED
      BY <3>1, <3>2
  <2>6. /\ \A i, j \in DOMAIN queue' : queue'[i] = queue'[j] => i = j
        /\ \A i \in DOMAIN queue', w \in Workers : queue'[i] # fd'[w]
    BY <1>0, <2>1, <2>2, <2>3 DEF DescriptorsOwned
  <2>7. \A v, w \in Workers : fd'[v] = fd'[w] /\ fd'[v] # None => v = w
    BY <1>0, <2>1 DEF DescriptorsOwned
  <2> QED
    BY <2>5, <2>6, <2>7 DEF DescriptorsOwned
<1>3. ASSUME NEW w \in Workers, Pop(w)
      PROVE  DescriptorsOwned'
  <2>1. /\ queue # <<>> /\ queue' = Tail(queue) /\ fd' = [fd EXCEPT ![w] = Head(queue)]
        /\ UNCHANGED sockOf /\ fd[w] = None
    BY <1>0, <1>3 DEF Pop, Popped, At, LocalsSet
  <2>2. /\ Len(queue) \in Nat \ {0} /\ DOMAIN queue = 1..Len(queue)
        /\ queue' \in Seq(Fds) /\ DOMAIN queue' = 1..(Len(queue) - 1)
        /\ \A i \in 1..(Len(queue) - 1) : queue'[i] = queue[i + 1]
        /\ Head(queue) = queue[1]
    BY <1>0, <2>1, HeadTailProperties, LenProperties, EmptySeq DEF VarTypes
  <2>3. fd'[w] = queue[1] /\ \A v \in Workers : v # w => fd'[v] = fd[v]
    BY <1>0, <2>1, <2>2 DEF VarTypes
  <2>4. ASSUME NEW g \in Fds
        PROVE  sockOf'[g] # None <=> \/ \E i \in DOMAIN queue' : queue'[i] = g
                                     \/ \E v \in Workers : fd'[v] = g
    <3>1. (\E i \in DOMAIN queue : queue[i] = g)
            <=> (queue[1] = g \/ \E i \in DOMAIN queue' : queue'[i] = g)
      <4>1. ASSUME NEW i \in DOMAIN queue, queue[i] = g, i # 1
            PROVE  \E j \in DOMAIN queue' : queue'[j] = g
        <5>1. i - 1 \in DOMAIN queue' /\ (i - 1) + 1 = i
          BY <2>2, <4>1
        <5> QED
          BY <2>2, <4>1, <5>1
      <4>2. ASSUME NEW i \in DOMAIN queue', queue'[i] = g
            PROVE  \E j \in DOMAIN queue : queue[j] = g
        <5>1. i + 1 \in DOMAIN queue
          BY <2>2
        <5> QED
          BY <2>2, <4>2, <5>1
      <4>3. 1 \in DOMAIN queue
        BY <2>2
      <4> QED
        BY <4>1, <4>2, <4>3
    <3>2. (\E v \in Workers : fd'[v] = g) <=> (queue[1] = g \/ \E v \in Workers : fd[v] = g)
      BY <2>1, <2>3
    <3> QED
      BY <1>0, <2>1, <3>1, <3>2 DEF DescriptorsOwned
  <2>5. ASSUME NEW i \in DOMAIN queue'
        PROVE  /\ queue'[i] = queue[i + 1] /\ i + 1 \in DOMAIN queue /\ i + 1 # 1
               /\ 1 \in DOMAIN queue
    BY <2>2
  <2>6. \A i, j \in DOMAIN queue' : queue'[i] = queue'[j] => i = j
    <3> SUFFICES ASSUME NEW i \in DOMAIN queue', NEW j \in DOMAIN queue',
                        queue'[i] = queue'[j]
                 PROVE  i = j
      OBVIOUS
    <3>1. i + 1 = j + 1
      BY <1>0, <2>5 DEF DescriptorsOwned
    <3> QED
      BY <2>2, <3>1
  <2>7. \A i \in DOMAIN queue', v \in Workers : queue'[i] # fd'[v]
    BY <1>0, <2>3, <2>5 DEF DescriptorsOwned
  <2>8. \A u, v \in Workers : fd'[u] = fd'[v] /\ fd'[u] # None => u = v
    <3>1. 1 \in DOMAIN queue
      BY <2>2
    <3> QED
      BY <1>0, <2>3, <3>1 DEF DescriptorsOwned
  <2> QED
    BY <2>4, <2>6, <2>7, <2>8 DEF DescriptorsOwned
<1>4. ASSUME NEW w \in Workers, pc[w] # "pop", CloseSocket(w), NextClient(w), UNCHANGED queue
      PROVE  DescriptorsOwned'
  <2>1. /\ fd[w] \in Fds /\ fd'[w] = None /\ \A v \in Workers : v # w => fd'[v] = fd[v]
        /\ sockOf'[fd[w]] = None /\ \A g \in Fds : g # fd[w] => sockOf'[g] = sockOf[g]
    BY <1>0, <1>4, HasSocket DEF CloseSocket, NextClient, VarTypes
  <2>2. \A i \in DOMAIN queue, v \in Workers : queue[i] # fd[w] /\ (v # w => fd[v] # fd[w])
    BY <1>0, <2>1 DEF DescriptorsOwned
  <2>3. ASSUME NEW i \in DOMAIN queue
        PROVE  queue[i] # None
    <3>1. queue[i] \in Fds
      BY <1>0, LenProperties, ElementOfSeq DEF VarTypes
    <3> QED
      BY <3>1
  <2>4. \A g \in Fds : sockOf'[g] # None <=> \/ \E i \in DOMAIN queue' : queue'[i] = g
                                             \/ \E v \in Workers : fd'[v] = g
    BY <1>0, <1>4, <2>1, <2>2 DEF DescriptorsOwned
  <2>5. /\ \A i, j \in DOMAIN queue' : queue'[i] = queue'[j] => i = j
        /\ \A i \in DOMAIN queue', v \in Workers : queue'[i] # fd'[v]
        /\ \A u, v \in Workers : fd'[u] = fd'[v] /\ fd'[u] # None => u = v
    BY <1>0, <1>4, <2>1, <2>3 DEF DescriptorsOwned
  <2> QED
    BY <2>4, <2>5 DEF DescriptorsOwned
<1>5. ASSUME NEW w \in Workers, Sigpipe(w)
      PROVE  DescriptorsOwned'
  <2>1. /\ queue' = <<>> /\ fd' = [v \in Workers |-> None] /\ sockOf' = [f \in Fds |-> None]
    BY <1>5 DEF Sigpipe
  <2>2. DOMAIN queue' = {}
    BY <2>1
  <2> QED
    BY <2>1, <2>2 DEF DescriptorsOwned
<1>6. ASSUME NEW w \in Workers, WorkerStep(w)
      PROVE  DescriptorsOwned'
  <2> USE DEF At, workerVars, sharedVars
  <2>1. CASE RecvHello(w)
    <3>1. UNCHANGED <<queue, fd, sockOf>> \/ (CloseSocket(w) /\ NextClient(w) /\ UNCHANGED queue)
      BY <2>1 DEF RecvHello
    <3> QED
      BY <1>1, <1>4, <2>1, <3>1 DEF RecvHello
  <2>2. CASE Refuse(w) \/ LockOffline(w) \/ LockClients(w)
    BY <1>1, <2>2 DEF Refuse, LockOffline, LockClients
  <2>3. CASE CloseClient(w)
    BY <1>4, <2>3 DEF CloseClient
  <2>4. CASE SendWelcome(w) \/ RecvAuth(w) \/ CheckNick(w) \/ Register(w) \/ SendInfo(w)
             \/ DeliverOffline(w) \/ RecvRequest(w) \/ Broadcast(w) \/ Lookup(w)
    BY <1>1, <2>4 DEF AfterStage, SendWelcome, RecvAuth, CheckNick, Register, SendInfo,
                      DeliverOffline, RecvRequest, Broadcast, Lookup
  <2>5. CASE FindTarget(w) \/ SendPrivate(w) \/ StoreOffline(w) \/ SaveHistory(w)
             \/ ListUsers(w) \/ CollectHistory(w) \/ SendAnswer(w) \/ RemoveClient(w)
    BY <1>1, <2>5 DEF FindTarget, SendPrivate, StoreOffline, SaveHistory, ListUsers,
                      CollectHistory, SendAnswer, RemoveClient
  <2> QED
    BY <1>3, <1>5, <1>6, <2>1, <2>2, <2>3, <2>4, <2>5 DEF WorkerStep
<1>7. ASSUME NEW c \in Conns, ClientStep(c)
      PROVE  DescriptorsOwned'
  <2>1. ClientSame
    BY <1>7 DEF ClientStep, ClientAuth, ClientRequest, ClientQuit, ClientClose, ClientRead
  <2> QED
    BY <1>1, <2>1 DEF ClientSame, workerVars, sharedVars
<1>8. CASE Restart
  BY <1>1, <1>8 DEF Restart, workerVars, sharedVars
<1> QED
  BY <1>2, <1>6, <1>7, <1>8 DEF Next

-----------------------------------------------------------------------------
(* The registry. *)

\* The stages at which a worker's client is in g_clients.
Entered(w) == InSession(w) \/ pc[w] = "remove"

\* RegistryOwned without what follows from DescriptorsOwned.
EntriesOwned ==
  /\ \A i \in DOMAIN clients : \E w \in Workers :
       fd[w] = clients[i].sock /\ nick[w] = clients[i].nickname /\ Entered(w)
  /\ \A i, j \in DOMAIN clients : clients[i].sock = clients[j].sock => i = j
  /\ \A w \in Workers : InSession(w) => \E i \in DOMAIN clients : fd[w] = clients[i].sock

\* That an entry's socket is open follows from who owns it.
LEMMA EntriesSuffice ==
  ASSUME TypeOK, DescriptorsOwned
  PROVE  RegistryOwned <=> EntriesOwned
<1>1. ASSUME NEW i \in DOMAIN clients, NEW w \in Workers, fd[w] = clients[i].sock, Entered(w)
      PROVE  sockOf[clients[i].sock] # None
  <2>1. pc[w] # "pop"
    BY <1>1 DEF Entered, InSession, SessionStages
  <2> QED
    BY <1>1, <2>1, HasSocket
<1>2. RegistryOwned => EntriesOwned
  BY DEF RegistryOwned, EntriesOwned, Entered, Socks
<1>3. EntriesOwned => RegistryOwned
  BY <1>1 DEF RegistryOwned, EntriesOwned, Entered, Socks
<1> QED
  BY <1>2, <1>3

\* An entry is owned by one worker only.
LEMMA OneOwner ==
  ASSUME TypeOK, DescriptorsOwned, EntriesOwned, NEW w \in Workers, pc[w] # "pop",
         NEW i \in DOMAIN clients, clients[i].sock = fd[w]
  PROVE  Entered(w)
<1>1. PICK v \in Workers : fd[v] = clients[i].sock /\ Entered(v)
  BY DEF EntriesOwned
<1>2. fd[w] # None
  BY HasSocket
<1>3. v = w
  BY <1>1, <1>2 DEF DescriptorsOwned
<1> QED
  BY <1>1, <1>3

\* Every step keeps the registry owned.  Only register and remove_client() change it;
\* all others leave it alone, and no worker loses its entry by them.
LEMMA EntriesStep ==
  ASSUME TypeOK, DescriptorsOwned, EntriesOwned, Next
  PROVE  EntriesOwned'
<1> USE DEF InSession
<1>0. VarTypes /\ LocalsSet
  BY DEF TypeOK
\* A worker that owns its entry keeps it, one that does not may do anything but begin
\* a session; the others do nothing.
<1>1. ASSUME NEW w \in Workers, UNCHANGED clients,
             \A v \in Workers : v # w => UNCHANGED <<pc[v], fd[v], nick[v]>>,
             Entered(w) => UNCHANGED <<fd[w], nick[w]>> /\ Entered(w)',
             InSession(w)' => InSession(w)
      PROVE  EntriesOwned'
  <2>1. ASSUME NEW i \in DOMAIN clients
        PROVE  \E v \in Workers :
                 fd'[v] = clients[i].sock /\ nick'[v] = clients[i].nickname /\ Entered(v)'
    <3>1. PICK v \in Workers :
            fd[v] = clients[i].sock /\ nick[v] = clients[i].nickname /\ Entered(v)
      BY DEF EntriesOwned
    <3>2. fd'[v] = fd[v] /\ nick'[v] = nick[v] /\ Entered(v)'
      BY <1>1, <3>1 DEF Entered
    <3> QED
      BY <3>1, <3>2
  <2>2. ASSUME NEW v \in Workers, InSession(v)'
        PROVE  \E i \in DOMAIN clients : fd'[v] = clients[i].sock
    <3>1. InSession(v) /\ fd'[v] = fd[v]
      BY <1>1, <2>2 DEF Entered
    <3> QED
      BY <3>1 DEF EntriesOwned
  <2> QED
    BY <1>1, <2>1, <2>2 DEF EntriesOwned
<1>2. CASE UNCHANGED <<clients, pc, fd, nick>>
  BY <1>2 DEF EntriesOwned, Entered
<1>3. ASSUME NEW w \in Workers, Register(w)
      PROVE  EntriesOwned'
  <2> DEFINE e == [sock |-> fd[w], nickname |-> nick[w]]
  <2>1. /\ pc[w] = "register" /\ pc' = [pc EXCEPT ![w] = "info"]
        /\ clients' = Append(clients, e) /\ UNCHANGED <<fd, nick>>
    BY <1>3 DEF Register, AfterStage, At, Goto
  <2>2. e.sock = fd[w] /\ e.nickname = nick[w]
    OBVIOUS
  <2> HIDE DEF e
  <2>3. /\ Len(clients) \in Nat /\ DOMAIN clients = 1..Len(clients)
        /\ DOMAIN clients' = 1..(Len(clients) + 1)
        /\ \A i \in 1..Len(clients) : clients'[i] = clients[i]
        /\ clients'[Len(clients) + 1] = e
    <3>1. clients \in Seq(Client \cup {e})
      BY <1>0, SeqMonotonic DEF VarTypes
    <3> QED
      BY <2>1, <3>1, AppendProperties, LenProperties
  <2>4. /\ pc'[w] = "info" /\ Entered(w)' /\ ~ Entered(w)
        /\ \A v \in Workers : v # w => pc'[v] = pc[v]
    BY <1>0, <2>1 DEF VarTypes, Entered, SessionStages, Stages
  <2>5. \A i \in DOMAIN clients : clients[i].sock # fd[w]
    BY <2>1, <2>4, OneOwner
  <2>6. ASSUME NEW i \in DOMAIN clients'
        PROVE  \E v \in Workers :
                 fd'[v] = clients'[i].sock /\ nick'[v] = clients'[i].nickname /\ Entered(v)'
    <3>1. CASE i = Len(clients) + 1
      BY <2>1, <2>2, <2>3, <2>4, <3>1
    <3>2. CASE i \in DOMAIN clients
      <4>1. PICK v \in Workers :
              fd[v] = clients[i].sock /\ nick[v] = clients[i].nickname /\ Entered(v)
        BY <3>2 DEF EntriesOwned
      <4>2. Entered(v)'
        BY <2>4, <4>1 DEF Entered
      <4> QED
        BY <2>1, <2>3, <3>2, <4>1, <4>2
    <3> QED
      BY <2>3, <3>1, <3>2
  <2>7. \A i, j \in DOMAIN clients' : clients'[i].sock = clients'[j].sock => i = j
    BY <2>2, <2>3, <2>5 DEF EntriesOwned
  <2>8. ASSUME NEW v \in Workers, InSession(v)'
        PROVE  \E i \in DOMAIN clients' : fd'[v] = clients'[i].sock
    <3>1. CASE v = w
      <4>1. Len(clients) + 1 \in DOMAIN clients'
        BY <2>3
      <4> QED
        BY <2>1, <2>2, <2>3, <3>1, <4>1
    <3>2. CASE v # w
      <4>1. PICK i \in DOMAIN clients : fd[v] = clients[i].sock
        BY <2>4, <2>8, <3>2 DEF EntriesOwned
      <4>2. i \in DOMAIN clients' /\ clients'[i] = clients[i]
        BY <2>3
      <4> QED
        BY <2>1, <4>1, <4>2
    <3> QED
      BY <3>1, <3>2
  <2> QED
    BY <2>6, <2>7, <2>8 DEF EntriesOwned
<1>4. ASSUME NEW w \in Workers, RemoveClient(w)
      PROVE  EntriesOwned'
  <2>1. /\ pc[w] = "remove" /\ pc' = [pc EXCEPT ![w] = "close"]
        /\ clients' = Without(fd[w]) /\ UNCHANGED <<fd, nick>>
    BY <1>4 DEF RemoveClient, At, Goto
  <2>2. /\ pc'[w] = "close" /\ fd[w] \in Fds
        /\ \A v \in Workers : v # w => pc'[v] = pc[v]
    BY <1>0, <2>1, HasSocket DEF VarTypes
  <2>3. /\ \A i \in DOMAIN clients' : \E j \in DOMAIN clients :
             clients'[i] = clients[j] /\ clients[j].sock # fd[w]
        /\ \A j \in DOMAIN clients : clients[j].sock # fd[w] =>
             \E i \in DOMAIN clients' : clients'[i] = clients[j]
        /\ \A i, j \in DOMAIN clients' : clients'[i].sock = clients'[j].sock => i = j
    <3>1. \A i, j \in DOMAIN clients : clients[i].sock = clients[j].sock => i = j
      BY DEF EntriesOwned
    <3> QED
      BY <1>0, <2>1, <3>1, WithoutSpec
  <2>4. ASSUME NEW i \in DOMAIN clients'
        PROVE  \E v \in Workers :
                 fd'[v] = clients'[i].sock /\ nick'[v] = clients'[i].nickname /\ Entered(v)'
    <3>1. PICK j \in DOMAIN clients : clients'[i] = clients[j] /\ clients[j].sock # fd[w]
      BY <2>3
    <3>2. PICK v \in Workers :
            fd[v] = clients[j].sock /\ nick[v] = clients[j].nickname /\ Entered(v)
      BY DEF EntriesOwned
    <3>3. Entered(v)'
      BY <2>2, <3>1, <3>2 DEF Entered
    <3> QED
      BY <2>1, <3>1, <3>2, <3>3
  <2>5. ASSUME NEW v \in Workers, InSession(v)'
        PROVE  \E i \in DOMAIN clients' : fd'[v] = clients'[i].sock
    <3>1. v # w /\ InSession(v)
      BY <2>2, <2>5 DEF SessionStages
    <3>2. PICK j \in DOMAIN clients : fd[v] = clients[j].sock
      BY <3>1 DEF EntriesOwned
    <3>3. fd[v] # fd[w]
      BY <2>2, <3>1 DEF DescriptorsOwned
    <3>4. PICK i \in DOMAIN clients' : clients'[i] = clients[j]
      BY <2>3, <3>2, <3>3
    <3> QED
      BY <2>1, <3>2, <3>4
  <2> QED
    BY <2>3, <2>4, <2>5 DEF EntriesOwned
<1>5. ASSUME NEW w \in Workers, Sigpipe(w)
      PROVE  EntriesOwned'
  <2>1. clients' = <<>> /\ pc' = [v \in Workers |-> "pop"]
    BY <1>5 DEF Sigpipe
  <2>2. DOMAIN clients' = {} /\ \A v \in Workers : ~ InSession(v)'
    BY <2>1 DEF SessionStages
  <2> QED
    BY <2>2 DEF EntriesOwned
<1>6. ASSUME NEW w \in Workers, WorkerStep(w)
      PROVE  EntriesOwned'
  <2>0. pc \in [Workers -> Stages] /\ fd \in [Workers -> Fds \cup {None}]
        /\ nick \in [Workers -> Names]
    BY <1>0 DEF VarTypes
  <2> USE <2>0 DEF At, Goto, workerVars, sharedVars, NextClient, Entered, Stages,
                   SessionStages
  <2>1. CASE Pop(w)
    BY <1>1, <2>1 DEF Pop, Popped
  <2>2. CASE RecvHello(w)
    BY <1>1, <2>2 DEF RecvHello
  <2>3. CASE SendWelcome(w)
    BY <1>1, <2>3 DEF SendWelcome
  <2>4. CASE RecvAuth(w)
    BY <1>1, <2>4 DEF RecvAuth, FirstVerdict
  <2>5. CASE CheckNick(w)
    BY <1>1, <2>5 DEF CheckNick
  <2>6. CASE Refuse(w)
    BY <1>1, <2>6 DEF Refuse
  <2>7. CASE SendInfo(w)
    BY <1>1, <2>7 DEF SendInfo, AfterStage
  <2>8. CASE DeliverOffline(w)
    BY <1>1, <2>8, DeliverMoves
  <2>9. CASE RecvRequest(w)
    <3>1. \/ pc' = [pc EXCEPT ![w] = "remove"]
          \/ \E m \in Msg : pc' = [pc EXCEPT ![w] = Handler[m.type]]
      <4>1. pc[w] # "pop"
        BY <2>9 DEF RecvRequest
      <4> QED
        BY <2>9, <4>1, ReceiveTypes DEF RecvRequest
    <3>2. \A m \in Msg : Handler[m.type] \in SessionStages \cup {"remove"}
      BY DEF Handler, Msg, RequestTypes
    <3>3. Entered(w)' /\ Entered(w) /\ InSession(w)
      BY <2>9, <3>1, <3>2 DEF RecvRequest
    <3>4. \A v \in Workers : v # w => pc'[v] = pc[v]
      BY <3>1
    <3> QED
      BY <1>1, <2>9, <3>3, <3>4 DEF RecvRequest
  <2>10. CASE Broadcast(w)
    BY <1>1, <2>10 DEF Broadcast
  <2>11. CASE Lookup(w)
    BY <1>1, <2>11 DEF Lookup
  <2>12. CASE FindTarget(w)
    BY <1>1, <2>12 DEF FindTarget
  <2>13. CASE SendPrivate(w)
    BY <1>1, <2>13 DEF SendPrivate
  <2>14. CASE StoreOffline(w)
    BY <1>1, <2>14 DEF StoreOffline
  <2>15. CASE SaveHistory(w)
    BY <1>1, <2>15 DEF SaveHistory
  <2>16. CASE ListUsers(w)
    BY <1>1, <2>16 DEF ListUsers
  <2>17. CASE CollectHistory(w)
    BY <1>1, <2>17 DEF CollectHistory
  <2>18. CASE SendAnswer(w)
    BY <1>1, <2>18 DEF SendAnswer
  <2>19. CASE CloseClient(w)
    BY <1>1, <2>19 DEF CloseClient
  <2>20. CASE LockClients(w) \/ LockOffline(w)
    BY <1>1, <2>20 DEF LockClients, LockOffline
  <2> QED
    BY <1>3, <1>4, <1>5, <1>6, <2>1, <2>2, <2>3, <2>4, <2>5, <2>6, <2>7, <2>8, <2>9, <2>10,
       <2>11, <2>12, <2>13, <2>14, <2>15, <2>16, <2>17, <2>18, <2>19, <2>20 DEF WorkerStep
<1>7. ASSUME NEW c \in Conns, NEW f \in Fds, Accept(c, f)
      PROVE  EntriesOwned'
  BY <1>2, <1>7 DEF Accept, workerVars
<1>8. ASSUME NEW c \in Conns, ClientStep(c)
      PROVE  EntriesOwned'
  <2>1. ClientSame
    BY <1>8 DEF ClientStep, ClientAuth, ClientRequest, ClientQuit, ClientClose, ClientRead
  <2> QED
    BY <1>2, <2>1 DEF ClientSame, workerVars, sharedVars
<1>9. CASE Restart
  BY <1>2, <1>9 DEF Restart, workerVars, sharedVars
<1> QED
  BY <1>6, <1>7, <1>8, <1>9 DEF Next

-----------------------------------------------------------------------------
(* The invariant. *)

\* The invariant holds when the server starts: nothing is open, nobody is registered.
LEMMA InitIInv == Init => IInv
<1> SUFFICES ASSUME Init PROVE IInv
  OBVIOUS
<1>1. VarTypes
  <2>1. /\ queue \in Seq(Fds) /\ clients \in Seq(Client) /\ history \in Seq(Record)
        /\ file \in Seq(Record) /\ offline \in [Names -> Seq(Msg)]
        /\ c2s \in [Conns -> Seq(Msg)] /\ s2c \in [Conns -> Seq(Reply)]
    BY EmptySeq DEF Init
  <2>2. /\ pc \in [Workers -> Stages] /\ fd \in [Workers -> Fds \cup {None}]
        /\ nick \in [Workers -> Names] /\ msg \in [Workers -> Msg \cup {None}]
        /\ idx \in [Workers -> Nat \ {0}] /\ target \in [Workers -> Fds \cup {None}]
        /\ reply \in [Workers -> Reply \cup {None}]
    BY DEF Init, Stages
  <2>3. /\ sockOf \in [Fds -> Conns \cup {None}] /\ login \in [Conns -> Names]
        /\ peer \in [Conns -> {"none", "open", "closed", "reset"}]
        /\ nextId \in [Conns -> Nat \ {0}] /\ taken \in [Conns -> Nat]
        /\ restarts \in 0..MaxRestarts
    BY DEF Init
  <2> QED
    BY <2>1, <2>2, <2>3 DEF VarTypes, Init
<1>2. LocalsSet
  BY DEF Init, LocalsSet, SessionStages, RequestStages
<1>3. DescriptorsOwned
  <2>1. DOMAIN queue = {}
    BY DEF Init
  <2> QED
    BY <2>1 DEF Init, DescriptorsOwned
<1>4. EntriesOwned
  <2>1. DOMAIN clients = {}
    BY DEF Init
  <2> QED
    BY <2>1 DEF Init, EntriesOwned, InSession, SessionStages
<1> QED
  BY <1>1, <1>2, <1>3, <1>4, EntriesSuffice DEF IInv, TypeOK

\* The invariant is inductive.
LEMMA StepIInv == IInv /\ [Next]_vars => IInv'
<1> SUFFICES ASSUME IInv, [Next]_vars PROVE IInv'
  OBVIOUS
<1>0. TypeOK /\ DescriptorsOwned /\ EntriesOwned
  BY EntriesSuffice DEF IInv
<1>1. CASE Next
  <2>1. TypeOK'
    BY <1>0, <1>1, TypeStep, OtherTypeStep DEF Next
  <2>2. DescriptorsOwned'
    BY <1>1, DescriptorsStep
  <2>3. EntriesOwned'
    BY <1>0, <1>1, EntriesStep
  <2>4. RegistryOwned'
    BY <2>1, <2>2, <2>3, EntriesSuffice, PTL
  <2> QED
    BY <2>1, <2>2, <2>4 DEF IInv
<1>2. CASE UNCHANGED vars
  BY <1>2 DEF IInv, TypeOK, VarTypes, LocalsSet, DescriptorsOwned, RegistryOwned, InSession,
              Socks, vars, workerVars, sharedVars, clientVars
<1> QED
  BY <1>1, <1>2

\* The types, the ownership of the descriptors and that of the registry hold together:
\* none is inductive without the ones before it.
THEOREM Invariance == Spec => []IInv
  BY InitIInv, StepIInv, PTL DEF Spec

\* Every variable of the server has its type, and a worker's locals are set when they
\* are used, whatever the numbers of connections, workers and descriptors are.
THEOREM TypeCorrect == Spec => []TypeOK
<1>1. IInv => TypeOK
  BY DEF IInv
<1> QED
  BY <1>1, Invariance, PTL

\* No descriptor leaks, none is closed twice, none is served by two workers: a
\* descriptor is open exactly as long as it is in g_queue or in the hands of one worker.
THEOREM NoDescriptorLeaks == Spec => []DescriptorsOwned
<1>1. IInv => DescriptorsOwned
  BY DEF IInv
<1> QED
  BY <1>1, Invariance, PTL

\* An entry of g_clients always names an open socket, that of the worker that serves
\* this nickname, and every client in the chat has its entry: remove_client() comes
\* before close(), and broadcast() reads the socket and sends under one lock.
THEOREM RegistryIsSound == Spec => []RegistryOwned
<1>1. IInv => RegistryOwned
  BY DEF IInv
<1> QED
  BY <1>1, Invariance, PTL

-----------------------------------------------------------------------------
(* The refinement. *)

\* What a worker does to the queue and its descriptor is a step of the promised queue.
LEMMA WorkerHandoff ==
  ASSUME TypeOK, DescriptorsOwned, NEW w \in Workers, WorkerStep(w)
  PROVE  \/ \E v \in Workers : Handoff!Take(v) \/ Handoff!Finish(v)
         \/ Handoff!Die
         \/ UNCHANGED <<queue, fd>>
<1> USE DEF At, workerVars, sharedVars
<1>1. CASE Pop(w)
  <2>1. fd[w] = None
    BY <1>1 DEF Pop, TypeOK, LocalsSet
  <2> QED
    BY <1>1, <2>1 DEF Pop, Popped, Handoff!Take
<1>2. CASE pc[w] # "pop" /\ NextClient(w) /\ UNCHANGED queue
  <2>1. fd[w] # None
    BY <1>2, HasSocket
  <2> QED
    BY <1>2, <2>1 DEF NextClient, Handoff!Finish
<1>3. CASE RecvHello(w)
  BY <1>2, <1>3 DEF RecvHello
<1>5. CASE CloseClient(w)
  BY <1>2, <1>5 DEF CloseClient
<1>6. CASE Sigpipe(w)
  BY <1>6 DEF Sigpipe, Handoff!Die
<1>7. CASE ~ (Pop(w) \/ RecvHello(w) \/ CloseClient(w) \/ Sigpipe(w))
  BY <1>7
     DEF AfterStage, WorkerStep, SendWelcome, RecvAuth, CheckNick, Refuse, Register, SendInfo,
         DeliverOffline, RecvRequest, Broadcast, Lookup, FindTarget, SendPrivate, StoreOffline,
         SaveHistory, ListUsers, CollectHistory, SendAnswer, RemoveClient, LockClients,
         LockOffline
<1> QED
  BY <1>1, <1>3, <1>5, <1>6, <1>7

\* Every step of the server or of a client is one of the promised queue, or none.
LEMMA StepHandoff ==
  ASSUME TypeOK, DescriptorsOwned, [Next]_vars
  PROVE  [Handoff!Next]_<<queue, fd>>
<1> USE DEF workerVars, sharedVars
<1>1. ASSUME NEW c \in Conns, NEW f \in Fds, Accept(c, f)
      PROVE  Handoff!Arrive(f)
  <2>1. sockOf[f] = None
    BY <1>1 DEF Accept
  <2>2. ~ Handoff!InUse(f)
    BY <2>1 DEF DescriptorsOwned, Handoff!InUse
  <2> QED
    BY <1>1, <2>2 DEF Accept, Handoff!Arrive
<1>2. ASSUME NEW c \in Conns, ClientStep(c)
      PROVE  UNCHANGED <<queue, fd>>
  BY <1>2 DEF ClientStep, ClientAuth, ClientRequest, ClientQuit, ClientClose, ClientRead,
              ClientSame
<1>3. CASE Restart
  BY <1>3 DEF Restart
<1>4. CASE UNCHANGED vars
  BY <1>4 DEF vars
<1> QED
  BY <1>1, <1>2, <1>3, <1>4, WorkerHandoff DEF Next, Handoff!Next

\* With all that happens between a pop and a close, the server still hands out its
\* connections as the promised queue does: the pool of ConnQueue is used as intended.
THEOREM ServerImplementsPool == Spec => ImplementsPool
<1>1. Init => Handoff!Init
  BY DEF Init, Handoff!Init
<1>2. IInv /\ [Next]_vars => [Handoff!Next]_<<queue, fd>>
  BY StepHandoff DEF IInv
<1> QED
  BY <1>1, <1>2, Invariance, PTL DEF Spec, ImplementsPool, Handoff!Spec

-----------------------------------------------------------------------------
(* The order of messages: a client's messages are taken in the order in which they were    *)
(* sent, each by the one worker that serves the client, and are recorded in that order,    *)
(* whatever happens between them.                                                          *)

\* A message that is no longer in the stream from its client, and before all that are.
Read(m) ==
  /\ 0 < m.id /\ m.id < nextId[m.src]
  /\ \A k \in DOMAIN c2s[m.src] : m.id < c2s[m.src][k].id

\* It was also taken before the message that its client's worker handles at these stages.
After(m, stages) ==
  /\ Read(m)
  /\ \A w \in Workers : pc[w] \in stages /\ msg[w].src = m.src => m.id < msg[w].id

\* From the moment a PRIVATE was taken until it is sent or stored.
PendingStages == {"lookup", "deliver", "private", "store"}

Done(m) == After(m, RequestStages)
Earlier(m) == After(m, PendingStages)

\* A connection has one descriptor, and had none before it was accepted; its stream
\* holds its client's messages in the order of their numbers.
Streams ==
  /\ \A f \in Fds : sockOf[f] # None => peer[sockOf[f]] # "none"
  /\ \A f, g \in Fds : sockOf[f] = sockOf[g] /\ sockOf[f] # None => f = g
  /\ \A c \in Conns : peer[c] = "none" => nextId[c] = 1 /\ c2s[c] = <<>>
  /\ \A c \in Conns : \A k \in DOMAIN c2s[c] :
       c2s[c][k].src = c /\ 0 < c2s[c][k].id /\ c2s[c][k].id < nextId[c]
  /\ \A c \in Conns : \A j, k \in DOMAIN c2s[c] : j < k => c2s[c][j].id < c2s[c][k].id

\* What a worker handles came from the client it serves, and has the type of its stage.
Handling ==
  \A w \in Workers : pc[w] \in RequestStages =>
    /\ msg[w].src = sockOf[fd[w]] /\ Read(msg[w])
    /\ pc[w] = "broadcast" => msg[w].type = "TEXT"
    /\ pc[w] = "saveSent" => msg[w].type \in {"TEXT", "PRIVATE"}
    /\ pc[w] = "history" => msg[w].type = "HISTORY"
    /\ pc[w] \in PendingStages \cup {"saveStored"} => msg[w].type = "PRIVATE"

\* What is recorded was taken before all that is still handled, and is in order.
MsgsOf(recs) == {recs[i].msg : i \in DOMAIN recs}
Ordered(recs) == (\A m \in MsgsOf(recs) : Done(m)) /\ InSendingOrder(recs)

Recorded == Ordered(history) /\ Ordered(file)

OrderInv == Streams /\ Handling /\ Recorded

-----------------------------------------------------------------------------
(* What a step does to the sockets, the streams and the workers. *)

\* A send() makes no connection and forgets none.
LEMMA SendPeers ==
  ASSUME VarTypes, NEW f \in Fds, NEW r, Send(f, r)
  PROVE  \A c \in Conns : peer'[c] = "none" <=> peer[c] = "none"
  BY DEF VarTypes, Send

\* Only accept() opens a descriptor, and only for a connection that is new.
LEMMA SocketCases ==
  ASSUME IInv, Next
  PROVE  \/ \E c \in Conns, f \in Fds : Accept(c, f)
         \/ /\ \A f \in Fds : sockOf'[f] \in {sockOf[f], None}
            /\ \A c \in Conns : peer'[c] = "none" <=> peer[c] = "none"
<1> USE DEF At, sharedVars, workerVars, ServerSame, clientVars
<1>0. TypeOK /\ VarTypes /\ DescriptorsOwned
  BY DEF IInv, TypeOK
<1>1. ASSUME NEW w \in Workers, WorkerStep(w)
      PROVE  /\ \A f \in Fds : sockOf'[f] \in {sockOf[f], None}
             /\ \A c \in Conns : peer'[c] = "none" <=> peer[c] = "none"
  <2>0. pc[w] # "pop" => fd[w] \in Fds
    BY <1>0, HasSocket
  <2> USE <1>0, <2>0 DEF VarTypes, CloseSocket
  <2>1. CASE Pop(w) \/ RecvHello(w) \/ RecvAuth(w) \/ CheckNick(w) \/ Register(w)
    BY <2>1 DEF Pop, RecvHello, RecvAuth, CheckNick, Register
  <2>2. CASE SendWelcome(w) \/ Refuse(w) \/ SendInfo(w) \/ SendAnswer(w)
    BY <2>2, SendPeers DEF SendWelcome, Refuse, SendInfo, SendAnswer
  <2>3. CASE DeliverOffline(w)
    BY <2>3, SendPeers DEF DeliverOffline
  <2>4. CASE Broadcast(w)
    <3>1. idx[w] <= Len(clients) => clients[idx[w]].sock \in Fds
      <4> SUFFICES ASSUME idx[w] <= Len(clients) PROVE clients[idx[w]].sock \in Fds
        OBVIOUS
      <4>1. idx[w] \in 1..Len(clients)
        BY LenProperties
      <4> QED
        BY <4>1, ElementOfSeq, ClientFields
    <3> QED
      BY <2>4, <3>1, SendPeers DEF Broadcast
  <2>5. CASE SendPrivate(w)
    BY <2>5, SendPeers DEF SendPrivate, TypeOK, LocalsSet
  <2>6. CASE RecvRequest(w) \/ Lookup(w) \/ FindTarget(w) \/ StoreOffline(w) \/ SaveHistory(w)
             \/ ListUsers(w) \/ CollectHistory(w) \/ RemoveClient(w) \/ CloseClient(w)
             \/ LockClients(w) \/ LockOffline(w)
    BY <2>6 DEF RecvRequest, Lookup, FindTarget, StoreOffline, SaveHistory, ListUsers,
                CollectHistory, RemoveClient, CloseClient, LockClients, LockOffline
  <2>7. CASE Sigpipe(w)
    BY <2>7 DEF Sigpipe
  <2> QED
    BY <1>1, <2>1, <2>2, <2>3, <2>4, <2>5, <2>6, <2>7 DEF WorkerStep
<1>2. ASSUME NEW c \in Conns, ClientStep(c)
      PROVE  /\ \A f \in Fds : sockOf'[f] \in {sockOf[f], None}
             /\ \A d \in Conns : peer'[d] = "none" <=> peer[d] = "none"
  BY <1>0, <1>2 DEF ClientStep, ClientAuth, ClientRequest, ClientQuit, ClientClose, ClientRead,
                    InChat, ClientSame, VarTypes
<1>3. CASE Restart
  BY <1>3 DEF Restart
<1> QED
  BY <1>1, <1>2, <1>3 DEF Next

\* A stream from a client begins with its connection, grows by its messages, and
\* shrinks when the worker takes one.
LEMMA StreamCases ==
  ASSUME IInv, Next
  PROVE  \/ UNCHANGED <<c2s, nextId>>
         \/ \E c \in Conns :
              /\ peer[c] = "none" /\ peer'[c] # "none"
              /\ c2s' = [c2s EXCEPT ![c] = <<Hello(c)>>]
              /\ nextId' = [nextId EXCEPT ![c] = 2]
         \/ \E w \in Workers :
              pc[w] \in {"hello", "auth", "recv"} /\ Receive(w) /\ UNCHANGED nextId
         \/ \E c \in Conns, m \in Msg :
              /\ peer[c] = "open" /\ m.src = c /\ m.id = nextId[c]
              /\ c2s' = [c2s EXCEPT ![c] = Append(@, m)]
              /\ nextId' = [nextId EXCEPT ![c] = @ + 1]
<1> USE DEF At, sharedVars, workerVars, ServerSame, clientVars
<1>0. TypeOK /\ VarTypes
  BY DEF IInv, TypeOK
<1>1. ASSUME NEW w \in Workers, WorkerStep(w)
      PROVE  \/ UNCHANGED <<c2s, nextId>>
             \/ pc[w] \in {"hello", "auth", "recv"} /\ Receive(w) /\ UNCHANGED nextId
  <2>1. CASE RecvHello(w) \/ RecvAuth(w) \/ RecvRequest(w)
    BY <2>1 DEF RecvHello, RecvAuth, RecvRequest, EndOfStream
  <2>2. CASE ~ (RecvHello(w) \/ RecvAuth(w) \/ RecvRequest(w))
    BY <1>1, <2>2 DEF WorkerStep, Pop, SendWelcome, CheckNick, Register, Refuse, SendInfo,
         DeliverOffline, Broadcast, Lookup, FindTarget, SendPrivate, StoreOffline, SaveHistory,
         ListUsers, CollectHistory, SendAnswer, RemoveClient, CloseClient, Sigpipe,
         LockClients, LockOffline
  <2> QED
    BY <2>1, <2>2
<1>2. ASSUME NEW c \in Conns, NEW f \in Fds, Accept(c, f)
      PROVE  \/ UNCHANGED <<c2s, nextId>>
             \/ /\ peer[c] = "none" /\ peer'[c] # "none"
                /\ c2s' = [c2s EXCEPT ![c] = <<Hello(c)>>]
                /\ nextId' = [nextId EXCEPT ![c] = 2]
  BY <1>0, <1>2 DEF Accept, VarTypes
<1>3. ASSUME NEW c \in Conns, ClientStep(c)
      PROVE  \/ UNCHANGED <<c2s, nextId>>
             \/ \E m \in Msg :
                  /\ peer[c] = "open" /\ m.src = c /\ m.id = nextId[c]
                  /\ c2s' = [c2s EXCEPT ![c] = Append(@, m)]
                  /\ nextId' = [nextId EXCEPT ![c] = @ + 1]
  <2> DEFINE Sends(m) == /\ peer[c] = "open" /\ m.src = c /\ m.id = nextId[c]
                         /\ c2s' = [c2s EXCEPT ![c] = Append(@, m)]
                         /\ nextId' = [nextId EXCEPT ![c] = @ + 1]
  <2>1. ASSUME NEW type \in {"AUTH", "BYE"} \cup RequestTypes, NEW name \in Names,
               NEW count \in Nat, peer[c] = "open", ClientSend(c, type, name, count)
        PROVE  \E m \in Msg : Sends(m)
    <3> DEFINE m == [type |-> type, src |-> c, id |-> nextId[c], name |-> name,
                     count |-> count]
    <3>1. m \in Msg
      BY <1>0 DEF Msg, VarTypes
    <3>2. Sends(m)
      BY <2>1 DEF ClientSend
    <3> HIDE DEF m, Sends
    <3> QED
      BY <3>1, <3>2
  <2> HIDE DEF Sends
  <2>2. ASSUME NEW n \in Logins[c], ClientAuth(c, n)
        PROVE  \E m \in Msg : Sends(m)
    <3>1. n \in Names /\ 0 \in Nat
      OBVIOUS
    <3>2. peer[c] = "open" /\ ClientSend(c, "AUTH", n, 0)
      BY <2>2 DEF ClientAuth
    <3> QED
      BY <2>1, <3>1, <3>2
  <2>3. ASSUME NEW r \in Requests[c], ClientRequest(c, r)
        PROVE  \E m \in Msg : Sends(m)
    <3>1. r \in [type : RequestTypes, name : Names, count : Nat]
      OBVIOUS
    <3>2. r.type \in RequestTypes /\ r.name \in Names /\ r.count \in Nat
      BY <3>1
    <3>3. peer[c] = "open" /\ ClientSend(c, r.type, r.name, r.count)
      BY <2>3 DEF ClientRequest, InChat
    <3> QED
      BY <2>1, <3>2, <3>3
  <2>4. ASSUME ClientQuit(c)
        PROVE  \E m \in Msg : Sends(m)
    <3>1. peer[c] = "open" /\ ClientSend(c, "BYE", None, 0) /\ None \in Names /\ 0 \in Nat
      BY <2>4 DEF ClientQuit, InChat
    <3> QED
      BY <2>1, <3>1
  <2>5. CASE ClientClose(c) \/ ClientRead(c)
    BY <2>5 DEF ClientClose, ClientRead
  <2> QED
    BY <1>3, <2>2, <2>3, <2>4, <2>5 DEF ClientStep, Sends
<1>4. CASE Restart
  BY <1>4 DEF Restart
<1> QED
  BY <1>1, <1>2, <1>3, <1>4 DEF Next

\* A worker that goes on with its client goes on with the same connection.
LEMMA SocketKept ==
  ASSUME IInv, Next, NEW w \in Workers, fd[w] # None, fd'[w] = fd[w]
  PROVE  fd[w] \in Fds /\ sockOf[fd[w]] \in Conns /\ sockOf'[fd[w]] = sockOf[fd[w]]
<1>0. TypeOK /\ VarTypes /\ DescriptorsOwned
  BY DEF IInv, TypeOK
<1>1. fd[w] \in Fds /\ sockOf[fd[w]] \in Conns
  BY <1>0 DEF VarTypes, DescriptorsOwned
<1>2. VarTypes' /\ DescriptorsOwned'
  <2>1. IInv'
    BY StepIInv
  <2> QED
    BY <2>1 DEF IInv, TypeOK
<1>3. sockOf'[fd[w]] # None
  BY <1>1, <1>2 DEF DescriptorsOwned
<1>4. sockOf'[fd[w]] \in {sockOf[fd[w]], None}
  <2>1. ASSUME NEW c \in Conns, NEW f \in Fds, Accept(c, f)
        PROVE  sockOf'[fd[w]] = sockOf[fd[w]]
    BY <1>0, <1>1, <2>1 DEF Accept, VarTypes
  <2> QED
    BY <1>1, <2>1, SocketCases
<1> QED
  BY <1>1, <1>3, <1>4

\* No two workers serve the same connection.
LEMMA OneWorker ==
  ASSUME IInv, Streams, NEW v \in Workers, NEW w \in Workers,
         pc[v] # "pop", pc[w] # "pop", sockOf[fd[v]] = sockOf[fd[w]]
  PROVE  v = w
<1>0. TypeOK /\ DescriptorsOwned
  BY DEF IInv
<1>1. fd[v] \in Fds /\ sockOf[fd[v]] \in Conns /\ fd[w] \in Fds
  BY <1>0, HasSocket
<1>2. fd[v] = fd[w]
  BY <1>1 DEF Streams
<1> QED
  BY <1>0, <1>1, <1>2 DEF DescriptorsOwned

\* How a worker can be at a stage of handling a request: it has just taken the message
\* from the stream, or it goes on with the one it had.
HandlingGoesOn(w) ==
  /\ pc[w] \in RequestStages
  /\ msg'[w] = msg[w] /\ fd'[w] = fd[w]
  /\ \/ pc'[w] = pc[w]
     \/ pc[w] = "broadcast" /\ pc'[w] = "saveSent"
     \/ pc[w] \in PendingStages /\ pc'[w] \in PendingStages \cup {"saveSent", "saveStored"}

HandlingBegins(w) ==
  /\ pc[w] = "recv" /\ Receive(w) /\ UNCHANGED <<fd, sockOf, nextId>>
  /\ msg'[w] = Incoming(w)
  /\ pc'[w] = Handler[Incoming(w).type]

\* A worker that handles a request has begun to, or goes on.
LEMMA HandlingCases ==
  ASSUME IInv, Next, NEW w \in Workers, pc'[w] \in RequestStages
  PROVE  HandlingBegins(w) \/ HandlingGoesOn(w)
<1> USE DEF At, Goto, sharedVars, workerVars, ServerSame, clientVars, RequestStages,
            PendingStages, HandlingGoesOn, HandlingBegins
<1>0. TypeOK /\ VarTypes /\ DescriptorsOwned
  BY DEF IInv, TypeOK
<1>1. ASSUME NEW v \in Workers, WorkerStep(v)
      PROVE  HandlingBegins(w) \/ HandlingGoesOn(w)
  <2> USE <1>0 DEF VarTypes
  <2>1. CASE Pop(v) \/ RecvHello(v) \/ SendWelcome(v) \/ Refuse(v)
    BY <2>1 DEF Pop, RecvHello, SendWelcome, Refuse, NextClient
  <2>9. CASE CheckNick(v) \/ SendInfo(v) \/ Register(v)
    BY <2>9 DEF CheckNick, Register, SendInfo, AfterStage
  <2>10. CASE DeliverOffline(v)
    <3>1. /\ UNCHANGED pc \/ pc' = [pc EXCEPT ![v] = "recv"]
          /\ UNCHANGED <<msg, fd>>
      BY <2>10, DeliverMoves
    <3> QED
      BY <3>1
  <2>2. CASE RecvAuth(v)
    BY <2>2 DEF RecvAuth, FirstVerdict
  <2>3. CASE RecvRequest(v)
    BY <2>3 DEF RecvRequest
  <2>4. CASE Broadcast(v)
    <3>1. /\ pc[v] = "broadcast" /\ UNCHANGED <<msg, fd>>
          /\ UNCHANGED pc \/ pc' = [pc EXCEPT ![v] = "saveSent"]
      BY <2>4 DEF Broadcast
    <3> QED
      BY <3>1
  <2>11. CASE LockClients(v) \/ LockOffline(v)
    BY <2>11 DEF LockClients, LockOffline
  <2>5. CASE Lookup(v) \/ FindTarget(v) \/ SendPrivate(v) \/ StoreOffline(v)
    <3>1. /\ pc[v] \in {"lookup", "deliver", "private", "store"} /\ UNCHANGED <<msg, fd>>
          /\ \E stage \in {"deliver", "store", "private", "saveSent", "saveStored"} :
               pc' = [pc EXCEPT ![v] = stage]
      <4>1. CASE Lookup(v)
        BY <4>1 DEF Lookup
      <4>2. CASE FindTarget(v)
        BY <4>2 DEF FindTarget
      <4>3. CASE SendPrivate(v)
        BY <4>3 DEF SendPrivate
      <4>4. CASE StoreOffline(v)
        BY <4>4 DEF StoreOffline
      <4> QED
        BY <2>5, <4>1, <4>2, <4>3, <4>4
    <3> QED
      BY <3>1
  <2>6. CASE SaveHistory(v) \/ ListUsers(v) \/ CollectHistory(v) \/ SendAnswer(v)
    BY <2>6 DEF SaveHistory, ListUsers, CollectHistory, SendAnswer
  <2>7. CASE RemoveClient(v) \/ CloseClient(v)
    BY <2>7 DEF RemoveClient, CloseClient, NextClient
  <2>8. CASE Sigpipe(v)
    BY <2>8 DEF Sigpipe
  <2> QED
    BY <1>1, <2>1, <2>2, <2>3, <2>4, <2>5, <2>6, <2>7, <2>8, <2>9, <2>10, <2>11
       DEF WorkerStep
<1>2. ASSUME NEW c \in Conns, NEW f \in Fds, Accept(c, f)
      PROVE  HandlingGoesOn(w)
  BY <1>2 DEF Accept
<1>3. ASSUME NEW c \in Conns, ClientStep(c)
      PROVE  HandlingGoesOn(w)
  <2>1. ClientSame
    BY <1>3 DEF ClientStep, ClientAuth, ClientRequest, ClientQuit, ClientClose, ClientRead
  <2> QED
    BY <2>1 DEF ClientSame
<1>4. CASE Restart
  BY <1>4 DEF Restart
<1> QED
  BY <1>1, <1>2, <1>3, <1>4 DEF Next

-----------------------------------------------------------------------------
(* What stays before the rest of its stream. *)

\* The stream from one client begins, loses its first message, grows by one, or stays.
LEMMA OneStream ==
  ASSUME IInv, Next, NEW c \in Conns
  PROVE  /\ c2s[c] \in Seq(Msg) /\ nextId[c] \in Nat
         /\ \/ c2s'[c] = c2s[c] /\ nextId'[c] = nextId[c]
            \/ /\ peer[c] = "none" /\ peer'[c] # "none"
               /\ c2s'[c] = <<Hello(c)>> /\ nextId'[c] = 2
            \/ c2s[c] # <<>> /\ c2s'[c] = Tail(c2s[c]) /\ nextId'[c] = nextId[c]
            \/ \E m \in Msg :
                 /\ peer[c] = "open" /\ m.src = c /\ m.id = nextId[c]
                 /\ c2s'[c] = Append(c2s[c], m) /\ nextId'[c] = nextId[c] + 1
<1>0. VarTypes /\ c2s[c] \in Seq(Msg) /\ nextId[c] \in Nat
  BY DEF IInv, TypeOK, VarTypes
<1>1. CASE UNCHANGED <<c2s, nextId>>
  BY <1>0, <1>1
<1>2. ASSUME NEW d \in Conns, peer[d] = "none", peer'[d] # "none",
             c2s' = [c2s EXCEPT ![d] = <<Hello(d)>>], nextId' = [nextId EXCEPT ![d] = 2]
      PROVE  \/ c2s'[c] = c2s[c] /\ nextId'[c] = nextId[c]
             \/ /\ peer[c] = "none" /\ peer'[c] # "none"
                /\ c2s'[c] = <<Hello(c)>> /\ nextId'[c] = 2
  BY <1>0, <1>2 DEF VarTypes
<1>3. ASSUME NEW w \in Workers, pc[w] # "pop", Receive(w), UNCHANGED nextId
      PROVE  /\ nextId'[c] = nextId[c]
             /\ c2s'[c] = c2s[c] \/ (c2s[c] # <<>> /\ c2s'[c] = Tail(c2s[c]))
  BY <1>0, <1>3, HasSocket DEF IInv, Receive, VarTypes
<1>4. ASSUME NEW d \in Conns, NEW m \in Msg, peer[d] = "open", m.src = d,
             m.id = nextId[d], c2s' = [c2s EXCEPT ![d] = Append(@, m)],
             nextId' = [nextId EXCEPT ![d] = @ + 1]
      PROVE  \/ c2s'[c] = c2s[c] /\ nextId'[c] = nextId[c]
             \/ /\ peer[c] = "open" /\ m.src = c /\ m.id = nextId[c]
                /\ c2s'[c] = Append(c2s[c], m) /\ nextId'[c] = nextId[c] + 1
  BY <1>0, <1>4 DEF VarTypes
<1> QED
  BY <1>0, <1>1, <1>2, <1>3, <1>4, StreamCases

\* A message that was taken from its stream stays before all that is still in it.
LEMMA ReadKept ==
  ASSUME IInv, Streams, Next, NEW m \in Msg, Read(m)
  PROVE  Read(m)'
<1> DEFINE c == m.src
<1>0. c \in Conns /\ m.id \in Nat
  BY DEF Msg
<1>1. c2s[c] \in Seq(Msg) /\ nextId[c] \in Nat
  BY <1>0, OneStream
<1>2. peer[c] # "none"
  BY <1>0 DEF Read, Streams
<1>3. CASE c2s'[c] = c2s[c] /\ nextId'[c] = nextId[c]
  BY <1>3 DEF Read
<1>4. CASE c2s[c] # <<>> /\ c2s'[c] = Tail(c2s[c]) /\ nextId'[c] = nextId[c]
  BY <1>1, <1>4, TailElements DEF Read
<1>5. ASSUME NEW n \in Msg, n.id = nextId[c], c2s'[c] = Append(c2s[c], n),
             nextId'[c] = nextId[c] + 1
      PROVE  Read(m)'
  BY <1>0, <1>1, <1>5, AppendElements DEF Read
<1> QED
  BY <1>0, <1>2, <1>3, <1>4, <1>5, OneStream

\* What a worker begins to handle is the first message of its client's stream.
LEMMA BeginsWith ==
  ASSUME IInv, Streams, NEW w \in Workers, HandlingBegins(w)
  PROVE  LET c == sockOf[fd[w]]
         IN  /\ fd[w] \in Fds /\ c \in Conns
             /\ c2s[c] \in Seq(Msg) /\ c2s[c] # <<>>
             /\ c2s' = [c2s EXCEPT ![c] = Tail(@)]
             /\ 1 \in DOMAIN c2s[c] /\ msg'[w] = c2s[c][1] /\ msg'[w] \in Msg
             /\ msg'[w].src = c
<1> DEFINE c == sockOf[fd[w]]
<1>0. TypeOK /\ VarTypes /\ DescriptorsOwned
  BY DEF IInv, TypeOK
<1>1. fd[w] \in Fds /\ c \in Conns
  BY <1>0, HasSocket DEF HandlingBegins
<1>2. c2s[c] \in Seq(Msg) /\ c2s[c] # <<>> /\ c2s' = [c2s EXCEPT ![c] = Tail(@)]
  BY <1>0, <1>1 DEF HandlingBegins, Receive, VarTypes
<1>3. msg'[w] = Head(c2s[c])
  BY DEF HandlingBegins, Incoming
<1> HIDE DEF c
<1>4. 1 \in DOMAIN c2s[c] /\ Head(c2s[c]) = c2s[c][1]
  BY <1>2, TailElements
<1>5. c2s[c][1] \in Msg
  BY <1>2, <1>4, ElementOfSeq, LenProperties
<1>6. c2s[c][1].src = c
  BY <1>1, <1>4 DEF Streams
<1> QED
  BY <1>1, <1>2, <1>3, <1>4, <1>5, <1>6 DEF c

\* Nor is it overtaken by what the workers handle next.
LEMMA AfterKept ==
  ASSUME IInv, Streams, Next, NEW m \in Msg,
         NEW stages \in {RequestStages, PendingStages}, After(m, stages)
  PROVE  After(m, stages)'
<1>1. Read(m) /\ Read(m)'
  BY ReadKept DEF After
<1>2. ASSUME NEW w \in Workers, pc'[w] \in stages, msg'[w].src = m.src
      PROVE  m.id < msg'[w].id
  <2>0. pc'[w] \in RequestStages
    BY <1>2 DEF RequestStages, PendingStages
  <2>1. CASE HandlingBegins(w)
    BY <1>1, <1>2, <2>1, BeginsWith DEF Read
  <2>2. CASE HandlingGoesOn(w)
    <3>1. pc[w] \in stages
      BY <1>2, <2>2 DEF HandlingGoesOn, RequestStages, PendingStages
    <3> QED
      BY <1>2, <2>2, <3>1 DEF After, HandlingGoesOn
  <2> QED
    BY <2>0, <2>1, <2>2, HandlingCases
<1> QED
  BY <1>1, <1>2 DEF After

\* The streams stay in order, and each connection keeps its one descriptor.
LEMMA StreamsStep ==
  ASSUME IInv, Streams, Next
  PROVE  Streams'
<1>0. VarTypes
  BY DEF IInv, TypeOK
<1>1. /\ \A f \in Fds : sockOf'[f] # None => peer'[sockOf'[f]] # "none"
      /\ \A f, g \in Fds : sockOf'[f] = sockOf'[g] /\ sockOf'[f] # None => f = g
  <2>0. /\ \A f \in Fds : sockOf[f] # None => sockOf[f] \in Conns /\ peer[sockOf[f]] # "none"
        /\ \A f, g \in Fds : sockOf[f] = sockOf[g] /\ sockOf[f] # None => f = g
    BY <1>0 DEF Streams, VarTypes
  <2>1. ASSUME NEW c \in Conns, NEW h \in Fds, Accept(c, h)
        PROVE  /\ \A f \in Fds : sockOf'[f] # None => peer'[sockOf'[f]] # "none"
               /\ \A f, g \in Fds : sockOf'[f] = sockOf'[g] /\ sockOf'[f] # None => f = g
    <3>1. \A f \in Fds : sockOf'[f] = IF f = h THEN c ELSE sockOf[f]
      BY <1>0, <2>1 DEF Accept, VarTypes
    <3>2. \A f \in Fds : sockOf[f] # c
      BY <2>0, <2>1 DEF Accept
    <3>3. peer'[c] # "none" /\ \A d \in Conns : d # c => peer'[d] = peer[d]
      BY <1>0, <2>1 DEF Accept, VarTypes
    <3>4. \A f \in Fds : sockOf'[f] # None => peer'[sockOf'[f]] # "none"
      BY <2>0, <3>1, <3>2, <3>3
    <3>5. \A f, g \in Fds : sockOf'[f] = sockOf'[g] /\ sockOf'[f] # None => f = g
      BY <2>0, <3>1, <3>2
    <3> QED
      BY <3>4, <3>5
  <2>2. CASE /\ \A f \in Fds : sockOf'[f] \in {sockOf[f], None}
             /\ \A c \in Conns : peer'[c] = "none" <=> peer[c] = "none"
    <3>1. \A f \in Fds : sockOf'[f] # None => peer'[sockOf'[f]] # "none"
      BY <2>0, <2>2
    <3>2. \A f, g \in Fds : sockOf'[f] = sockOf'[g] /\ sockOf'[f] # None => f = g
      BY <2>0, <2>2
    <3> QED
      BY <3>1, <3>2
  <2> QED
    BY <2>1, <2>2, SocketCases
<1>2. ASSUME NEW c \in Conns
      PROVE  /\ peer'[c] = "none" => nextId'[c] = 1 /\ c2s'[c] = <<>>
             /\ \A k \in DOMAIN c2s'[c] :
                  c2s'[c][k].src = c /\ 0 < c2s'[c][k].id /\ c2s'[c][k].id < nextId'[c]
             /\ \A j, k \in DOMAIN c2s'[c] : j < k => c2s'[c][j].id < c2s'[c][k].id
  <2>0. /\ c2s[c] \in Seq(Msg) /\ nextId[c] \in Nat
        /\ \A k \in DOMAIN c2s[c] : c2s[c][k].id \in Nat
    <3>1. c2s[c] \in Seq(Msg) /\ nextId[c] \in Nat
      BY OneStream
    <3>2. \A k \in DOMAIN c2s[c] : c2s[c][k] \in Msg
      BY <3>1, ElementOfSeq, LenProperties
    <3> QED
      BY <3>1, <3>2 DEF Msg
  <2>1. /\ peer[c] = "none" => nextId[c] = 1 /\ c2s[c] = <<>>
        /\ \A k \in DOMAIN c2s[c] :
             c2s[c][k].src = c /\ 0 < c2s[c][k].id /\ c2s[c][k].id < nextId[c]
        /\ \A j, k \in DOMAIN c2s[c] : j < k => c2s[c][j].id < c2s[c][k].id
    BY DEF Streams
  <2>2. peer'[c] = "none" => peer[c] = "none"
    BY <1>0, SocketCases DEF Accept, VarTypes
  <2>3. CASE c2s'[c] = c2s[c] /\ nextId'[c] = nextId[c]
    BY <2>1, <2>2, <2>3
  <2>4. CASE peer'[c] # "none" /\ c2s'[c] = <<Hello(c)>> /\ nextId'[c] = 2
    <3>1. DOMAIN c2s'[c] = {1} /\ c2s'[c][1].src = c /\ c2s'[c][1].id = 1
      BY <2>4 DEF Hello
    <3> QED
      BY <2>4, <3>1
  <2>5. CASE c2s[c] # <<>> /\ c2s'[c] = Tail(c2s[c]) /\ nextId'[c] = nextId[c]
    <3>1. \A k \in DOMAIN c2s'[c] :
            k + 1 \in DOMAIN c2s[c] /\ c2s'[c][k] = c2s[c][k + 1]
      BY <2>0, <2>5, TailElements
    <3>2. DOMAIN c2s'[c] \subseteq Nat
      BY <2>0, <2>5, TailElements, LenProperties
    <3>3. \A j, k \in DOMAIN c2s'[c] : j < k => j + 1 < k + 1
      BY <3>2
    <3>4. \A j, k \in DOMAIN c2s'[c] : j < k => c2s'[c][j].id < c2s'[c][k].id
      BY <2>1, <3>1, <3>3
    <3> QED
      BY <2>1, <2>2, <2>5, <3>1, <3>4
  <2>6. ASSUME NEW m \in Msg, peer[c] = "open", m.src = c, m.id = nextId[c],
               c2s'[c] = Append(c2s[c], m), nextId'[c] = nextId[c] + 1
        PROVE  /\ peer'[c] = "none" => nextId'[c] = 1 /\ c2s'[c] = <<>>
               /\ \A k \in DOMAIN c2s'[c] :
                    c2s'[c][k].src = c /\ 0 < c2s'[c][k].id /\ c2s'[c][k].id < nextId'[c]
               /\ \A j, k \in DOMAIN c2s'[c] : j < k => c2s'[c][j].id < c2s'[c][k].id
    <3>1. /\ DOMAIN c2s'[c] = 1..(Len(c2s[c]) + 1) /\ Len(c2s[c]) \in Nat
          /\ \A k \in DOMAIN c2s'[c] : \/ k \in DOMAIN c2s[c] /\ c2s'[c][k] = c2s[c][k]
                                       \/ k = Len(c2s[c]) + 1 /\ c2s'[c][k] = m
      BY <2>0, <2>6, AppendElements
    <3>2. nextId[c] > 0
      BY <1>0 DEF VarTypes
    <3>3. \A k \in DOMAIN c2s'[c] :
            c2s'[c][k].src = c /\ 0 < c2s'[c][k].id /\ c2s'[c][k].id < nextId'[c]
      BY <2>0, <2>1, <2>6, <3>1, <3>2
    <3>4. \A j, k \in DOMAIN c2s'[c] : j < k => c2s'[c][j].id < c2s'[c][k].id
      <4> SUFFICES ASSUME NEW j \in DOMAIN c2s'[c], NEW k \in DOMAIN c2s'[c], j < k
                   PROVE  c2s'[c][j].id < c2s'[c][k].id
        OBVIOUS
      <4>1. j \in DOMAIN c2s[c] /\ c2s'[c][j] = c2s[c][j]
        BY <3>1
      <4> QED
        BY <2>1, <2>6, <3>1, <4>1
    <3> QED
      BY <2>2, <2>6, <3>3, <3>4
  <2> QED
    BY <2>3, <2>4, <2>5, <2>6, OneStream
<1> QED
  BY <1>1, <1>2 DEF Streams

\* A worker goes on handling a message of its own client, whose turn it is.
LEMMA HandlingStep ==
  ASSUME IInv, Streams, Handling, Next
  PROVE  Handling'
<1> SUFFICES ASSUME NEW w \in Workers, pc'[w] \in RequestStages
             PROVE  /\ msg'[w].src = sockOf'[fd'[w]] /\ Read(msg[w])'
                    /\ pc'[w] = "broadcast" => msg'[w].type = "TEXT"
                    /\ pc'[w] = "saveSent" => msg'[w].type \in {"TEXT", "PRIVATE"}
                    /\ pc'[w] = "history" => msg'[w].type = "HISTORY"
                    /\ pc'[w] \in PendingStages \cup {"saveStored"} =>
                         msg'[w].type = "PRIVATE"
  BY DEF Handling
<1>0. TypeOK /\ VarTypes
  BY DEF IInv, TypeOK
<1>1. CASE HandlingBegins(w)
  <2>0. PICK c \in Conns : c = sockOf[fd[w]]
    BY <1>1, BeginsWith
  <2>1. PICK m \in Msg : m = msg'[w]
    BY <1>1, BeginsWith
  <2>2. /\ c2s[c] \in Seq(Msg) /\ c2s[c] # <<>> /\ 1 \in DOMAIN c2s[c]
        /\ c2s' = [c2s EXCEPT ![c] = Tail(@)]
        /\ m = c2s[c][1] /\ m.src = c
    BY <1>1, <2>0, <2>1, BeginsWith
  <2>3. sockOf'[fd'[w]] = c /\ nextId' = nextId /\ pc'[w] = Handler[m.type]
    BY <1>1, <2>0, <2>1 DEF HandlingBegins
  <2>4. 0 < m.id /\ m.id < nextId[c]
    BY <2>2 DEF Streams
  <2>5. \A k \in DOMAIN c2s'[c] : m.id < c2s'[c][k].id
    <3>1. c2s'[c] = Tail(c2s[c])
      BY <1>0, <2>2 DEF VarTypes
    <3>2. \A k \in DOMAIN Tail(c2s[c]) :
            k + 1 \in DOMAIN c2s[c] /\ Tail(c2s[c])[k] = c2s[c][k + 1]
      BY <2>2, TailElements
    <3>3. DOMAIN Tail(c2s[c]) \subseteq Nat \ {0}
      BY <2>2, TailElements, LenProperties
    <3>4. \A k \in DOMAIN c2s'[c] : 1 < k + 1
      BY <3>1, <3>3
    <3>5. \A k \in DOMAIN c2s[c] : 1 < k => m.id < c2s[c][k].id
      BY <2>2 DEF Streams
    <3> QED
      BY <3>1, <3>2, <3>4, <3>5
  <2>6. Read(m)'
    BY <2>2, <2>3, <2>4, <2>5 DEF Read
  <2>7. \A t \in RequestTypes \cup {"HELLO", "AUTH", "BYE"} :
          /\ Handler[t] = "broadcast" => t = "TEXT"
          /\ Handler[t] # "saveSent" /\ Handler[t] # "saveStored"
          /\ Handler[t] = "history" => t = "HISTORY"
          /\ Handler[t] \in PendingStages => t = "PRIVATE"
    BY DEF Handler, RequestTypes, PendingStages
  <2>8. m.type \in RequestTypes \cup {"HELLO", "AUTH", "BYE"}
    BY DEF Msg
  <2>9. Read(msg[w])'
    BY <2>1, <2>6 DEF Read
  <2>10. Handler[m.type] \in PendingStages \cup {"saveStored"} => m.type = "PRIVATE"
    BY <2>7, <2>8
  <2> QED
    BY <2>1, <2>2, <2>3, <2>7, <2>8, <2>9, <2>10
<1>2. CASE HandlingGoesOn(w)
  <2>1. pc[w] # "pop" /\ fd[w] # None
    BY <1>0, <1>2, HasSocket DEF HandlingGoesOn, RequestStages, IInv
  <2>2. sockOf'[fd'[w]] = sockOf[fd[w]]
    BY <1>2, <2>1, SocketKept DEF HandlingGoesOn
  <2>3. PICK m \in Msg : m = msg[w]
    BY <1>0, <1>2 DEF HandlingGoesOn, TypeOK, LocalsSet
  <2>4. Read(m)
    BY <1>2, <2>3 DEF HandlingGoesOn, Handling
  <2>5. Read(m)' /\ msg'[w] = m
    BY <1>2, <2>3, <2>4, ReadKept DEF HandlingGoesOn
  <2>6. Read(msg[w])'
    BY <2>5 DEF Read
  <2>7. /\ pc'[w] = "broadcast" => pc[w] = "broadcast"
        /\ pc'[w] = "history" => pc[w] = "history"
        /\ pc'[w] = "saveSent" => pc[w] \in {"saveSent", "broadcast"} \cup PendingStages
        /\ pc'[w] \in PendingStages \cup {"saveStored"} =>
             pc[w] \in PendingStages \cup {"saveStored"}
    BY <1>2 DEF HandlingGoesOn, RequestStages, PendingStages
  <2>8. /\ m.src = sockOf[fd[w]]
        /\ pc[w] = "broadcast" => m.type = "TEXT"
        /\ pc[w] = "saveSent" => m.type \in {"TEXT", "PRIVATE"}
        /\ pc[w] = "history" => m.type = "HISTORY"
        /\ pc[w] \in PendingStages \cup {"saveStored"} => m.type = "PRIVATE"
    BY <1>2, <2>3 DEF HandlingGoesOn, Handling
  <2> QED
    BY <2>2, <2>5, <2>6, <2>7, <2>8
<1> QED
  BY <1>1, <1>2, HandlingCases

-----------------------------------------------------------------------------
(* The records. *)

\* What happens to the history and to its file: save_history() adds a record of what a
\* worker handled, the file may be left out, and the history is lost with the process.
LEMMA HistoryCases ==
  ASSUME IInv, Next
  PROVE  \/ UNCHANGED <<history, file>>
         \/ history' = <<>> /\ file' = file
         \/ \E w \in Workers, r \in Record :
              /\ SaveHistory(w) /\ pc[w] \in {"saveSent", "saveStored"}
              /\ r.msg = msg[w] /\ msg[w] \in Msg
              /\ r.is_offline <=> pc[w] = "saveStored"
              /\ history' = Append(history, r)
              /\ file' = Append(file, r) \/ file' = file
<1> USE DEF At, sharedVars, workerVars, ServerSame, clientVars
<1>0. TypeOK
  BY DEF IInv
<1>1. ASSUME NEW w \in Workers, SaveHistory(w)
      PROVE  \E r \in Record :
               /\ SaveHistory(w) /\ pc[w] \in {"saveSent", "saveStored"}
               /\ r.msg = msg[w] /\ msg[w] \in Msg
               /\ r.is_offline <=> pc[w] = "saveStored"
               /\ history' = Append(history, r)
               /\ file' = Append(file, r) \/ file' = file
  <2> DEFINE r == [msg |-> msg[w], delivered |-> pc[w] = "saveSent",
                   is_offline |-> pc[w] = "saveStored"]
  <2>1. pc[w] \in {"saveSent", "saveStored"} /\ msg[w] \in Msg
    BY <1>0, <1>1 DEF SaveHistory, TypeOK, LocalsSet, RequestStages
  <2>2. r \in Record /\ r.msg = msg[w] /\ (r.is_offline <=> pc[w] = "saveStored")
    BY <2>1 DEF Record
  <2>3. /\ history' = Append(history, r)
        /\ file' = Append(file, r) \/ file' = file
    BY <1>1 DEF SaveHistory, Logged
  <2> HIDE DEF r
  <2> QED
    BY <1>1, <2>1, <2>2, <2>3
<1>2. ASSUME NEW w \in Workers, WorkerStep(w), ~ SaveHistory(w)
      PROVE  UNCHANGED <<history, file>> \/ (history' = <<>> /\ file' = file)
  BY <1>2 DEF WorkerStep, Pop, RecvHello, SendWelcome, RecvAuth, CheckNick, Register, Refuse,
       SendInfo, DeliverOffline, RecvRequest, Broadcast, Lookup, FindTarget, SendPrivate,
       StoreOffline, ListUsers, CollectHistory, SendAnswer, RemoveClient, CloseClient, Sigpipe,
       LockClients, LockOffline
<1>3. ASSUME NEW c \in Conns, NEW f \in Fds, Accept(c, f)
      PROVE  UNCHANGED <<history, file>>
  BY <1>3 DEF Accept
<1>4. ASSUME NEW c \in Conns, ClientStep(c)
      PROVE  UNCHANGED <<history, file>>
  BY <1>4 DEF ClientStep, ClientAuth, ClientRequest, ClientQuit, ClientClose, ClientRead,
              ClientSame
<1>5. CASE Restart
  BY <1>5 DEF Restart
<1> QED
  BY <1>1, <1>2, <1>3, <1>4, <1>5 DEF Next

\* A list that is in order stays so.
LEMMA OrderedKept ==
  ASSUME IInv, Streams, Next, NEW recs \in Seq(Record), Ordered(recs)
  PROVE  Ordered(recs)'
<1>1. ASSUME NEW m \in MsgsOf(recs)
      PROVE  Done(m)'
  <2>1. m \in Msg
    <3>1. PICK i \in DOMAIN recs : m = recs[i].msg
      BY DEF MsgsOf
    <3>2. recs[i] \in Record
      BY ElementOfSeq, LenProperties
    <3> QED
      BY <3>1, <3>2 DEF Record
  <2> QED
    BY <2>1, AfterKept DEF Ordered, Done
<1> QED
  BY <1>1 DEF Ordered, MsgsOf, InSendingOrder

\* It stays so too when a worker appends what it handled: this is the last that was
\* taken of all it has of the worker's client, and nobody else handles that client.
LEMMA OrderedGrows ==
  ASSUME IInv, Streams, Handling, Next,
         NEW recs \in Seq(Record), Ordered(recs),
         NEW w \in Workers, SaveHistory(w),
         NEW r \in Record, r.msg = msg[w]
  PROVE  Ordered(Append(recs, r))'
<1> USE DEF At, Goto
<1>0. TypeOK /\ VarTypes
  BY DEF IInv, TypeOK
<1>1. PICK m \in Msg : m = r.msg
  BY DEF Record
<1>2. pc[w] \in RequestStages /\ pc[w] # "pop" /\ m.src = sockOf[fd[w]] /\ Read(m)
  BY <1>1 DEF SaveHistory, Handling, RequestStages
<1>3. Done(m)'
  <2>1. Read(m)'
    BY <1>2, ReadKept
  <2>2. ASSUME NEW v \in Workers, pc'[v] \in RequestStages, msg'[v].src = m.src
        PROVE  FALSE
    <3>1. v # w
      BY <1>0, <2>2 DEF SaveHistory, VarTypes, RequestStages
    <3>2. pc'[v] = pc[v] /\ msg'[v] = msg[v]
      BY <1>0, <3>1 DEF SaveHistory, VarTypes
    <3>3. pc[v] # "pop" /\ sockOf[fd[v]] = sockOf[fd[w]]
      BY <1>2, <2>2, <3>2 DEF Handling, RequestStages
    <3> QED
      BY <1>2, <3>1, <3>3, OneWorker
  <2> QED
    BY <2>1, <2>2 DEF Done, After
<1>4. (\A n \in MsgsOf(recs) : Done(n)') /\ InSendingOrder(recs)
  BY OrderedKept DEF Ordered, MsgsOf
<1>5. \A n \in MsgsOf(recs) : n.src = m.src => n.id < m.id
  BY <1>1, <1>2 DEF Ordered, Done, After
<1> DEFINE longer == Append(recs, r)
<1>6. /\ DOMAIN longer = 1..(Len(recs) + 1) /\ Len(recs) \in Nat
      /\ \A i \in DOMAIN longer : \/ i \in DOMAIN recs /\ longer[i] = recs[i]
                                  \/ i = Len(recs) + 1 /\ longer[i] = r
  BY AppendElements
<1> HIDE DEF longer
<1>7. InSendingOrder(longer)
  <2> SUFFICES ASSUME NEW i \in DOMAIN longer, NEW j \in DOMAIN longer, i < j,
                      longer[i].msg.src = longer[j].msg.src
               PROVE  longer[i].msg.id < longer[j].msg.id
    BY DEF InSendingOrder
  <2>1. i \in DOMAIN recs /\ longer[i] = recs[i] /\ recs[i].msg \in MsgsOf(recs)
    BY <1>6 DEF MsgsOf
  <2> QED
    BY <1>1, <1>4, <1>5, <1>6, <2>1 DEF InSendingOrder
<1>8. \A n \in MsgsOf(longer) : Done(n)'
  <2>1. MsgsOf(longer) \subseteq MsgsOf(recs) \cup {m}
    BY <1>1, <1>6 DEF MsgsOf
  <2> QED
    BY <1>3, <1>4, <2>1
<1> QED
  BY <1>7, <1>8 DEF Ordered, MsgsOf, InSendingOrder, longer

\* The history and its file stay in order.
LEMMA RecordedStep ==
  ASSUME IInv, OrderInv, Next
  PROVE  Recorded'
<1>0. Streams /\ Handling /\ history \in Seq(Record) /\ file \in Seq(Record)
  BY DEF IInv, TypeOK, VarTypes, OrderInv
<1>1. PICK h \in Seq(Record), g \in Seq(Record) : h = history /\ g = file
  BY <1>0
<1>2. Ordered(h) /\ Ordered(g)
  BY <1>1 DEF OrderInv, Recorded
<1>3. Ordered(h)' /\ Ordered(g)' /\ Ordered(<<>>)'
  <2>1. Ordered(<<>>)'
    BY DEF Ordered, MsgsOf, InSendingOrder
  <2> QED
    BY <1>0, <1>2, <2>1, OrderedKept
<1>4. ASSUME NEW w \in Workers, NEW r \in Record, SaveHistory(w), r.msg = msg[w]
      PROVE  Ordered(Append(h, r))' /\ Ordered(Append(g, r))'
  BY <1>0, <1>2, <1>4, OrderedGrows
<1>5. ASSUME NEW hh, NEW gg, hh = history', gg = file', Ordered(hh)', Ordered(gg)'
      PROVE  Recorded'
  BY <1>5 DEF Recorded, Ordered, MsgsOf, InSendingOrder
<1>6. CASE UNCHANGED <<history, file>>
  BY <1>1, <1>3, <1>5, <1>6
<1>7. CASE history' = <<>> /\ file' = file
  BY <1>1, <1>3, <1>5, <1>7
<1>8. ASSUME NEW w \in Workers, NEW r \in Record, SaveHistory(w), r.msg = msg[w],
             history' = Append(history, r), file' = Append(file, r) \/ file' = file
      PROVE  Recorded'
  BY <1>1, <1>3, <1>4, <1>5, <1>8
<1> QED
  BY <1>6, <1>7, <1>8, HistoryCases

-----------------------------------------------------------------------------
(* The invariant. *)

\* No message was sent, so all is in order.
LEMMA InitOrder == Init => OrderInv
<1> SUFFICES ASSUME Init PROVE OrderInv
  OBVIOUS
<1>1. Streams
  BY DEF Init, Streams
<1>2. Handling
  BY DEF Init, Handling, RequestStages
<1>3. Recorded
  BY DEF Init, Recorded, Ordered, MsgsOf, InSendingOrder
<1> QED
  BY <1>1, <1>2, <1>3 DEF OrderInv

\* The order is kept by every step.
LEMMA StepOrder == IInv /\ OrderInv /\ [Next]_vars => OrderInv'
<1> SUFFICES ASSUME IInv, OrderInv, [Next]_vars PROVE OrderInv'
  OBVIOUS
<1>1. CASE Next
  BY <1>1, StreamsStep, HandlingStep, RecordedStep DEF OrderInv
<1>2. CASE UNCHANGED vars
  BY <1>2 DEF vars, workerVars, sharedVars, clientVars, OrderInv, Streams, Handling, Recorded,
              Ordered, MsgsOf, InSendingOrder, Done, After, Read
<1> QED
  BY <1>1, <1>2

\* The streams, what is handled and what is recorded are in the order of sending.
THEOREM OrderInvariance == Spec => []OrderInv
  BY InitOrder, StepOrder, Invariance, PTL DEF Spec

\* In memory and in chat_history.jsonl, the records of one client are in the order in
\* which it sent its requests, whatever the other workers do and whenever the process
\* dies and is started again on the same file.
THEOREM HistoryKeepsOrder == Spec => []RecordsInOrder
<1>1. OrderInv => RecordsInOrder
  BY DEF OrderInv, Recorded, Ordered, RecordsInOrder
<1> QED
  BY <1>1, OrderInvariance, PTL

=============================================================================
