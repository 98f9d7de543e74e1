------------------------------ MODULE ChatServer ------------------------------
(***************************************************************************)
(* The chat server of lab 5 (5/server.cpp): a main thread that accepts     *)
(* TCP connections, a pool of worker threads that each serve one           *)
(* connection from HELLO to close, and the state they share: the queue of  *)
(* accepted sockets, the registry of authenticated clients, the            *)
(* store-and-forward queues, the history and its file, and the process's   *)
(* table of open sockets.                                                  *)
(*                                                                         *)
(* The grain is one access to shared state per step.  A section a mutex    *)
(* protects is one step when nothing in it can block, and a loop of steps  *)
(* under an explicit lock when it sends (broadcast, offline delivery).     *)
(* The clients (5/client.cpp) are the environment: they follow the order   *)
(* HELLO, WELCOME, AUTH, reply, requests, and may vanish at any time.      *)
(***************************************************************************)
EXTENDS Naturals, Sequences, SequencesExt

CONSTANTS
  Conns,        \* TCP connections, one per run of the client program
  Workers,      \* the pool's threads
  Fds,          \* descriptor numbers the kernel may hand out to accept()
  Nicks,        \* non-empty nicknames
  Logins,       \* what a user may type as nickname, for each connection
  Requests,     \* what a user may ask once in the chat, for each connection
  MaxRequests,  \* bound: how often each client asks
  MaxRestarts,  \* bound: times the process is started again
  DiskFails,    \* may chat_history.jsonl fail to open
  ReplyLines,   \* history lines that fit in one payload of MAX_PAYLOAD bytes
  SockBuf,      \* messages a connection holds that its client has not read
  None          \* no connection, descriptor, nickname, thread or message

RequestTypes == {"TEXT", "PRIVATE", "PING", "LIST", "HISTORY"}
Names == Nicks \cup {None}

ASSUME ConstantsAssumption ==
  /\ None \notin Conns \cup Workers \cup Fds \cup Nicks
  /\ Logins \in [Conns -> SUBSET Names]
  /\ Requests \in [Conns -> SUBSET [type : RequestTypes, name : Names, count : Nat]]
  /\ MaxRequests \in [Conns -> Nat]
  /\ MaxRestarts \in Nat
  /\ DiskFails \in BOOLEAN
  /\ ReplyLines \in Nat
  /\ SockBuf \in Nat

VARIABLES
  pc, fd, nick, msg, idx, target, reply,  \* locals of each worker
  queue,                                  \* g_queue
  clients, clientsLock,                   \* g_clients, who is inside broadcast
  offline, offlineLock,                   \* g_offline, who is inside a delivery
  history, file,                          \* g_history, chat_history.jsonl
  sockOf,                                 \* the process's descriptor table
  up, restarts,                           \* is the process running
  peer, login, nextId,                    \* client: socket, g_nickname, g_msg_id
  c2s,          \* messages on their way to the server
  s2c, taken    \* all that send() accepted for a client, how many of it the client read

workerVars == <<pc, fd, nick, msg, idx, target, reply>>
sharedVars == <<queue, clients, clientsLock, offline, offlineLock, history>>
clientVars == <<login, nextId, taken>>
vars == <<workerVars, sharedVars, file, sockOf, up, restarts, peer, clientVars,
          c2s, s2c>>

(***************************************************************************)
(* Messages.  The text of a message is opaque: <<src, id>> tells two       *)
(* messages apart.  name is the nickname of an AUTH, the receiver of a     *)
(* PRIVATE; count is the N of a HISTORY.                                   *)
(***************************************************************************)
Msg == [type : RequestTypes \cup {"HELLO", "AUTH", "BYE"}, src : Conns,
        id : Nat, name : Names, count : Nat]

Record == [msg : Msg, delivered : BOOLEAN, is_offline : BOOLEAN]

Reply == [type : {"WELCOME", "ERROR", "PONG"}]
           \cup [type : {"SERVER_INFO"}, users : Seq(Nicks)]
           \cup [type : {"TEXT", "PRIVATE"}, msg : Msg, offline : BOOLEAN]
           \cup [type : {"HISTORY_DATA"}, lines : Seq(Record)]

Welcome == [type |-> "WELCOME"]
Error == [type |-> "ERROR"]
Pong == [type |-> "PONG"]
ServerInfo(users) == [type |-> "SERVER_INFO", users |-> users]
Text(m) == [type |-> "TEXT", msg |-> m, offline |-> FALSE]
Private(m, isOffline) == [type |-> "PRIVATE", msg |-> m, offline |-> isOffline]
HistoryData(lines) == [type |-> "HISTORY_DATA", lines |-> lines]

-----------------------------------------------------------------------------
(* Sockets. *)

\* send(): nothing on a closed descriptor (EBADF, the result is not looked at);
\* otherwise it blocks until the socket has room and the kernel takes the message.
\* A peer that is gone answers with a reset, now or later.
Send(f, r) ==
  LET c == sockOf[f]
  IN  \/ c = None /\ UNCHANGED <<s2c, peer>>
      \/ /\ c # None
         /\ \/ peer[c] = "open" /\ Len(s2c[c]) < taken[c] + SockBuf
            \/ peer[c] = "closed"
         /\ s2c' = [s2c EXCEPT ![c] = Append(@, r)]
         /\ \/ UNCHANGED peer
            \/ peer[c] = "closed" /\ peer' = [peer EXCEPT ![c] = "reset"]

\* recv() returned the next message of the stream.
Incoming(w) == Head(c2s[sockOf[fd[w]]])

Receive(w) ==
  LET c == sockOf[fd[w]]
  IN  c2s[c] # <<>> /\ c2s' = [c2s EXCEPT ![c] = Tail(@)]

\* Mutant: only -1 ends the stream.
OnlyErrorEnds(w) ==
  LET c == sockOf[fd[w]]
  IN  c2s[c] = <<>> /\ peer[c] = "reset" /\ UNCHANGED c2s

\* recv() returned 0 or -1: every byte was read and the peer is gone.
EndOfStream(w) ==
  LET c == sockOf[fd[w]]
  IN  c2s[c] = <<>> /\ peer[c] # "open" /\ UNCHANGED c2s

\* Mutant: the socket is never closed.
LeakSocket(w) == UNCHANGED sockOf

CloseSocket(w) == sockOf' = [sockOf EXCEPT ![fd[w]] = None]

-----------------------------------------------------------------------------
(* The worker's control. *)

At(w, stage) == up /\ pc[w] = stage
Goto(w, stage) == pc' = [pc EXCEPT ![w] = stage]
ServerSame == UNCHANGED <<up, restarts, clientVars>>

\* Back to the top of the loop: the locals are out of scope.
NextClient(w) ==
  /\ Goto(w, "pop")
  /\ fd' = [fd EXCEPT ![w] = None]
  /\ nick' = [nick EXCEPT ![w] = None]

\* Mutant: the section does without its mutex.
NoMutex(lock, w) == TRUE

\* Is w inside the section this mutex protects?
Holds(lock, w) == lock = w

\* Mutant: the way out of the section forgets the mutex.
StillLocked(lock) == lock

\* pthread_mutex_unlock()
Unlocked(lock) == None

Registered(n) == \E i \in DOMAIN clients : clients[i].nickname = n
Socks == {clients[i].sock : i \in DOMAIN clients}

\* What a client sends as soon as it is connected.
Hello(c) == [type |-> "HELLO", src |-> c, id |-> 1, name |-> None, count |-> 0]

\* main(): accept() returns a descriptor that is free, which goes to the queue.
\* The client has sent its HELLO without waiting, or is dead already.
Accept(c, f) ==
  /\ up /\ peer[c] = "none" /\ sockOf[f] = None
  /\ sockOf' = [sockOf EXCEPT ![f] = c]
  /\ queue' = Append(queue, f)
  /\ \/ /\ peer' = [peer EXCEPT ![c] = "open"]
        /\ c2s' = [c2s EXCEPT ![c] = <<Hello(c)>>]
        /\ nextId' = [nextId EXCEPT ![c] = 2]
     \/ /\ peer' = [peer EXCEPT ![c] = "closed"]
        /\ UNCHANGED <<c2s, nextId>>
  /\ UNCHANGED <<workerVars, clients, clientsLock, offline, offlineLock, history,
                 file, up, restarts, login, taken, s2c>>

\* Mutant: g_queue.pop() is forgotten.
Peeked == queue

Popped == Tail(queue)

\* A worker takes the next connection: wait, front() and pop() under g_queue_mutex
\* (ConnQueue shows that this may be one step).
Pop(w) ==
  /\ At(w, "pop") /\ queue # <<>>
  /\ fd' = [fd EXCEPT ![w] = Head(queue)]
  /\ queue' = Popped
  /\ Goto(w, "hello")
  /\ ServerSame
  /\ UNCHANGED <<nick, msg, idx, target, reply, clients, clientsLock, offline,
                 offlineLock, history, file, sockOf, peer, c2s, s2c>>

\* The first message: anything but a HELLO closes the socket.
RecvHello(w) ==
  /\ At(w, "hello")
  /\ \/ /\ Receive(w) /\ Incoming(w).type = "HELLO"
        /\ Goto(w, "welcome")
        /\ UNCHANGED <<fd, nick, sockOf>>
     \/ /\ EndOfStream(w) \/ (Receive(w) /\ Incoming(w).type # "HELLO")
        /\ CloseSocket(w)
        /\ NextClient(w)
  /\ ServerSame
  /\ UNCHANGED <<msg, idx, target, reply, sharedVars, file, peer, s2c>>

SendWelcome(w) ==
  /\ At(w, "welcome")
  /\ Send(fd[w], Welcome)
  /\ Goto(w, "auth")
  /\ ServerSame
  /\ UNCHANGED <<fd, nick, msg, idx, target, reply, sharedVars, file, sockOf, c2s>>

\* Mutant: the empty nickname is not refused.
NoEmptyCheck(n) == "check"

\* An empty nickname is refused, any other is looked up.
FirstVerdict(n) == IF n = None THEN "refuse" ELSE "check"

\* while (!authed): messages that are no AUTH are ignored.
RecvAuth(w) ==
  /\ At(w, "auth")
  /\ \/ /\ EndOfStream(w)
        /\ Goto(w, "remove")
        /\ UNCHANGED nick
     \/ /\ Receive(w)
        /\ IF Incoming(w).type # "AUTH" THEN UNCHANGED <<pc, nick>>
           ELSE /\ nick' = [nick EXCEPT ![w] = Incoming(w).name]
                /\ Goto(w, FirstVerdict(Incoming(w).name))
  /\ ServerSame
  /\ UNCHANGED <<fd, msg, idx, target, reply, sharedVars, file, sockOf, peer, s2c>>

\* The nickname is looked up in one section of g_clients_mutex ...
CheckNick(w) ==
  /\ At(w, "check") /\ clientsLock = None
  /\ Goto(w, IF Registered(nick[w]) THEN "refuse" ELSE "register")
  /\ ServerSame
  /\ UNCHANGED <<fd, nick, msg, idx, target, reply, sharedVars, file, sockOf, peer,
                 c2s, s2c>>

\* Mutant: what was stored is delivered before the AUTH is answered.
DeliverFirst == [register |-> "drain", drain |-> "info", info |-> "recv"]

\* The order of what follows the check: register, answer, deliver what was stored.
AfterStage == [register |-> "info", info |-> "drain", drain |-> "recv"]

\* ... and entered in another one.
Register(w) ==
  /\ At(w, "register") /\ clientsLock = None
  /\ clients' = Append(clients, [sock |-> fd[w], nickname |-> nick[w]])
  /\ Goto(w, AfterStage.register)
  /\ ServerSame
  /\ UNCHANGED <<fd, nick, msg, idx, target, reply, queue, clientsLock, offline,
                 offlineLock, history, file, sockOf, peer, c2s, s2c>>

\* send_error(); the socket is in no registry and is closed next.
Refuse(w) ==
  /\ At(w, "refuse")
  /\ Send(fd[w], Error)
  /\ Goto(w, "close")
  /\ ServerSame
  /\ UNCHANGED <<fd, nick, msg, idx, target, reply, sharedVars, file, sockOf, c2s>>

SendInfo(w) ==
  /\ At(w, "info")
  /\ Send(fd[w], ServerInfo(<<>>))
  /\ Goto(w, AfterStage.info)
  /\ ServerSame
  /\ UNCHANGED <<fd, nick, msg, idx, target, reply, sharedVars, file, sockOf, c2s>>

\* Mutant: the queue is delivered but not cleared.
KeepQueue(stored) == stored

\* The queue after its messages were sent.
Cleared(stored) == <<>>

LockOffline(w) ==
  /\ At(w, "drain") /\ offlineLock = None
  /\ offlineLock' = w
  /\ ServerSame
  /\ UNCHANGED <<workerVars, queue, clients, clientsLock, offline, history, file,
                 sockOf, peer, c2s, s2c>>

\* What was stored for this nickname is sent, then dropped, under g_offline_mutex.
DeliverOffline(w) ==
  /\ At(w, "drain") /\ Holds(offlineLock, w)
  /\ LET stored == offline[nick[w]]
     IN  IF idx[w] <= Len(stored)
         THEN /\ Send(fd[w], Private(stored[idx[w]], TRUE))
              /\ idx' = [idx EXCEPT ![w] = @ + 1]
              /\ UNCHANGED <<pc, offline, offlineLock>>
         ELSE /\ offline' = [offline EXCEPT ![nick[w]] = Cleared(@)]
              /\ offlineLock' = Unlocked(offlineLock)
              /\ idx' = [idx EXCEPT ![w] = 1]
              /\ Goto(w, AfterStage.drain)
              /\ UNCHANGED <<s2c, peer>>
  /\ ServerSame
  /\ UNCHANGED <<fd, nick, msg, target, reply, queue, clients, clientsLock, history,
                 file, sockOf, c2s>>

-----------------------------------------------------------------------------
(* The main message loop. *)

\* Mutant: a chat message is recorded but not broadcast.
RecordOnly == [TEXT |-> "saveSent", PRIVATE |-> "lookup", PING |-> "answer",
               LIST |-> "list", HISTORY |-> "history", BYE |-> "remove",
               HELLO |-> "recv", AUTH |-> "recv"]

\* Where the switch on msg.type sends the worker; other types are ignored.
Handler == [TEXT |-> "broadcast", PRIVATE |-> "lookup", PING |-> "answer",
            LIST |-> "list", HISTORY |-> "history", BYE |-> "remove",
            HELLO |-> "recv", AUTH |-> "recv"]

RecvRequest(w) ==
  /\ At(w, "recv")
  /\ \/ /\ EndOfStream(w)
        /\ Goto(w, "remove")
        /\ UNCHANGED <<msg, reply>>
     \/ /\ Receive(w)
        /\ msg' = [msg EXCEPT ![w] = Incoming(w)]
        /\ reply' = [reply EXCEPT ![w] = IF Incoming(w).type = "PING" THEN Pong
                                         ELSE None]
        /\ Goto(w, Handler[Incoming(w).type])
  /\ ServerSame
  /\ UNCHANGED <<fd, nick, idx, target, sharedVars, file, sockOf, peer, s2c>>

LockClients(w) ==
  /\ At(w, "broadcast") /\ clientsLock = None
  /\ clientsLock' = w
  /\ ServerSame
  /\ UNCHANGED <<workerVars, queue, clients, offline, offlineLock, history, file,
                 sockOf, peer, c2s, s2c>>

\* broadcast() walks g_clients and sends with g_clients_mutex held.
Broadcast(w) ==
  /\ At(w, "broadcast") /\ Holds(clientsLock, w)
  /\ IF idx[w] <= Len(clients)
     THEN /\ Send(clients[idx[w]].sock, Text(msg[w]))
          /\ idx' = [idx EXCEPT ![w] = @ + 1]
          /\ UNCHANGED <<pc, clientsLock>>
     ELSE /\ clientsLock' = Unlocked(clientsLock)
          /\ idx' = [idx EXCEPT ![w] = 1]
          /\ Goto(w, "saveSent")
          /\ UNCHANGED <<s2c, peer>>
  /\ ServerSame
  /\ UNCHANGED <<fd, nick, msg, target, reply, queue, clients, offline, offlineLock,
                 history, file, sockOf, c2s>>

\* Is the receiver online?
Lookup(w) ==
  /\ At(w, "lookup") /\ clientsLock = None
  /\ Goto(w, IF Registered(msg[w].name) THEN "deliver" ELSE "store")
  /\ ServerSame
  /\ UNCHANGED <<fd, nick, msg, idx, target, reply, sharedVars, file, sockOf, peer,
                 c2s, s2c>>

\* deliver_private() looks the receiver up again for its socket; when it is gone by
\* now the function returns false, and the caller goes on as if it were delivered.
FindTarget(w) ==
  /\ At(w, "deliver") /\ clientsLock = None
  /\ LET found == SelectInSeq(clients, LAMBDA c : c.nickname = msg[w].name)
     IN  IF found = 0 THEN Goto(w, "saveSent") /\ UNCHANGED target
         ELSE /\ target' = [target EXCEPT ![w] = clients[found].sock]
              /\ Goto(w, "private")
  /\ ServerSame
  /\ UNCHANGED <<fd, nick, msg, idx, reply, sharedVars, file, sockOf, peer, c2s, s2c>>

\* It sends to that descriptor after g_clients_mutex is released.
SendPrivate(w) ==
  /\ At(w, "private")
  /\ Send(target[w], Private(msg[w], FALSE))
  /\ target' = [target EXCEPT ![w] = None]
  /\ Goto(w, "saveSent")
  /\ ServerSame
  /\ UNCHANGED <<fd, nick, msg, idx, reply, sharedVars, file, sockOf, c2s>>

\* Mutants: only the latest message is kept; the latest is put in front.
KeepLatest(stored, m) == <<m>>
PutInFront(stored, m) == <<m>> \o stored

Enqueue(stored, m) == Append(stored, m)

StoreOffline(w) ==
  /\ At(w, "store") /\ offlineLock = None
  /\ offline' = [offline EXCEPT ![msg[w].name] = Enqueue(@, msg[w])]
  /\ Goto(w, "saveStored")
  /\ ServerSame
  /\ UNCHANGED <<fd, nick, msg, idx, target, reply, queue, clients, clientsLock,
                 offlineLock, history, file, sockOf, peer, c2s, s2c>>

\* Mutant: the newest record comes first.
NewestFirst(recs, rec) == <<rec>> \o recs

Logged(recs, rec) == Append(recs, rec)

\* save_history(): memory, then the file, which is skipped when it does not open.
SaveHistory(w) ==
  /\ At(w, "saveSent") \/ At(w, "saveStored")
  /\ LET rec == [msg |-> msg[w], delivered |-> pc[w] = "saveSent",
                 is_offline |-> pc[w] = "saveStored"]
     IN  /\ history' = Logged(history, rec)
         /\ file' = Logged(file, rec) \/ (DiskFails /\ file' = file)
  /\ Goto(w, "recv")
  /\ msg' = [msg EXCEPT ![w] = None]
  /\ ServerSame
  /\ UNCHANGED <<fd, nick, idx, target, reply, queue, clients, clientsLock, offline,
                 offlineLock, sockOf, peer, c2s, s2c>>

ListUsers(w) ==
  /\ At(w, "list") /\ clientsLock = None
  /\ reply' = [reply EXCEPT ![w] =
                 ServerInfo([i \in DOMAIN clients |-> clients[i].nickname])]
  /\ Goto(w, "answer")
  /\ ServerSame
  /\ UNCHANGED <<fd, nick, msg, idx, target, sharedVars, file, sockOf, peer, c2s, s2c>>

\* Mutant: one record too few.
OneTooFew(n) ==
  LET start == IF n > 0 /\ Len(history) > n THEN Len(history) - n ELSE 0
  IN  SubSeq(history, start + 2, Len(history))

\* The last n records as lines (all of them for n = 0); make_msg() keeps the first
\* MAX_PAYLOAD - 1 bytes of the text, that is its first lines.
LastRecords(n) ==
  LET start == IF n > 0 /\ Len(history) > n THEN Len(history) - n ELSE 0
  IN  SubSeq(history, start + 1, Len(history))

Payload(lines) ==
  SubSeq(lines, 1, IF Len(lines) < ReplyLines THEN Len(lines) ELSE ReplyLines)

CollectHistory(w) ==
  /\ At(w, "history")
  /\ reply' = [reply EXCEPT ![w] = HistoryData(Payload(LastRecords(msg[w].count)))]
  /\ Goto(w, "answer")
  /\ ServerSame
  /\ UNCHANGED <<fd, nick, msg, idx, target, sharedVars, file, sockOf, peer, c2s, s2c>>

\* PONG, the users, the history: to the client that asked.
SendAnswer(w) ==
  /\ At(w, "answer")
  /\ Send(fd[w], reply[w])
  /\ Goto(w, "recv")
  /\ msg' = [msg EXCEPT ![w] = None]
  /\ reply' = [reply EXCEPT ![w] = None]
  /\ ServerSame
  /\ UNCHANGED <<fd, nick, idx, target, sharedVars, file, sockOf, c2s>>

\* Mutant: the entry stays.
KeepEntry(f) == clients

\* remove_client() erases the entry of this socket, if there is one.
Without(f) == RemoveFirstMatch(clients, LAMBDA c : c.sock = f)

RemoveClient(w) ==
  /\ At(w, "remove") /\ clientsLock = None
  /\ clients' = Without(fd[w])
  /\ Goto(w, "close")
  /\ ServerSame
  /\ UNCHANGED <<fd, nick, msg, idx, target, reply, queue, clientsLock, offline,
                 offlineLock, history, file, sockOf, peer, c2s, s2c>>

CloseClient(w) ==
  /\ At(w, "close")
  /\ CloseSocket(w)
  /\ NextClient(w)
  /\ msg' = [msg EXCEPT ![w] = None]
  /\ ServerSame
  /\ UNCHANGED <<idx, target, reply, sharedVars, file, peer, c2s, s2c>>

-----------------------------------------------------------------------------
(* The end of the process. *)

\* The descriptor a worker is about to send to, None when it is not sending.
SendFd(w) ==
  CASE pc[w] \in {"welcome", "refuse", "info", "answer"} -> fd[w]
    [] pc[w] = "drain" /\ Holds(offlineLock, w)
         /\ idx[w] <= Len(offline[nick[w]]) -> fd[w]
    [] pc[w] = "broadcast" /\ Holds(clientsLock, w)
         /\ idx[w] <= Len(clients) -> clients[idx[w]].sock
    [] pc[w] = "private" -> target[w]
    [] OTHER -> None

\* A send to a connection the peer has reset raises SIGPIPE, which nobody ignores:
\* the process dies, with all its memory and descriptors.
Sigpipe(w) ==
  /\ up /\ SendFd(w) # None
  /\ sockOf[SendFd(w)] # None /\ peer[sockOf[SendFd(w)]] = "reset"
  /\ up' = FALSE
  /\ pc' = [v \in Workers |-> "pop"]
  /\ fd' = [v \in Workers |-> None]
  /\ nick' = [v \in Workers |-> None]
  /\ msg' = [v \in Workers |-> None]
  /\ idx' = [v \in Workers |-> 1]
  /\ target' = [v \in Workers |-> None]
  /\ reply' = [v \in Workers |-> None]
  /\ queue' = <<>> /\ history' = <<>>
  /\ clients' = <<>> /\ clientsLock' = None
  /\ offline' = [n \in Names |-> <<>>] /\ offlineLock' = None
  /\ sockOf' = [f \in Fds |-> None]
  /\ UNCHANGED <<file, restarts, peer, clientVars, c2s, s2c>>

\* Somebody starts the server again; main() reads no file.
Restart ==
  /\ ~up /\ restarts < MaxRestarts
  /\ up' = TRUE
  /\ restarts' = restarts + 1
  /\ UNCHANGED <<workerVars, sharedVars, file, sockOf, peer, clientVars, c2s, s2c>>

-----------------------------------------------------------------------------
(* The clients. *)

Open(c) == \E f \in Fds : sockOf[f] = c
ClientSame == UNCHANGED <<workerVars, sharedVars, file, sockOf, up, restarts, s2c>>

ClientSend(c, type, name, count) ==
  /\ c2s' = [c2s EXCEPT ![c] = Append(@, [type |-> type, src |-> c, id |-> nextId[c],
                                          name |-> name, count |-> count])]
  /\ nextId' = [nextId EXCEPT ![c] = @ + 1]

\* After the WELCOME the user types a nickname, or ends the input (None).
ClientAuth(c, n) ==
  /\ peer[c] = "open" /\ Open(c) /\ nextId[c] = 2
  /\ s2c[c] # <<>> /\ Head(s2c[c]).type = "WELCOME"
  /\ login' = [login EXCEPT ![c] = n]
  /\ ClientSend(c, "AUTH", n, 0)
  /\ UNCHANGED <<peer, taken>> /\ ClientSame

\* The client takes the next message for the answer to its AUTH; only an ERROR makes
\* it leave.
InChat(c) ==
  /\ peer[c] = "open" /\ Open(c) /\ nextId[c] > 2
  /\ Len(s2c[c]) >= 2 /\ s2c[c][2].type # "ERROR"

\* What the client shows of all it was sent: nothing when a WELCOME is not the first; its
\* main thread shows the WELCOME and, if the next message is one, an ERROR or a
\* SERVER_INFO; its receive thread shows the rest.
Shown(c) ==
  {k \in DOMAIN s2c[c] :
     s2c[c][1] = Welcome /\ (k = 2 => s2c[c][k].type \in {"ERROR", "SERVER_INFO"})}

ClientRequest(c, r) ==
  /\ InChat(c) /\ nextId[c] < 3 + MaxRequests[c]
  /\ ClientSend(c, r.type, r.name, r.count)
  /\ UNCHANGED <<login, taken, peer>> /\ ClientSame

\* /quit: a BYE, and the socket is closed.
ClientQuit(c) ==
  /\ InChat(c)
  /\ ClientSend(c, "BYE", None, 0)
  /\ peer' = [peer EXCEPT ![c] = "closed"]
  /\ UNCHANGED <<login, taken>> /\ ClientSame

\* Refused, end of input, or killed: the socket is closed without a BYE.
ClientClose(c) ==
  /\ peer[c] = "open"
  /\ peer' = [peer EXCEPT ![c] = "closed"]
  /\ UNCHANGED <<clientVars, c2s>> /\ ClientSame

\* The client reads all there is: its main thread while it waits for the answer to
\* the AUTH, its receive thread from then on.  Only whether the socket has room is
\* seen by the server, so reads are left out as long as it has.
ClientRead(c) ==
  /\ peer[c] = "open" /\ Open(c) /\ nextId[c] > 2
  /\ Len(s2c[c]) = taken[c] + SockBuf
  /\ taken' = [taken EXCEPT ![c] = Len(s2c[c])]
  /\ UNCHANGED <<login, nextId, peer, c2s>> /\ ClientSame

-----------------------------------------------------------------------------
Init ==
  /\ pc = [w \in Workers |-> "pop"]
  /\ fd = [w \in Workers |-> None]
  /\ nick = [w \in Workers |-> None]
  /\ msg = [w \in Workers |-> None]
  /\ idx = [w \in Workers |-> 1]
  /\ target = [w \in Workers |-> None]
  /\ reply = [w \in Workers |-> None]
  /\ queue = <<>> /\ history = <<>>
  /\ clients = <<>> /\ clientsLock = None
  /\ offline = [n \in Names |-> <<>>] /\ offlineLock = None
  /\ sockOf = [f \in Fds |-> None]
  /\ file = <<>>
  /\ up = TRUE /\ restarts = 0
  /\ peer = [c \in Conns |-> "none"]
  /\ login = [c \in Conns |-> None]
  /\ nextId = [c \in Conns |-> 1]
  /\ c2s = [c \in Conns |-> <<>>]
  /\ s2c = [c \in Conns |-> <<>>]
  /\ taken = [c \in Conns |-> 0]

WorkerStep(w) ==
  \/ Pop(w) \/ RecvHello(w) \/ SendWelcome(w) \/ RecvAuth(w) \/ CheckNick(w)
  \/ Register(w) \/ Refuse(w) \/ SendInfo(w)
  \/ LockOffline(w) \/ DeliverOffline(w)
  \/ RecvRequest(w) \/ LockClients(w) \/ Broadcast(w)
  \/ Lookup(w) \/ FindTarget(w) \/ SendPrivate(w) \/ StoreOffline(w) \/ SaveHistory(w)
  \/ ListUsers(w) \/ CollectHistory(w) \/ SendAnswer(w)
  \/ RemoveClient(w) \/ CloseClient(w) \/ Sigpipe(w)

ClientStep(c) ==
  \/ \E n \in Logins[c] : ClientAuth(c, n)
  \/ \E r \in Requests[c] : ClientRequest(c, r)
  \/ ClientQuit(c)
  \/ ClientClose(c)
  \/ ClientRead(c)

Next ==
  \/ \E c \in Conns, f \in Fds : Accept(c, f)
  \/ \E w \in Workers : WorkerStep(w)
  \/ \E c \in Conns : ClientStep(c)
  \/ Restart

Spec == Init /\ [][Next]_vars

\* The scheduler runs every thread that can go on: the pool's, and the one a client
\* reads with.  Users promise nothing.
FairSpec ==
  /\ Spec
  /\ \A w \in Workers : WF_vars(WorkerStep(w))
  /\ \A c \in Conns : WF_vars(ClientRead(c))

-----------------------------------------------------------------------------
(* Invariants. *)

Stages == {"pop", "hello", "welcome", "auth", "check", "register", "refuse", "info",
           "drain", "recv", "broadcast", "lookup", "deliver", "private", "store",
           "saveSent", "saveStored", "list", "history", "answer", "remove", "close"}

\* The stages from which a worker has entered its client in g_clients and has not
\* begun to leave.
SessionStages == Stages \ {"pop", "hello", "welcome", "auth", "check", "register",
                           "refuse", "remove", "close"}
RequestStages == {"broadcast", "lookup", "deliver", "private", "store", "saveSent",
                  "saveStored", "history"}
InSession(w) == pc[w] \in SessionStages

Client == [sock : Fds, nickname : Nicks]

VarTypes ==
  /\ pc \in [Workers -> Stages]
  /\ fd \in [Workers -> Fds \cup {None}]
  /\ nick \in [Workers -> Names]
  /\ msg \in [Workers -> Msg \cup {None}]
  /\ idx \in [Workers -> Nat \ {0}]
  /\ target \in [Workers -> Fds \cup {None}]
  /\ reply \in [Workers -> Reply \cup {None}]
  /\ queue \in Seq(Fds)
  /\ clients \in Seq(Client)
  /\ clientsLock \in Workers \cup {None}
  /\ offline \in [Names -> Seq(Msg)]
  /\ offlineLock \in Workers \cup {None}
  /\ history \in Seq(Record)
  /\ file \in Seq(Record)
  /\ sockOf \in [Fds -> Conns \cup {None}]
  /\ up \in BOOLEAN
  /\ restarts \in 0..MaxRestarts
  /\ peer \in [Conns -> {"none", "open", "closed", "reset"}]
  /\ login \in [Conns -> Names]
  /\ nextId \in [Conns -> Nat \ {0}]
  /\ c2s \in [Conns -> Seq(Msg)]
  /\ s2c \in [Conns -> Seq(Reply)]
  /\ taken \in [Conns -> Nat]

LocalsSet ==
  \A w \in Workers :
    /\ pc[w] = "pop" <=> fd[w] = None
    /\ pc[w] \in {"check", "register"} \cup SessionStages => nick[w] \in Nicks
    /\ pc[w] \in RequestStages => msg[w] \in Msg
    /\ pc[w] = "private" => target[w] \in Fds
    /\ pc[w] = "answer" => reply[w] \in Reply

\* Every variable has its type, and the locals of a worker are set at the stages that
\* use them.
TypeOK == VarTypes /\ LocalsSet

\* Every open descriptor waits in the queue or is served by a worker, and by one only:
\* none leaks, none is closed twice, none is served after it was closed.
DescriptorsOwned ==
  /\ \A f \in Fds :
       sockOf[f] # None <=> \/ \E i \in DOMAIN queue : queue[i] = f
                           \/ \E w \in Workers : fd[w] = f
  /\ \A i, j \in DOMAIN queue : queue[i] = queue[j] => i = j
  /\ \A i \in DOMAIN queue, w \in Workers : queue[i] # fd[w]
  /\ \A v, w \in Workers : fd[v] = fd[w] /\ fd[v] # None => v = w

\* Who owns an entry of g_clients: the one worker that serves this socket for this
\* nickname, and whose socket is still open.  remove_client() comes before close(), so
\* no entry ever names a descriptor accept() may hand out again.
RegistryOwned ==
  /\ \A i \in DOMAIN clients :
       /\ sockOf[clients[i].sock] # None
       /\ \E w \in Workers :
            /\ fd[w] = clients[i].sock /\ nick[w] = clients[i].nickname
            /\ InSession(w) \/ pc[w] = "remove"
  /\ \A i, j \in DOMAIN clients : clients[i].sock = clients[j].sock => i = j
  /\ \A w \in Workers : InSession(w) => fd[w] \in Socks

\* Each accepted connection is handed to one free worker, in the order they came, and
\* its descriptor is not handed out again before that worker has closed it.
Handoff == INSTANCE PoolQueue WITH waiting <- queue, serving <- fd
ImplementsPool == Handoff!Spec

-----------------------------------------------------------------------------
(* What the clients see. *)

\* Where in what it was sent a client has the chat.
Heard(c) == {k \in DOMAIN s2c[c] : s2c[c][k].type = "TEXT"}
Sent(c, r) == \E k \in DOMAIN s2c[c] : s2c[c][k] = r

\* Broadcasts are totally ordered and no client misses one in the middle: of two messages
\* that two clients both got, the same one came first, and whatever one of them got in
\* between, the other one did too.  This is what holding g_clients_mutex over the whole of
\* broadcast() is for.
BroadcastAgreement ==
  \A c, d \in Conns : \A i, k \in Heard(c), j, l \in Heard(d) :
    i < k /\ s2c[c][i].msg = s2c[d][j].msg /\ s2c[c][k].msg = s2c[d][l].msg =>
      /\ j < l
      /\ \A n \in Heard(c) : i < n /\ n < k =>
           \E p \in Heard(d) : j < p /\ p < l /\ s2c[d][p].msg = s2c[c][n].msg

\* The author of a chat message that is in the history has been sent it too: its entry
\* stays in g_clients for as long as its worker handles its requests.
AuthorEchoed ==
  \A i \in DOMAIN history :
    LET m == history[i].msg
    IN  m.type = "TEXT" => Sent(m.src, Text(m))

\* As long as nobody whispers, a connection hears WELCOME first, and one whose nickname
\* is refused hears the refusal and nothing of the chat: no entry of g_clients ever
\* names the descriptor of a connection that has not been authenticated.
RefusedSeesNothing ==
  \A c \in Conns :
    /\ s2c[c] # <<>> => s2c[c][1] = Welcome
    /\ Sent(c, Error) => s2c[c] = <<Welcome, Error>>

\* A private message the history says was stored is in its receiver's queue, or has been
\* sent, marked [OFFLINE], to a client that logged in under that nickname.
OfflineConserved ==
  \A i \in DOMAIN history :
    LET m == history[i].msg
    IN  history[i].is_offline =>
          \/ \E k \in DOMAIN offline[m.name] : offline[m.name][k] = m
          \/ \E c \in Conns : login[c] = m.name /\ Sent(c, Private(m, TRUE))

\* No private message is sent twice: not live and again from the queue, not to two
\* clients that share a nickname, not again after the queue was delivered.
PrivateAtMostOnce ==
  \A c, d \in Conns : \A k \in DOMAIN s2c[c], l \in DOMAIN s2c[d] :
    /\ s2c[c][k].type = "PRIVATE" /\ s2c[d][l].type = "PRIVATE"
    /\ s2c[c][k].msg = s2c[d][l].msg
    => c = d /\ k = l

\* Stored messages of one sender are delivered in the order they were sent.
OfflineInOrder ==
  \A c \in Conns : \A k, l \in DOMAIN s2c[c] :
    LET a == s2c[c][k]  b == s2c[c][l]
    IN  /\ k < l /\ a.type = "PRIVATE" /\ b.type = "PRIVATE"
        /\ a.offline /\ b.offline /\ a.msg.src = b.msg.src
        => a.msg.id < b.msg.id

\* A message can overtake the SERVER_INFO, or reach a descriptor that has become somebody
\* else's, and is not shown; a message that was stored is, whoever else sends to this
\* client meanwhile.
OfflineShown ==
  \A c \in Conns : \A k \in DOMAIN s2c[c] :
    s2c[c][k].type = "PRIVATE" /\ s2c[c][k].offline => k \in Shown(c)

\* A client that has seen its own chat message echoed finds it in the whole history it
\* asks for afterwards, as far as the reply has room.
ReadYourWrites ==
  \A c \in Conns : \A j, k \in DOMAIN s2c[c] :
    /\ j < k /\ s2c[c][j].type = "TEXT" /\ s2c[c][j].msg.src = c
    /\ s2c[c][k].type = "HISTORY_DATA" /\ Len(s2c[c][k].lines) < ReplyLines
    => \E i \in DOMAIN s2c[c][k].lines : s2c[c][k].lines[i].msg = s2c[c][j].msg

\* In memory and in the file, the records of one client are in the order of its requests.
InSendingOrder(recs) ==
  \A i, j \in DOMAIN recs :
    i < j /\ recs[i].msg.src = recs[j].msg.src => recs[i].msg.id < recs[j].msg.id

RecordsInOrder == InSendingOrder(history) /\ InSendingOrder(file)

(* What the documents say. *)

\* "Nicknames are unique": no two entries of g_clients have the same.
NicknamesUnique ==
  \A i, j \in DOMAIN clients : clients[i].nickname = clients[j].nickname => i = j

\* A private message goes to a client with the nickname it is addressed to.
PrivateOnlyToAddressee ==
  \A c \in Conns : \A k \in DOMAIN s2c[c] :
    s2c[c][k].type = "PRIVATE" => login[c] = s2c[c][k].msg.name

\* "The server returns the last messages": a reply ends with a record that is no older
\* than any chat message its reader has seen echoed before.
HistoryShowsLatest ==
  \A c \in Conns : \A j, k \in DOMAIN s2c[c] :
    /\ j < k /\ s2c[c][j].type = "TEXT" /\ s2c[c][j].msg.src = c
    /\ s2c[c][k].type = "HISTORY_DATA"
    => \E a, b \in DOMAIN file :
         /\ a >= b /\ file[b].msg = s2c[c][j].msg
         /\ s2c[c][k].lines # <<>> /\ file[a] = Last(s2c[c][k].lines)

\* A private message the history calls delivered has been sent to somebody.
DeliveredWasSent ==
  \A i \in DOMAIN history :
    LET m == history[i].msg
    IN  m.type = "PRIVATE" /\ history[i].delivered
          => \E c \in Conns : Sent(c, Private(m, FALSE)) \/ Sent(c, Private(m, TRUE))

(* What must happen. *)

Served(c) == \E w \in Workers : fd[w] # None /\ sockOf[fd[w]] = c

\* A worker lets go of a client that is gone: its socket is closed in the end.
GoneIsClosed ==
  \A c \in Conns : Served(c) /\ peer[c] # "open" ~> ~Served(c)

\* A worker reads all that its client asks, whatever the other clients do, provided that
\* those that are in the chat go on reading.
RequestServed ==
  \A c \in Conns : Served(c) /\ c2s[c] # <<>> ~> c2s[c] = <<>> \/ ~Served(c)

=============================================================================
