--------------------------- MODULE ReconnectClient ---------------------------
(***************************************************************************)
(* The client of lab 3 (3/client.cpp): the main thread reads lines and     *)
(* sends, the receive thread reads and, when the connection is lost, makes *)
(* a new one.  They share the number of the socket, sockfd_, and two       *)
(* flags; a number that was copied may name another connection by the time *)
(* it is used.                                                             *)
(*                                                                         *)
(* The kernel looks a descriptor up on every call.  A recv() that waits    *)
(* keeps its connection up although the descriptor is closed by the other  *)
(* thread, and is not woken by that.                                       *)
(*                                                                         *)
(* Of the server (3/server.cpp, FrameServer) there is what a connection    *)
(* meets: a worker that serves it, or none that ever gets to it.  Frames   *)
(* from it are read as a whole; descriptors and sockets do not run out.    *)
(***************************************************************************)
EXTENDS Naturals, Sequences, FiniteSets

CONSTANTS
  Fds,          \* descriptors, 1 is the lowest that is free at the start
  MaxConns,     \* bound: connections that succeed
  Lines,        \* types of message the user's lines ask for
  MaxLines,     \* bound: lines other than /quit
  None          \* no descriptor, connection or frame

ASSUME ClientAssumption ==
  /\ Fds \subseteq Nat /\ IsFiniteSet(Fds)
  /\ MaxConns \in Nat /\ MaxLines \in Nat
  /\ Lines \subseteq {"TEXT", "PING"}
  /\ None \notin Fds \cup Nat \cup {"HELLO", "TEXT", "PING", "BYE"}

Conns == 1..MaxConns
Threads == {"main", "receiver"}
Kinds == {"HELLO", "BYE"} \cup Lines

VARIABLES
  pc,           \* stage of a thread
  sock,         \* its local copy of a descriptor
  out, part,    \* the frame it sends, which third of it is next
  reading,      \* the connection its recv() waits on
  sockfd, connected, running,  \* sockfd_, is_connected_, running_
  table,        \* what a descriptor is: None when closed, 0 when not connected
  made,         \* connections made
  typed,        \* lines read
  srv,          \* the server's side of a connection
  c2s, seen,    \* thirds of frames it was sent, how many of them it has read
  s2c           \* messages of the server that are not read yet

localVars == <<pc, sock, out, part, reading>>
flagVars == <<sockfd, connected, running>>
serverVars == <<srv, c2s, seen, s2c>>
vars == <<localVars, flagVars, table, made, typed, serverVars>>

\* The three send_all() calls of send_message(); no payload sent here is empty.
Parts == 3

Goto(t, stage) == pc' = [pc EXCEPT ![t] = stage]

\* A step that only decides where the thread goes.
Move(t, from, to) ==
  /\ pc[t] = from /\ Goto(t, to)
  /\ UNCHANGED <<sock, out, part, reading, flagVars, table, made, typed, serverVars>>

Prepare(t, kind) ==
  /\ out' = [out EXCEPT ![t] = kind]
  /\ part' = [part EXCEPT ![t] = 1]

\* The connection a descriptor names, if it does.
Named(fd) == IF fd \in Fds /\ table[fd] \in Conns THEN table[fd] ELSE None

\* The client's end is up while a descriptor names it or a recv() waits on it.
IsUp(c) == (\E fd \in Fds : table[fd] = c) \/ (\E t \in Threads : reading[t] = c)

Init ==
  /\ pc = [main |-> "socket", receiver |-> "idle"]
  /\ sock = [t \in Threads |-> None]
  /\ out = [t \in Threads |-> None]
  /\ part = [t \in Threads |-> 1]
  /\ reading = [t \in Threads |-> None]
  /\ sockfd = None /\ connected = FALSE /\ running = TRUE
  /\ table = [fd \in Fds |-> None]
  /\ made = 0 /\ typed = 0
  /\ srv = [c \in Conns |-> "hello"]
  /\ c2s = [c \in Conns |-> <<>>]
  /\ seen = [c \in Conns |-> 0]
  /\ s2c = [c \in Conns |-> <<>>]

-----------------------------------------------------------------------------
(* connect_and_handshake(), by the main thread at first, then by the receive thread. *)

\* Where it returns to.
Returned == [main |-> "start", receiver |-> "top"]
ReturnedFalse == [main |-> "start", receiver |-> "retry"]

\* socket() returns the lowest descriptor that is free.
Socket(t) ==
  /\ pc[t] = "socket"
  /\ \E fd \in Fds :
       /\ table[fd] = None /\ \A lower \in Fds : lower < fd => table[lower] # None
       /\ sock' = [sock EXCEPT ![t] = fd]
       /\ table' = [table EXCEPT ![fd] = 0]
  /\ Goto(t, "connect")
  /\ UNCHANGED <<out, part, reading, flagVars, made, typed, serverVars>>

\* Mutant: a new connection to a server that has once said WELCOME is used at once.
FirstOnly(t) == IF t = "main" THEN "send" ELSE "publish"

\* Every connection begins with a HELLO.
AfterConnect(t) == "send"

Connect(t) ==
  /\ pc[t] = "connect"
  /\ \/ /\ made < MaxConns
        /\ made' = made + 1
        /\ table' = [table EXCEPT ![sock[t]] = made']
        /\ Prepare(t, "HELLO") /\ Goto(t, AfterConnect(t))
     \/ Goto(t, "close") /\ UNCHANGED <<made, table, out, part>>
  /\ UNCHANGED <<sock, reading, flagVars, typed, serverVars>>

\* The handshake has failed.
CloseNew(t) ==
  /\ pc[t] = "close"
  /\ table' = [table EXCEPT ![sock[t]] = None]
  /\ Goto(t, ReturnedFalse[t])
  /\ UNCHANGED <<sock, out, part, reading, flagVars, made, typed, serverVars>>

\* Under the mutex.
Publish(t) ==
  /\ pc[t] = "publish"
  /\ sockfd' = sock[t] /\ connected' = TRUE
  /\ Goto(t, Returned[t])
  /\ UNCHANGED <<sock, out, part, reading, running, table, made, typed, serverVars>>

-----------------------------------------------------------------------------
(* Messages. *)

\* Where a thread goes on after send_message(), which says whether it failed but for a BYE.
AfterSend == [HELLO |-> "welcome", TEXT |-> "line", PING |-> "line", BYE |-> "quitStop"]

\* Mutant: a line that cannot be sent counts as the loss of the connection.
SendLost == [AfterSend EXCEPT !["HELLO"] = "close", !["TEXT"] = "lost", !["PING"] = "lost"]

AfterFailure == [AfterSend EXCEPT !["HELLO"] = "close"]

\* One send_all() of a third of a frame, on whatever the descriptor names now; a server
\* that has closed may swallow it or fail it.
SendPart(t) ==
  /\ pc[t] = "send"
  /\ LET c == Named(sock[t])
     IN  \/ /\ c # None
            /\ c2s' = IF srv[c] = "closed" THEN c2s
                      ELSE [c2s EXCEPT ![c] = Append(@, [kind |-> out[t], part |-> part[t]])]
            /\ IF part[t] < Parts
               THEN part' = [part EXCEPT ![t] = @ + 1] /\ UNCHANGED <<pc, out>>
               ELSE Prepare(t, None) /\ Goto(t, AfterSend[out[t]])
         \/ /\ c # None => srv[c] = "closed"
            /\ Prepare(t, None) /\ Goto(t, AfterFailure[out[t]])
            /\ UNCHANGED c2s
  /\ UNCHANGED <<sock, reading, flagVars, table, made, typed, srv, seen, s2c>>

\* recv_message() is called; it fails at once on a descriptor that is no connection.
EnterRecv(t) ==
  /\ pc[t] \in {"welcome", "recv"}
  /\ reading' = [reading EXCEPT ![t] = Named(sock[t])]
  /\ Goto(t, IF Named(sock[t]) # None THEN [welcome |-> "waiting", recv |-> "reading"][pc[t]]
             ELSE [welcome |-> "close", recv |-> "lost"][pc[t]])
  /\ UNCHANGED <<sock, out, part, flagVars, table, made, typed, serverVars>>

\* recv_message() returned a message; any but a WELCOME fails the handshake.
RecvMessage(t) ==
  /\ pc[t] \in {"waiting", "reading"} /\ s2c[reading[t]] # <<>>
  /\ Goto(t, IF pc[t] = "reading" THEN "top"
             ELSE IF Head(s2c[reading[t]]) = "WELCOME" THEN "publish" ELSE "close")
  /\ s2c' = [s2c EXCEPT ![reading[t]] = Tail(@)]
  /\ reading' = [reading EXCEPT ![t] = None]
  /\ UNCHANGED <<sock, out, part, flagVars, table, made, typed, srv, c2s, seen>>

\* Mutant: no difference is made between a message and the end of the stream.
AlwaysTop == [waiting |-> "close", reading |-> "top"]

AfterEnd == [waiting |-> "close", reading |-> "lost"]

\* recv_message() failed: the server has closed.
RecvFailed(t) ==
  /\ pc[t] \in {"waiting", "reading"}
  /\ s2c[reading[t]] = <<>> /\ srv[reading[t]] = "closed"
  /\ Goto(t, AfterEnd[pc[t]])
  /\ reading' = [reading EXCEPT ![t] = None]
  /\ UNCHANGED <<sock, out, part, flagVars, table, made, typed, serverVars>>

\* Mutant: the number is forgotten, the descriptor stays open.
Forget(fd) == table

Closed(fd) == IF fd = None THEN table ELSE [table EXCEPT ![fd] = None]

\* close_connection(), under the mutex.
CloseConnection(t) ==
  /\ pc[t] \in {"lost", "quitClose", "shut"}
  /\ table' = Closed(sockfd)
  /\ sockfd' = None /\ connected' = FALSE
  /\ Goto(t, [lost |-> "top", quitClose |-> "stop", shut |-> "join"][pc[t]])
  /\ UNCHANGED <<sock, out, part, reading, running, made, typed, serverVars>>

-----------------------------------------------------------------------------
(* receiver_loop() and reconnect_loop() *)

\* Mutant: the receive thread never ends by itself.
Forever == TRUE

KeepOn == running

ReceiverTop == Move("receiver", "top", IF KeepOn THEN "check" ELSE "done")

ReceiverCheck == Move("receiver", "check", IF connected THEN "getSocket" ELSE "retry")

Retry == Move("receiver", "retry", IF running /\ ~connected THEN "sleep" ELSE "top")

\* The client may have been told to stop while it slept.
WakeUp == Move("receiver", "sleep", IF running THEN "socket" ELSE "top")

\* get_socket(), under the mutex.
GetSocket(t) ==
  /\ pc[t] = "getSocket"
  /\ sock' = [sock EXCEPT ![t] = sockfd]
  /\ Goto(t, IF t = "receiver" THEN "recv" ELSE "send")
  /\ UNCHANGED <<out, part, reading, flagVars, table, made, typed, serverVars>>

\* What both threads do.
CommonStep(t) ==
  \/ Socket(t) \/ Connect(t) \/ CloseNew(t) \/ Publish(t) \/ SendPart(t) \/ EnterRecv(t)
  \/ RecvMessage(t) \/ RecvFailed(t) \/ CloseConnection(t) \/ GetSocket(t)

ReceiverStep ==
  ReceiverTop \/ ReceiverCheck \/ Retry \/ WakeUp \/ CommonStep("receiver")

-----------------------------------------------------------------------------
(* run() *)

\* The receive thread is started whether or not there is a connection.
Start ==
  /\ pc["main"] = "start"
  /\ pc' = [main |-> "line", receiver |-> "top"]
  /\ UNCHANGED <<sock, out, part, reading, flagVars, table, made, typed, serverVars>>

\* A text or a /ping; it is dropped with a notice when there is no connection.
ReadLine(kind) ==
  /\ pc["main"] = "line" /\ typed < MaxLines
  /\ typed' = typed + 1
  /\ IF connected THEN Prepare("main", kind) /\ Goto("main", "getSocket")
     ELSE UNCHANGED <<pc, out, part>>
  /\ UNCHANGED <<sock, reading, flagVars, table, made, serverVars>>

\* /quit takes the descriptor before it looks at is_connected_.
ReadQuit ==
  /\ pc["main"] = "line"
  /\ sock' = [sock EXCEPT !["main"] = sockfd]
  /\ Goto("main", "quit")
  /\ UNCHANGED <<out, part, reading, flagVars, table, made, typed, serverVars>>

ReadEof == Move("main", "line", "stop")

SayBye ==
  /\ pc["main"] = "quit"
  /\ IF connected THEN Prepare("main", "BYE") /\ Goto("main", "send")
     ELSE Goto("main", "quitStop") /\ UNCHANGED <<out, part>>
  /\ UNCHANGED <<sock, reading, flagVars, table, made, typed, serverVars>>

Stop ==
  /\ pc["main"] \in {"quitStop", "stop"}
  /\ running' = FALSE
  /\ Goto("main", [quitStop |-> "quitClose", stop |-> "shut"][pc["main"]])
  /\ UNCHANGED <<sock, out, part, reading, sockfd, connected, table, made, typed, serverVars>>

Join == pc["receiver"] = "done" /\ Move("main", "join", "done")

\* What the main thread does by itself, and what the user makes it do.
MainStep == Start \/ SayBye \/ Stop \/ Join \/ CommonStep("main")

UserStep == (\E kind \in Lines : ReadLine(kind)) \/ ReadQuit \/ ReadEof

-----------------------------------------------------------------------------
(* The server, as far as a connection can tell. *)

\* What it has not read.
Unread(c) == SubSeq(c2s[c], seen[c] + 1, Len(c2s[c]))
IsFrame(s, kind) == Len(s) >= Parts /\ \A k \in 1..Parts : s[k] = [kind |-> kind, part |-> k]

Answer(c, type) == [s2c EXCEPT ![c] = Append(@, type)]

\* It reads a frame: the first one has to be a HELLO, a BYE ends the session.
ServerRead(c) ==
  /\ srv[c] \in {"hello", "chat"} /\ IsUp(c)
  /\ \E kind \in Kinds :
       /\ IsFrame(Unread(c), kind)
       /\ seen' = [seen EXCEPT ![c] = @ + Parts]
       /\ srv' = [srv EXCEPT ![c] =
            IF kind = "BYE" \/ (srv[c] = "hello" /\ kind # "HELLO") THEN "closed" ELSE "chat"]
       /\ s2c' = CASE kind = "HELLO" /\ srv[c] = "hello" -> Answer(c, "WELCOME")
                   [] kind = "PING" /\ srv[c] = "chat" -> Answer(c, "PONG")
                   [] OTHER -> s2c
  /\ UNCHANGED <<localVars, flagVars, table, made, typed, c2s>>

\* Thirds of different frames make it lose its place: what it takes for lengths, types and
\* texts from then on may make it close, answer, or wait for more than will come.
ServerMisread(c) ==
  /\ srv[c] \in {"hello", "chat"} /\ IsUp(c)
  /\ Unread(c) # <<>>
  /\ \A kind \in Kinds : \E k \in 1..Parts :
       k <= Len(Unread(c)) /\ Unread(c)[k] # [kind |-> kind, part |-> k]
  /\ srv' = [srv EXCEPT ![c] = "lost"]
  /\ s2c' \in {s2c, Answer(c, "WELCOME"), Answer(c, "TEXT")}
  /\ UNCHANGED <<localVars, flagVars, table, made, typed, c2s, seen>>

\* Somebody else's message, while the last one is read.
ServerSay(c) ==
  /\ srv[c] = "chat" /\ IsUp(c) /\ s2c[c] = <<>>
  /\ s2c' = Answer(c, "TEXT")
  /\ UNCHANGED <<localVars, flagVars, table, made, typed, srv, c2s, seen>>

\* Nobody reads it any more: it waits in the queue while every worker of the pool is kept by
\* another client, or its worker waits in a broadcast for a client that does not read.
ServerHeld(c) ==
  /\ srv[c] \in {"hello", "chat"} /\ IsUp(c)
  /\ srv' = [srv EXCEPT ![c] = "held"]
  /\ UNCHANGED <<localVars, flagVars, table, made, typed, c2s, seen, s2c>>

\* It dies, or closes for a reason of its own.
ServerClose(c) ==
  /\ srv[c] # "closed" /\ IsUp(c)
  /\ srv' = [srv EXCEPT ![c] = "closed"]
  /\ UNCHANGED <<localVars, flagVars, table, made, typed, c2s, seen, s2c>>

ServerStep(c) == ServerRead(c) \/ ServerMisread(c) \/ ServerSay(c) \/ ServerHeld(c)
                 \/ ServerClose(c)

-----------------------------------------------------------------------------
Next == ReceiverStep \/ MainStep \/ UserStep \/ \E c \in Conns : ServerStep(c)

\* The two threads run, ...
ThreadsRun == WF_vars(ReceiverStep) /\ WF_vars(MainStep)

\* ... and the worker of a connection that is not held reads what it is sent.  The user,
\* and the server's own wish to speak or to close, owe nothing.
WorkersRead == \A c \in Conns : WF_vars(ServerRead(c))

Fairness == ThreadsRun /\ WorkersRead

Spec == Init /\ [][Next]_vars /\ Fairness

-----------------------------------------------------------------------------
HandshakeStages == {"socket", "connect", "send", "welcome", "waiting", "publish", "close"}
MainStages == {"start", "line", "getSocket", "quit", "quitStop", "quitClose", "stop", "shut",
               "join", "done"}
ReceiverStages == {"idle", "top", "check", "retry", "sleep", "getSocket", "recv", "reading",
                   "lost", "done"}

\* Every variable has its type; a thread that waits in recv() waits on a connection.
TypeOK ==
  /\ pc \in [Threads -> HandshakeStages \cup MainStages \cup ReceiverStages]
  /\ pc["main"] \notin ReceiverStages \ MainStages
  /\ pc["receiver"] \notin MainStages \ ReceiverStages
  /\ sock \in [Threads -> Fds \cup {None}]
  /\ out \in [Threads -> Kinds \cup {None}]
  /\ part \in [Threads -> 1..Parts]
  /\ reading \in [Threads -> Conns \cup {None}]
  /\ sockfd \in Fds \cup {None} /\ connected \in BOOLEAN /\ running \in BOOLEAN
  /\ table \in [Fds -> Conns \cup {0, None}]
  /\ made \in 0..MaxConns /\ typed \in 0..MaxLines
  /\ srv \in [Conns -> {"hello", "chat", "held", "lost", "closed"}]
  /\ c2s \in [Conns -> Seq([kind : Kinds, part : 1..Parts])]
  /\ seen \in [Conns -> Nat]
  /\ s2c \in [Conns -> Seq({"WELCOME", "TEXT", "PONG"})]
  /\ \A t \in Threads :
       /\ pc[t] \in {"waiting", "reading"} <=> reading[t] # None
       /\ pc[t] = "send" <=> out[t] # None /\ pc[t] # "getSocket"

\* However often the connection is lost, one socket is open at most; is_connected_ says
\* that sockfd_ is a connection, no other descriptor is one then, and while the client runs
\* the receive thread reads that one and no other.
SocketOwned ==
  /\ \A a, b \in Fds : table[a] # None /\ table[b] # None => a = b
  /\ connected <=> sockfd # None
  /\ connected => Named(sockfd) # None
  /\ pc["receiver"] = "reading" /\ running =>
       connected /\ reading["receiver"] = Named(sockfd)

\* Where in what a connection was sent the main thread's thirds are, and whether the HELLO
\* was complete before a place.
Others(c) == {k \in DOMAIN c2s[c] : c2s[c][k].kind # "HELLO"}
Greeted(c, k) == \E h \in DOMAIN c2s[c] : h < k /\ c2s[c][h] = [kind |-> "HELLO", part |-> Parts]

\* One third after the other belongs to the same frame or begins the next one.
Unbroken(s, places) ==
  \A j, k \in places : j < k /\ (\A i \in places : i <= j \/ k <= i) =>
    IF s[j].part = Parts THEN s[k].part = 1
    ELSE s[k].kind = s[j].kind /\ s[k].part = s[j].part + 1

\* A message whose descriptor was reused can end up in the handshake of the next
\* connection, or lose its first thirds to the one before; a connection gets one such
\* message at most, and everything after it whole and after the HELLO.
OneStray ==
  \A c \in Conns :
    /\ Unbroken(c2s[c], Others(c))
    /\ \A j, k \in Others(c) : c2s[c][j].part = Parts /\ j < k => Greeted(c, k)

\* The server has been, or will be, told to close by a BYE it can make out.
ToldBye(c) ==
  /\ Unbroken(c2s[c], Others(c))
  /\ \A k \in Others(c) : Greeted(c, k) /\ ((\A j \in Others(c) : k <= j) => c2s[c][k].part = 1)
  /\ \E k \in Others(c) : c2s[c][k] = [kind |-> "BYE", part |-> Parts]

\* What join() can wait for in vain: a recv() from a server that has nothing to say and no
\* worker for this connection, or was not told to close, or was led astray by the main
\* thread's message.
Hangs ==
  LET c == reading["receiver"]
  IN  /\ c # None /\ s2c[c] = <<>> /\ srv[c] # "closed"
      /\ \/ srv[c] = "held"
         \/ IF pc["receiver"] = "reading" THEN ~ToldBye(c) ELSE Others(c) # {}

\* After /quit or the end of the input the receive thread ends and the client with it,
\* whatever it was doing, or join() waits for good for a recv() that close() does not wake.
JoinEnds == (pc["main"] = "join") ~> (pc["main"] = "done" \/ []Hangs)

\* While the client runs, a connection that the server has closed does not stay the
\* current one.
LossNoticed ==
  \A c \in Conns :
    LET Current == running /\ connected /\ Named(sockfd) = c
    IN  (Current /\ srv[c] = "closed") ~> ~Current

=============================================================================
