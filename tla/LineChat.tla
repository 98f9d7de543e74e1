------------------------------ MODULE LineChat ------------------------------
(***************************************************************************)
(* Lab 2: one client (2/tcp_client.cpp) and one server (2/tcp_server.cpp)  *)
(* on a FramedStream.  The client waits with select() for its socket and   *)
(* its standard input, and then takes lines from that with getline(), out  *)
(* of a buffer that select() does not know of.                             *)
(*                                                                         *)
(* A line is the message it asks for.  There is a server that listens;     *)
(* SIGPIPE is not ignored here and counts as one of the ways in which a    *)
(* process may be killed.                                                  *)
(***************************************************************************)
EXTENDS FramedStream, FiniteSets

CONSTANTS
  Nicks,           \* the nicknames a client may be started with
  Greeting,        \* payload of WELCOME
  Lines,           \* what the user may type
  MaxLines         \* bound: lines

HELLO == 1
WELCOME == 2
TEXT == 3
PING == 4
PONG == 5
BYE == 6

Message(type, payload) == [type |-> type, payload |-> payload]

ASSUME ChatAssumption ==
  /\ Nicks \subseteq Seq(0..(Base - 1)) /\ Greeting \in Seq(0..(Base - 1))
  /\ Fits(Message(WELCOME, Greeting))
  /\ \A line \in Lines :
       /\ line \in [type : {TEXT, PING, BYE}, payload : Seq(0..(Base - 1))]
       /\ line.type # TEXT => line.payload = <<>>
  /\ MaxLines \in Nat

VARIABLES
  pc,           \* stage of a process
  stdinReady,   \* what select() said of the standard input
  typed, eof,   \* lines the user has typed, and the end of the input
  taken, used   \* how many of them are out of the kernel, and out of getline()

inputVars == <<typed, eof, taken, used>>
vars == <<streamVars, pc, stdinReady, inputVars>>

Goto(e, stage) == pc' = [pc EXCEPT ![e] = stage]

\* sendMessage() and recvMessage() start; the process goes on when they have returned.
Sending(e, m, stage) == StartSend(e, m) /\ Goto(e, stage) /\ UNCHANGED rx
Receiving(e, stage) == StartRecv(e) /\ Goto(e, stage) /\ UNCHANGED <<todo, sent>>
Leave(e) == Goto(e, "end") /\ UNCHANGED <<todo, rx, sent>>

\* The loops of sendAll() and recvAll(); a send() that fails throws.
Transfer(e) ==
  /\ pc[e] \notin {"closed", "killed"}
  /\ \/ /\ SendSome(e) \/ SendToClosed(e) \/ RecvSome(e) \/ RecvEof(e)
        /\ UNCHANGED pc
     \/ SendToClosed(e) /\ Goto(e, "end")
  /\ UNCHANGED <<stdinReady, inputVars>>

\* The destructor of the socket, or the end of TcpClient::start().
CloseEnd(e) ==
  /\ pc[e] = "end"
  /\ Close(e) /\ Goto(e, "closed")
  /\ UNCHANGED <<stdinReady, inputVars>>

-----------------------------------------------------------------------------
(* The client. *)

\* connectTo() succeeds; a nickname that is too long throws.
Connect ==
  /\ pc["client"] = "connect"
  /\ \E nick \in Nicks :
       IF Fits(Message(HELLO, nick)) THEN Sending("client", Message(HELLO, nick), "hello")
                                     ELSE Leave("client")
  /\ UNCHANGED <<wire, isOpen, got, stdinReady, inputVars>>

\* Where it goes on when sendMessage() has returned.
ClientSent ==
  /\ todo["client"] = <<>>
  /\ \/ pc["client"] = "hello" /\ Receiving("client", "welcome")
     \/ pc["client"] = "send" /\ Goto("client", "select") /\ UNCHANGED <<todo, rx, sent>>
     \/ pc["client"] = "bye" /\ Leave("client")
  /\ UNCHANGED <<wire, isOpen, got, stdinReady, inputVars>>

RecvWelcome ==
  /\ pc["client"] = "welcome"
  /\ \/ /\ Received("client")
        /\ Goto("client", IF rx["client"].msg.type = WELCOME THEN "select" ELSE "end")
     \/ RecvFailed("client") /\ Goto("client", "end")
  /\ UNCHANGED <<streamVars, stdinReady, inputVars>>

\* Mutant: the end of the input does not make it readable.
NewLines == taken < Len(typed)

\* What the kernel has for the standard input.
InputReadable == taken < Len(typed) \/ eof

\* Mutant: standard input is served whether or not the socket has something.
AnyOrder == InputReadable

\* The socket is served first.
InputOnly == InputReadable /\ ~Readable("client")

\* select() says what is ready at one moment.
Select ==
  /\ pc["client"] = "select"
  /\ stdinReady' = InputReadable
  /\ \/ Readable("client") /\ Receiving("client", "incoming")
     \/ InputOnly /\ Goto("client", "line")
        /\ UNCHANGED <<todo, rx, sent>>
  /\ UNCHANGED <<wire, isOpen, got, inputVars>>

\* handleIncoming()
Incoming ==
  /\ pc["client"] = "incoming"
  /\ \/ /\ Received("client")
        /\ Goto("client", IF rx["client"].msg.type = BYE THEN "end"
                          ELSE IF stdinReady THEN "line" ELSE "select")
     \/ RecvFailed("client") /\ Goto("client", "end")
  /\ UNCHANGED <<streamVars, stdinReady, inputVars>>

\* Mutant: what one read() returned beyond the first line is dropped.
DropBuffer(n) == n

\* The line getline() returns is the first one that is buffered.
NextUsed(n) == used + 1

\* getline(): a line that is buffered, or else one read() that may return several.
GetLine ==
  /\ IF used < taken THEN UNCHANGED taken ELSE taken' \in (used + 1)..Len(typed)
  /\ used' = NextUsed(taken')
  /\ UNCHANGED <<typed, eof>>

\* handleStdinLine(); a text that is too long throws.
HandleLine ==
  /\ pc["client"] = "line"
  /\ \/ /\ GetLine
        /\ LET line == typed[used']
           IN  IF Fits(line)
               THEN Sending("client", line, IF line.type = BYE THEN "bye" ELSE "send")
               ELSE Leave("client")
     \/ used = Len(typed) /\ eof /\ Leave("client") /\ UNCHANGED inputVars
  /\ UNCHANGED <<wire, isOpen, got, stdinReady>>

ClientStep ==
  \/ Transfer("client") \/ Connect \/ ClientSent \/ RecvWelcome \/ Select \/ Incoming
  \/ HandleLine \/ CloseEnd("client")

-----------------------------------------------------------------------------
(* The server. *)

\* accept() returns the connection the client has made, whether or not it is still there.
Accept ==
  /\ pc["server"] = "accept" /\ pc["client"] # "connect"
  /\ Receiving("server", "hello")
  /\ UNCHANGED <<wire, isOpen, got, stdinReady, inputVars>>

RecvHello ==
  /\ pc["server"] = "hello"
  /\ \/ /\ Received("server")
        /\ IF rx["server"].msg.type = HELLO
           THEN Sending("server", Message(WELCOME, Greeting), "send")
           ELSE Leave("server")
     \/ RecvFailed("server") /\ Leave("server")
  /\ UNCHANGED <<wire, isOpen, got, stdinReady, inputVars>>

ServerSent ==
  /\ pc["server"] = "send" /\ todo["server"] = <<>>
  /\ Receiving("server", "recv")
  /\ UNCHANGED <<wire, isOpen, got, stdinReady, inputVars>>

\* Mutant: the two types are mixed up.
IsPong(m) == m.type = PONG

IsPing(m) == m.type = PING

RecvMessage ==
  /\ pc["server"] = "recv"
  /\ \/ /\ Received("server")
        /\ CASE IsPing(rx["server"].msg) -> Sending("server", Message(PONG, <<>>), "send")
             [] rx["server"].msg.type = BYE -> Leave("server")
             [] OTHER -> Receiving("server", "recv")
     \/ RecvFailed("server") /\ Leave("server")
  /\ UNCHANGED <<wire, isOpen, got, stdinReady, inputVars>>

ServerStep ==
  \/ Transfer("server") \/ Accept \/ RecvHello \/ ServerSent \/ RecvMessage
  \/ CloseEnd("server")

-----------------------------------------------------------------------------
(* The user, and faults. *)

TypeLine ==
  /\ isOpen = Ends /\ ~eof /\ Len(typed) < MaxLines
  /\ \E line \in Lines : typed' = Append(typed, line)
  /\ UNCHANGED <<streamVars, pc, stdinReady, eof, taken, used>>

EndInput ==
  /\ isOpen = Ends /\ ~eof
  /\ eof' = TRUE
  /\ UNCHANGED <<streamVars, pc, stdinReady, typed, taken, used>>

Kill(e) ==
  /\ e \in isOpen
  /\ Close(e) /\ Goto(e, "killed")
  /\ UNCHANGED <<stdinReady, inputVars>>

-----------------------------------------------------------------------------
Init ==
  /\ StreamInit
  /\ pc = [client |-> "connect", server |-> "accept"]
  /\ stdinReady = FALSE
  /\ typed = <<>> /\ eof = FALSE /\ taken = 0 /\ used = 0

Next ==
  \/ ClientStep \/ ServerStep
  \/ TypeLine \/ EndInput
  \/ \E e \in Ends : Kill(e)

\* The processes run; the user and the faults owe nothing.
Fairness == WF_vars(ClientStep) /\ WF_vars(ServerStep)

Spec == Init /\ [][Next]_vars /\ Fairness

-----------------------------------------------------------------------------
Types == {HELLO, WELCOME, TEXT, PING, PONG, BYE}
Messages == [type : Types, payload : UNION {[1..n -> 0..(Base - 1)] : n \in 0..MaxPayload}]

\* Every variable has its type; a process that sends has said what, and no end that is
\* closed has anything left to send.
TypeOK ==
  /\ pc \in [Ends -> {"connect", "accept", "hello", "welcome", "select", "incoming", "line",
                      "send", "bye", "recv", "end", "closed", "killed"}]
  /\ stdinReady \in BOOLEAN /\ eof \in BOOLEAN
  /\ typed \in Seq(Lines)
  /\ taken \in 0..Len(typed) /\ used \in 0..taken
  /\ \A e \in Ends :
       /\ sent[e] \in Seq(Messages) /\ got[e] \in Seq(Messages)
       /\ todo[e] \in Seq(Nat) /\ wire[e] \in Seq(Nat) /\ Len(wire[e]) <= WireCap
       /\ InRecv(e) => Len(rx[e].buf) < rx[e].need
       /\ e \notin isOpen <=> pc[e] \in {"closed", "killed"}
       /\ e \notin isOpen => todo[e] = <<>> /\ rx[e] = Idle
  /\ isOpen \subseteq Ends

\* The pieces of net.cpp keep the promise of MessageLink, in both directions: however the
\* bytes are cut up, messages arrive whole, in order, once, and nothing else does.
Link == INSTANCE MessageLink
ImplementsLink == Link!Spec

\* Neither end takes the other one's stream for a breach of the protocol.
NoProtocolError ==
  /\ \A e \in Ends : rx[e].stage # "error"
  /\ got["client"] # <<>> => got["client"][1].type = HELLO
  /\ got["server"] # <<>> => got["server"][1].type = WELCOME

\* What the server receives after the HELLO, and prints, is what the user typed, from the
\* first line on, with no line left out: whatever was read ahead, and whoever dies.
PrintedIsPrefix ==
  \A k \in DOMAIN got["client"] \ {1} :
    k - 1 \in DOMAIN typed /\ got["client"][k] = typed[k - 1]

\* A line that ends the session, and the lines up to the first such line.
EndsSession(line) == line.type = BYE \/ ~Fits(line)
Said == {k \in DOMAIN typed : \A j \in 1..(k - 1) : ~EndsSession(typed[j])}
LastWords == eof \/ \E k \in Said : EndsSession(typed[k]) /\ k <= used

\* Once the input is over, or getline() has returned a line that ends the session, all
\* that was typed before gets to the server, lines that wait in getline()'s buffer
\* included.  (Before that they may wait for ever: select() is not told of them.)  Not so
\* when there was a /ping: its PONG may be unread when the client closes, and the reset
\* that follows takes what is still under way with it.
AllDelivered ==
  (LastWords /\ \A k \in Said : typed[k].type # PING) ~>
    \/ \E e \in Ends : pc[e] = "killed"
    \/ sent["client"] = <<>> /\ pc["client"] # "connect"
    \/ /\ got["client"] # <<>>
       /\ Tail(got["client"]) = SelectSeq(SubSeq(typed, 1, Cardinality(Said)), Fits)

\* Every /ping that is sent gets its PONG unless an end closes: two processes that send
\* to each other do not wait for each other for ever, as long as a frame fits into what
\* the kernels hold in one direction.
Count(s, type) == Len(SelectSeq(s, LAMBDA m : m.type = type))
PingAnswered ==
  Count(sent["client"], PING) > Count(got["server"], PONG) ~>
    Count(sent["client"], PING) = Count(got["server"], PONG) \/ isOpen # Ends

=============================================================================
