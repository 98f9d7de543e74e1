------------------------ MODULE ReconnectClientProofs ------------------------
(***************************************************************************)
(* Proofs about ReconnectClient: the two threads open, write to and close  *)
(* sockets through numbers they copied, and still own one socket at most,  *)
(* whatever is lost and remade; and no connection gets more than one       *)
(* message that was meant for the one before it.                           *)
(***************************************************************************)
EXTENDS ReconnectClient, ListLemmas

USE ClientAssumption DEF Threads

\* A thread that has its own socket, not published yet.
Connecting(t) ==
  \/ pc[t] \in {"connect", "welcome", "waiting", "publish", "close"}
  \/ pc[t] = "send" /\ out[t] = "HELLO"

\* The main thread makes the first connection before it starts the receive thread, which
\* makes all others, and closes a connection only after it has told the client to stop.
Turns ==
  /\ pc["receiver"] = "idle" <=> pc["main"] \in {"socket", "start"} \/ Connecting("main")
  /\ pc["main"] \in {"quitClose", "shut"} => ~running

\* The receive thread sends HELLOs only; the main thread has a frame when it looks for the
\* socket to send it on, the receive thread has none.
Sending ==
  /\ pc["receiver"] = "send" => out["receiver"] = "HELLO"
  /\ pc["receiver"] = "getSocket" => out["receiver"] = None
  /\ pc["main"] = "getSocket" => out["main"] \in Lines

\* A socket that is open is the published one or that of a thread that is connecting;
\* nobody connects while one is published.
Owned ==
  /\ \A fd \in Fds : table[fd] # None =>
       (connected /\ fd = sockfd) \/ \E t \in Threads : Connecting(t) /\ sock[t] = fd
  /\ \A t \in Threads : pc[t] = "socket" \/ Connecting(t) => ~connected
  /\ \A t \in Threads : Connecting(t) => sock[t] \in Fds
  /\ \A t \in Threads : Connecting(t) /\ pc[t] \notin {"connect", "close"} =>
       table[sock[t]] \in Conns
  /\ pc["receiver"] = "sleep" => ~connected
  /\ connected <=> sockfd # None
  /\ connected => table[sockfd] \in Conns

\* While the client runs the receive thread follows the published socket.
Follows ==
  running =>
    /\ pc["receiver"] = "getSocket" => connected
    /\ pc["receiver"] = "recv" => connected /\ sock["receiver"] = sockfd
    /\ pc["receiver"] = "reading" => connected /\ reading["receiver"] = table[sockfd]

\* The inductive invariant.
IInv == TypeOK /\ Turns /\ Sending /\ Owned /\ Follows

-----------------------------------------------------------------------------
(* The parts of TypeOK. *)

\* What the threads hold and share.
ClientTypes ==
  /\ pc \in [Threads -> HandshakeStages \cup MainStages \cup ReceiverStages]
  /\ sock \in [Threads -> Fds \cup {None}]
  /\ out \in [Threads -> Kinds \cup {None}]
  /\ part \in [Threads -> 1..Parts]
  /\ reading \in [Threads -> Conns \cup {None}]
  /\ sockfd \in Fds \cup {None} /\ connected \in BOOLEAN /\ running \in BOOLEAN
  /\ table \in [Fds -> Conns \cup {0, None}]
  /\ made \in 0..MaxConns /\ typed \in 0..MaxLines

\* The connections.
ServerTypes ==
  /\ srv \in [Conns -> {"hello", "chat", "held", "lost", "closed"}]
  /\ c2s \in [Conns -> Seq([kind : Kinds, part : 1..Parts])]
  /\ seen \in [Conns -> Nat]
  /\ s2c \in [Conns -> Seq({"WELCOME", "TEXT", "PONG"})]

\* Each thread stays in its own code, with what it needs there.
ThreadsFit ==
  /\ pc["main"] \in HandshakeStages \cup MainStages
  /\ pc["receiver"] \in HandshakeStages \cup ReceiverStages
  /\ \A t \in Threads :
       /\ pc[t] \in {"waiting", "reading"} <=> reading[t] # None
       /\ pc[t] = "send" <=> out[t] # None /\ pc[t] # "getSocket"

\* TypeOK is these three.
LEMMA TypeParts ==
  /\ TypeOK <=> ClientTypes /\ ServerTypes /\ ThreadsFit
  /\ TypeOK' <=> ClientTypes' /\ ServerTypes' /\ ThreadsFit'
  BY DEF TypeOK, ClientTypes, ServerTypes, ThreadsFit, HandshakeStages, MainStages, ReceiverStages

\* What the client's invariant says is about the client's own variables.
LEMMA ServerStepKeeps ==
  ASSUME IInv, ServerTypes', UNCHANGED <<localVars, flagVars, table, made, typed>>
  PROVE  IInv'
<1>1. ClientTypes' /\ ThreadsFit'
  BY TypeParts DEF IInv, ClientTypes, ThreadsFit, localVars, flagVars
<1>2. Turns' /\ Sending' /\ Owned' /\ Follows'
  BY DEF IInv, Turns, Sending, Owned, Follows, Connecting, localVars, flagVars
<1> QED
  BY <1>1, <1>2, TypeParts DEF IInv

\* socket(): nothing is open, so the new socket is the only one.
LEMMA SocketStep ==
  ASSUME IInv, NEW t \in Threads, Socket(t)
  PROVE  IInv'
<1>1. PICK fd \in Fds :
        /\ table[fd] = None
        /\ sock' = [sock EXCEPT ![t] = fd]
        /\ table' = [table EXCEPT ![fd] = 0]
  BY DEF Socket
<1>2. /\ pc[t] = "socket" /\ pc' = [pc EXCEPT ![t] = "connect"]
      /\ UNCHANGED <<out, part, reading, flagVars, made, typed, serverVars>>
  BY DEF Socket, Goto
<1>3. ClientTypes /\ ServerTypes /\ ThreadsFit /\ Turns /\ Sending /\ Owned /\ Follows
  BY TypeParts DEF IInv
<1>4. ClientTypes' /\ ServerTypes'
  BY <1>1, <1>2, <1>3 DEF ClientTypes, ServerTypes, serverVars, flagVars, HandshakeStages
<1>5. ThreadsFit'
  BY <1>1, <1>2, <1>3 DEF ClientTypes, ThreadsFit, HandshakeStages, MainStages, ReceiverStages
<1>6. Turns' /\ Sending'
  BY <1>1, <1>2, <1>3 DEF ClientTypes, ThreadsFit, Turns, Sending, Connecting, flagVars
<1>7. Owned'
  BY <1>1, <1>2, <1>3 DEF ClientTypes, Turns, Owned, Connecting, flagVars
<1>8. Follows'
  BY <1>1, <1>2, <1>3 DEF ClientTypes, Owned, Follows, flagVars
<1> QED
  BY <1>4, <1>5, <1>6, <1>7, <1>8, TypeParts DEF IInv


\* connect(): the socket becomes a connection, or will be closed.
LEMMA ConnectStep ==
  ASSUME IInv, NEW t \in Threads, Connect(t)
  PROVE  IInv'
<1>1. ClientTypes /\ ServerTypes /\ ThreadsFit /\ Turns /\ Sending /\ Owned /\ Follows
  BY TypeParts DEF IInv
<1>2. pc[t] = "connect" /\ sock[t] \in Fds
      /\ UNCHANGED <<sock, reading, flagVars, typed, serverVars>>
  BY <1>1 DEF Connect, Owned, Connecting
<1>3. CASE /\ made < MaxConns /\ made' = made + 1
           /\ table' = [table EXCEPT ![sock[t]] = made']
           /\ out' = [out EXCEPT ![t] = "HELLO"]
           /\ part' = [part EXCEPT ![t] = 1]
           /\ pc' = [pc EXCEPT ![t] = "send"]
  <2>1. made' \in Conns /\ made' \in 0..MaxConns
    BY <1>1, <1>3 DEF ClientTypes, Conns
  <2> "HELLO" \in Kinds /\ 1 \in 1..Parts /\ "send" \in HandshakeStages
    BY DEF Kinds, Parts, HandshakeStages
  <2>2. ClientTypes' /\ ServerTypes'
    BY <1>1, <1>2, <1>3, <2>1 DEF ClientTypes, ServerTypes, serverVars, flagVars
  <2>3. ThreadsFit'
    BY <1>1, <1>2, <1>3 DEF ClientTypes, ThreadsFit, HandshakeStages, MainStages, ReceiverStages
  <2>4. Turns' /\ Sending'
    BY <1>1, <1>2, <1>3 DEF ClientTypes, ThreadsFit, Turns, Sending, Connecting, flagVars
  <2>5. Owned'
    BY <1>1, <1>2, <1>3, <2>1 DEF ClientTypes, Turns, Owned, Connecting, flagVars, Conns
  <2>6. Follows'
    BY <1>1, <1>2, <1>3 DEF ClientTypes, Owned, Follows, flagVars, Connecting
  <2> QED
    BY <2>2, <2>3, <2>4, <2>5, <2>6, TypeParts DEF IInv
<1>4. CASE pc' = [pc EXCEPT ![t] = "close"] /\ UNCHANGED <<made, table, out, part>>
  <2>2. ClientTypes' /\ ServerTypes'
    BY <1>1, <1>2, <1>4 DEF ClientTypes, ServerTypes, serverVars, flagVars, HandshakeStages
  <2>3. ThreadsFit'
    BY <1>1, <1>2, <1>4 DEF ClientTypes, ThreadsFit, HandshakeStages, MainStages, ReceiverStages
  <2>4. Turns' /\ Sending'
    BY <1>1, <1>2, <1>4 DEF ClientTypes, ThreadsFit, Turns, Sending, Connecting, flagVars
  <2>5. Owned'
    BY <1>1, <1>2, <1>4 DEF ClientTypes, Turns, Owned, Connecting, flagVars
  <2>6. Follows'
    BY <1>1, <1>2, <1>4 DEF ClientTypes, Follows, flagVars
  <2> QED
    BY <2>2, <2>3, <2>4, <2>5, <2>6, TypeParts DEF IInv
<1> QED
  BY <1>3, <1>4 DEF Connect, AfterConnect, Prepare, Goto

\* A failed handshake closes the thread's own socket, and no other is open.
LEMMA CloseNewStep ==
  ASSUME IInv, NEW t \in Threads, CloseNew(t)
  PROVE  IInv'
<1>1. ClientTypes /\ ServerTypes /\ ThreadsFit /\ Turns /\ Sending /\ Owned /\ Follows
  BY TypeParts DEF IInv
<1>2. /\ pc[t] = "close" /\ sock[t] \in Fds
      /\ table' = [table EXCEPT ![sock[t]] = None]
      /\ pc' = [pc EXCEPT ![t] = ReturnedFalse[t]]
      /\ UNCHANGED <<sock, out, part, reading, flagVars, made, typed, serverVars>>
  BY <1>1 DEF CloseNew, Goto, Owned, Connecting
<1>3. (t = "main" /\ ReturnedFalse[t] = "start") \/ (t = "receiver" /\ ReturnedFalse[t] = "retry")
  BY DEF ReturnedFalse
<1>4. ClientTypes' /\ ServerTypes'
  BY <1>1, <1>2, <1>3 DEF ClientTypes, ServerTypes, serverVars, flagVars, MainStages, ReceiverStages
<1>5. ThreadsFit'
  BY <1>1, <1>2, <1>3 DEF ClientTypes, ThreadsFit, HandshakeStages, MainStages, ReceiverStages
<1>6. Turns' /\ Sending'
  BY <1>1, <1>2, <1>3 DEF ClientTypes, ThreadsFit, Turns, Sending, Connecting, flagVars
<1>7. Owned'
  BY <1>1, <1>2, <1>3 DEF ClientTypes, Turns, Owned, Connecting, flagVars
<1>8. Follows'
  BY <1>1, <1>2, <1>3 DEF ClientTypes, Owned, Connecting, Follows, flagVars
<1> QED
  BY <1>4, <1>5, <1>6, <1>7, <1>8, TypeParts DEF IInv

\* A handshake that succeeded hands the thread's socket over to sockfd_.
LEMMA PublishStep ==
  ASSUME IInv, NEW t \in Threads, Publish(t)
  PROVE  IInv'
<1>1. ClientTypes /\ ServerTypes /\ ThreadsFit /\ Turns /\ Sending /\ Owned /\ Follows
  BY TypeParts DEF IInv
<1>2. /\ pc[t] = "publish" /\ sock[t] \in Fds /\ table[sock[t]] \in Conns
      /\ sockfd' = sock[t] /\ connected' = TRUE
      /\ pc' = [pc EXCEPT ![t] = Returned[t]]
      /\ UNCHANGED <<sock, out, part, reading, running, table, made, typed, serverVars>>
  BY <1>1 DEF Publish, Goto, Owned, Connecting
<1>3. (t = "main" /\ Returned[t] = "start") \/ (t = "receiver" /\ Returned[t] = "top")
  BY DEF Returned
<1>4. ClientTypes' /\ ServerTypes'
  BY <1>1, <1>2, <1>3 DEF ClientTypes, ServerTypes, serverVars, flagVars, MainStages, ReceiverStages
<1>5. ThreadsFit'
  BY <1>1, <1>2, <1>3 DEF ClientTypes, ThreadsFit, HandshakeStages, MainStages, ReceiverStages
<1>6. Turns' /\ Sending'
  BY <1>1, <1>2, <1>3 DEF ClientTypes, ThreadsFit, Turns, Sending, Connecting, flagVars
<1>7. Owned'
  BY <1>1, <1>2, <1>3 DEF ClientTypes, Turns, Owned, Connecting, flagVars
<1>8. Follows'
  BY <1>1, <1>2, <1>3 DEF ClientTypes, Turns, Owned, Connecting, Follows, flagVars
<1> QED
  BY <1>4, <1>5, <1>6, <1>7, <1>8, TypeParts DEF IInv

\* One third of a frame is sent, or sending fails: the thread stays, or goes on from it.
LEMMA SendPartCases ==
  ASSUME IInv, NEW t \in Threads, SendPart(t)
  PROVE  /\ pc[t] = "send" /\ out[t] \in Kinds
         /\ UNCHANGED <<sock, reading, flagVars, table, made, typed, srv, seen, s2c>>
         /\ c2s' \in [Conns -> Seq([kind : Kinds, part : 1..Parts])]
         /\ \/ part' \in [Threads -> 1..Parts] /\ UNCHANGED <<pc, out>>
            \/ /\ out' = [out EXCEPT ![t] = None] /\ part' = [part EXCEPT ![t] = 1]
               /\ \E stage \in IF out[t] = "HELLO" THEN {"welcome", "close"}
                               ELSE IF out[t] = "BYE" THEN {"quitStop"} ELSE {"line"} :
                    pc' = [pc EXCEPT ![t] = stage]
<1>1. ClientTypes /\ ServerTypes /\ ThreadsFit /\ Turns /\ Sending /\ Owned /\ Follows
  BY TypeParts DEF IInv
<1>2. pc[t] = "send" /\ out[t] \in Kinds
  BY <1>1 DEF ClientTypes, ThreadsFit, SendPart
<1>3. UNCHANGED <<sock, reading, flagVars, table, made, typed, srv, seen, s2c>>
  BY DEF SendPart
<1>4. c2s' \in [Conns -> Seq([kind : Kinds, part : 1..Parts])]
  <2>1. CASE UNCHANGED c2s
    BY <1>1, <2>1 DEF ServerTypes
  <2>2. ASSUME NEW c \in Conns,
               c2s' = [c2s EXCEPT ![c] = Append(@, [kind |-> out[t], part |-> part[t]])]
        PROVE  c2s' \in [Conns -> Seq([kind : Kinds, part : 1..Parts])]
    <3>1. /\ c2s[c] \in Seq([kind : Kinds, part : 1..Parts])
          /\ [kind |-> out[t], part |-> part[t]] \in [kind : Kinds, part : 1..Parts]
      BY <1>1, <1>2 DEF ServerTypes, ClientTypes
    <3>2. Append(c2s[c], [kind |-> out[t], part |-> part[t]]) \in
            Seq([kind : Kinds, part : 1..Parts])
      BY <3>1, AppendProperties
    <3> QED
      BY <1>1, <2>2, <3>2 DEF ServerTypes
  <2>3. Named(sock[t]) # None => Named(sock[t]) \in Conns
    BY DEF Named
  <2> QED
    BY <2>1, <2>2, <2>3 DEF SendPart
<1>5. \/ part' = [part EXCEPT ![t] = @ + 1] /\ part[t] < Parts /\ UNCHANGED <<pc, out>>
      \/ /\ Prepare(t, None)
         /\ \/ pc' = [pc EXCEPT ![t] = AfterSend[out[t]]]
            \/ pc' = [pc EXCEPT ![t] = AfterFailure[out[t]]]
  BY DEF SendPart, Goto
<1>6. CASE part' = [part EXCEPT ![t] = @ + 1] /\ part[t] < Parts /\ UNCHANGED <<pc, out>>
  <2>1. part[t] + 1 \in 1..Parts
    BY <1>1, <1>6 DEF ClientTypes, Parts
  <2>2. part' \in [Threads -> 1..Parts]
    BY <1>1, <1>6, <2>1 DEF ClientTypes
  <2> QED
    BY <1>2, <1>3, <1>4, <1>6, <2>2
<1>7. CASE /\ Prepare(t, None)
           /\ \/ pc' = [pc EXCEPT ![t] = AfterSend[out[t]]]
              \/ pc' = [pc EXCEPT ![t] = AfterFailure[out[t]]]
  <2>1. out[t] \in {"HELLO", "TEXT", "PING", "BYE"}
    BY <1>2 DEF Kinds
  <2>2. /\ AfterSend[out[t]] \in IF out[t] = "HELLO" THEN {"welcome", "close"}
                                 ELSE IF out[t] = "BYE" THEN {"quitStop"} ELSE {"line"}
        /\ AfterFailure[out[t]] \in IF out[t] = "HELLO" THEN {"welcome", "close"}
                                    ELSE IF out[t] = "BYE" THEN {"quitStop"} ELSE {"line"}
    BY <2>1 DEF AfterSend, AfterFailure
  <2> QED
    BY <1>2, <1>3, <1>4, <1>7, <2>2 DEF Prepare
<1> QED
  BY <1>5, <1>6, <1>7

\* What is sent goes wherever the descriptor points; who owns it stays.
LEMMA SendPartStep ==
  ASSUME IInv, NEW t \in Threads, SendPart(t)
  PROVE  IInv'
<1>1. ClientTypes /\ ServerTypes /\ ThreadsFit /\ Turns /\ Sending /\ Owned /\ Follows
  BY TypeParts DEF IInv
<1>2. /\ pc[t] = "send" /\ out[t] \in Kinds
      /\ UNCHANGED <<sock, reading, flagVars, table, made, typed, srv, seen, s2c>>
      /\ c2s' \in [Conns -> Seq([kind : Kinds, part : 1..Parts])]
  BY SendPartCases
<1>3. ServerTypes'
  BY <1>1, <1>2 DEF ServerTypes
<1>4. CASE part' \in [Threads -> 1..Parts] /\ UNCHANGED <<pc, out>>
  <2>1. ClientTypes' /\ ThreadsFit'
    BY <1>1, <1>2, <1>4 DEF ClientTypes, ThreadsFit, flagVars
  <2>2. Turns' /\ Sending' /\ Owned' /\ Follows'
    BY <1>1, <1>2, <1>4 DEF Turns, Sending, Owned, Follows, Connecting, flagVars
  <2> QED
    BY <1>3, <2>1, <2>2, TypeParts DEF IInv
<1>5. CASE /\ out' = [out EXCEPT ![t] = None] /\ part' = [part EXCEPT ![t] = 1]
           /\ \E stage \in IF out[t] = "HELLO" THEN {"welcome", "close"}
                           ELSE IF out[t] = "BYE" THEN {"quitStop"} ELSE {"line"} :
                pc' = [pc EXCEPT ![t] = stage]
  <2>1. PICK stage \in {"welcome", "close", "quitStop", "line"} :
          /\ pc' = [pc EXCEPT ![t] = stage]
          /\ out[t] = "HELLO" <=> stage \in {"welcome", "close"}
    BY <1>5
  <2>2. t = "receiver" => out[t] = "HELLO"
    BY <1>1, <1>2 DEF Sending
  <2> "welcome" \in HandshakeStages /\ "close" \in HandshakeStages
      /\ "quitStop" \in MainStages /\ "line" \in MainStages /\ 1 \in 1..Parts
    BY DEF HandshakeStages, MainStages, Parts
  <2>3. ClientTypes'
    BY <1>1, <1>2, <1>5, <2>1 DEF ClientTypes, flagVars
  <2>4. ThreadsFit'
    BY <1>1, <1>2, <1>5, <2>1, <2>2 DEF ClientTypes, ThreadsFit
  <2>5. Turns' /\ Sending'
    BY <1>1, <1>2, <1>5, <2>1, <2>2 DEF ClientTypes, ThreadsFit, Turns, Sending, Connecting, flagVars
  <2>6. Owned'
    BY <1>1, <1>2, <1>5, <2>1, <2>2 DEF ClientTypes, Owned, Connecting, flagVars
  <2>7. Follows'
    BY <1>1, <1>2, <1>5, <2>1, <2>2 DEF ClientTypes, Follows, flagVars
  <2> QED
    BY <1>3, <2>3, <2>4, <2>5, <2>6, <2>7, TypeParts DEF IInv
<1> QED
  BY <1>4, <1>5, SendPartCases

\* recv() waits on what the descriptor names when it is called.
LEMMA EnterRecvStep ==
  ASSUME IInv, NEW t \in Threads, EnterRecv(t)
  PROVE  IInv'
<1>1. ClientTypes /\ ServerTypes /\ ThreadsFit /\ Turns /\ Sending /\ Owned /\ Follows
  BY TypeParts DEF IInv
<1>2. /\ pc[t] \in {"welcome", "recv"}
      /\ reading' = [reading EXCEPT ![t] = Named(sock[t])]
      /\ UNCHANGED <<sock, out, part, flagVars, table, made, typed, serverVars>>
  BY DEF EnterRecv
<1>3. \E stage \in {"waiting", "reading", "close", "lost"} :
        /\ pc' = [pc EXCEPT ![t] = stage]
        /\ pc[t] = "welcome" <=> stage \in {"waiting", "close"}
        /\ Named(sock[t]) # None <=> stage \in {"waiting", "reading"}
  <2>1. CASE pc[t] = "welcome"
    <3>1. pc' = [pc EXCEPT ![t] = IF Named(sock[t]) # None THEN "waiting" ELSE "close"]
      BY <2>1 DEF EnterRecv, Goto
    <3>2. CASE Named(sock[t]) # None
      BY <2>1, <3>1, <3>2
    <3>3. CASE Named(sock[t]) = None
      BY <2>1, <3>1, <3>3
    <3> QED
      BY <3>2, <3>3
  <2>2. CASE pc[t] = "recv"
    <3>1. pc' = [pc EXCEPT ![t] = IF Named(sock[t]) # None THEN "reading" ELSE "lost"]
      BY <2>2 DEF EnterRecv, Goto
    <3>2. CASE Named(sock[t]) # None
      BY <2>2, <3>1, <3>2
    <3>3. CASE Named(sock[t]) = None
      BY <2>2, <3>1, <3>3
    <3> QED
      BY <3>2, <3>3
  <2> QED
    BY <1>2, <2>1, <2>2
<1>4. PICK stage \in {"waiting", "reading", "close", "lost"} :
        /\ pc' = [pc EXCEPT ![t] = stage]
        /\ pc[t] = "welcome" <=> stage \in {"waiting", "close"}
        /\ Named(sock[t]) # None <=> stage \in {"waiting", "reading"}
  BY <1>3
<1>5. pc[t] = "recv" => t = "receiver"
  BY <1>1 DEF ThreadsFit, HandshakeStages, MainStages
<1>6. Named(sock[t]) \in Conns \cup {None}
  BY DEF Named
<1> "waiting" \in HandshakeStages /\ "close" \in HandshakeStages
    /\ "reading" \in ReceiverStages /\ "lost" \in ReceiverStages
  BY DEF HandshakeStages, ReceiverStages
<1>7. ClientTypes' /\ ServerTypes'
  BY <1>1, <1>2, <1>4, <1>6 DEF ClientTypes, ServerTypes, serverVars, flagVars
<1>8. ThreadsFit'
  BY <1>1, <1>2, <1>4, <1>5 DEF ClientTypes, ThreadsFit
<1>9. Turns' /\ Sending'
  BY <1>1, <1>2, <1>4, <1>5 DEF ClientTypes, Turns, Sending, Connecting, flagVars
<1>10. Owned'
  BY <1>1, <1>2, <1>4, <1>5 DEF ClientTypes, Owned, Connecting, flagVars
<1>11. Follows'
  <2>1. pc[t] = "recv" /\ running => sock[t] = sockfd /\ Named(sock[t]) = table[sockfd]
    BY <1>1, <1>5 DEF Follows, Owned, Named, ClientTypes
  <2> QED
    BY <1>1, <1>2, <1>4, <1>5, <2>1 DEF ClientTypes, Follows, flagVars
<1> QED
  BY <1>7, <1>8, <1>9, <1>10, <1>11, TypeParts DEF IInv

\* The end of a recv(), with a message or without.
LEMMA RecvStep ==
  ASSUME IInv, NEW t \in Threads, RecvMessage(t) \/ RecvFailed(t)
  PROVE  IInv'
<1>1. ClientTypes /\ ServerTypes /\ ThreadsFit /\ Turns /\ Sending /\ Owned /\ Follows
  BY TypeParts DEF IInv
<1>2. /\ pc[t] \in {"waiting", "reading"}
      /\ reading' = [reading EXCEPT ![t] = None]
      /\ UNCHANGED <<sock, out, part, flagVars, table, made, typed, srv, c2s, seen>>
  BY DEF RecvMessage, RecvFailed, serverVars
<1>3. \E stage \in {"top", "lost", "publish", "close"} :
        /\ pc' = [pc EXCEPT ![t] = stage]
        /\ pc[t] = "reading" <=> stage \in {"top", "lost"}
  BY <1>2 DEF RecvMessage, RecvFailed, Goto, AfterEnd
<1>4. PICK stage \in {"top", "lost", "publish", "close"} :
        /\ pc' = [pc EXCEPT ![t] = stage]
        /\ pc[t] = "reading" <=> stage \in {"top", "lost"}
  BY <1>3
<1>5. pc[t] = "reading" => t = "receiver"
  BY <1>1 DEF ThreadsFit, HandshakeStages, MainStages
<1> "publish" \in HandshakeStages /\ "close" \in HandshakeStages
    /\ "top" \in ReceiverStages /\ "lost" \in ReceiverStages
  BY DEF HandshakeStages, ReceiverStages
<1>6. ServerTypes'
  <2>1. CASE UNCHANGED s2c
    BY <1>1, <1>2, <2>1 DEF ServerTypes
  <2>2. CASE s2c[reading[t]] # <<>> /\ s2c' = [s2c EXCEPT ![reading[t]] = Tail(@)]
    <3>1. reading[t] \in Conns
      BY <1>1, <1>2 DEF ClientTypes, ThreadsFit
    <3>2. Tail(s2c[reading[t]]) \in Seq({"WELCOME", "TEXT", "PONG"})
      BY <1>1, <2>2, <3>1, HeadTailProperties DEF ServerTypes
    <3> QED
      BY <1>1, <1>2, <2>2, <3>2 DEF ServerTypes
  <2> QED
    BY <2>1, <2>2 DEF RecvMessage, RecvFailed, serverVars
<1>7. ClientTypes'
  BY <1>1, <1>2, <1>4 DEF ClientTypes, flagVars
<1>8. ThreadsFit'
  BY <1>1, <1>2, <1>4, <1>5 DEF ClientTypes, ThreadsFit
<1>9. Turns' /\ Sending'
  BY <1>1, <1>2, <1>4, <1>5 DEF ClientTypes, Turns, Sending, Connecting, flagVars
<1>10. Owned'
  BY <1>1, <1>2, <1>4, <1>5 DEF ClientTypes, Owned, Connecting, flagVars
<1>11. Follows'
  BY <1>1, <1>2, <1>4, <1>5 DEF ClientTypes, Follows, flagVars
<1> QED
  BY <1>6, <1>7, <1>8, <1>9, <1>10, <1>11, TypeParts DEF IInv

\* The receive thread gives up a lost connection, the main thread every one at the end.
LEMMA CloseConnectionStep ==
  ASSUME IInv, NEW t \in Threads, CloseConnection(t)
  PROVE  IInv'
<1>1. ClientTypes /\ ServerTypes /\ ThreadsFit /\ Turns /\ Sending /\ Owned /\ Follows
  BY TypeParts DEF IInv
<1>2. /\ pc[t] \in {"lost", "quitClose", "shut"}
      /\ table' = Closed(sockfd)
      /\ sockfd' = None /\ connected' = FALSE
      /\ UNCHANGED <<sock, out, part, reading, running, made, typed, serverVars>>
  BY DEF CloseConnection
<1>3. PICK stage \in {"top", "stop", "join"} :
        pc' = [pc EXCEPT ![t] = stage] /\ (pc[t] = "lost" <=> stage = "top")
  <2>1. CASE pc[t] = "lost"
    BY <2>1 DEF CloseConnection, Goto
  <2>2. CASE pc[t] = "quitClose"
    BY <2>2 DEF CloseConnection, Goto
  <2>3. CASE pc[t] = "shut"
    BY <2>3 DEF CloseConnection, Goto
  <2> QED
    BY <1>2, <2>1, <2>2, <2>3
<1>4. pc[t] = "lost" <=> t = "receiver"
  BY <1>1, <1>2 DEF ThreadsFit, HandshakeStages, MainStages, ReceiverStages
<1> "top" \in ReceiverStages /\ "stop" \in MainStages /\ "join" \in MainStages
  BY DEF MainStages, ReceiverStages
<1>5. /\ table' \in [Fds -> Conns \cup {0, None}]
      /\ \A fd \in Fds : table'[fd] = IF fd = sockfd THEN None ELSE table[fd]
  <2>1. table \in [Fds -> Conns \cup {0, None}] /\ table' = Closed(sockfd)
    BY <1>1, <1>2 DEF ClientTypes
  <2>2. None \notin Fds
    OBVIOUS
  <2>3. CASE sockfd = None
    <3>1. table' = table
      BY <2>1, <2>3 DEF Closed
    <3> QED
      BY <2>1, <2>2, <2>3, <3>1
  <2>4. CASE sockfd # None
    <3>1. table' = [table EXCEPT ![sockfd] = None]
      BY <2>1, <2>4 DEF Closed
    <3> QED
      BY <2>1, <3>1
  <2> QED
    BY <2>3, <2>4
<1>6. ClientTypes' /\ ServerTypes'
  BY <1>1, <1>2, <1>3, <1>5 DEF ClientTypes, ServerTypes, serverVars
<1>7. ThreadsFit'
  BY <1>1, <1>2, <1>3, <1>4 DEF ClientTypes, ThreadsFit
<1>8. Turns' /\ Sending'
  BY <1>1, <1>2, <1>3, <1>4 DEF ClientTypes, Turns, Sending, Connecting
<1>9. \A u \in Threads : /\ Connecting(u)' <=> Connecting(u)
                         /\ pc'[u] # pc[u] => ~Connecting(u)
  BY <1>1, <1>2, <1>3, <1>4 DEF ClientTypes, Connecting
<1>10. \A u \in Threads : Connecting(u) => sock[u] # sockfd
  BY <1>1 DEF Owned
<1>11. Owned'
  <2>1. \A fd \in Fds : table'[fd] # None => \E u \in Threads : Connecting(u)' /\ sock'[u] = fd
    BY <1>1, <1>2, <1>5, <1>9 DEF Owned
  <2>2. \A u \in Threads : Connecting(u)' => sock'[u] \in Fds
    BY <1>1, <1>2, <1>9 DEF Owned
  <2>3. \A u \in Threads : Connecting(u)' /\ pc'[u] \notin {"connect", "close"} =>
          table'[sock'[u]] \in Conns
    <3>1. ASSUME NEW u \in Threads, Connecting(u)', pc'[u] \notin {"connect", "close"}
          PROVE  table'[sock'[u]] \in Conns
      <4>1. Connecting(u) /\ pc'[u] = pc[u] /\ sock'[u] = sock[u]
        BY <1>2, <1>9, <3>1
      <4>2. sock[u] \in Fds /\ sock[u] # sockfd /\ table[sock[u]] \in Conns
        BY <1>1, <1>10, <3>1, <4>1 DEF Owned
      <4> QED
        BY <1>5, <4>1, <4>2
    <3> QED
      BY <3>1
  <2> QED
    BY <1>2, <2>1, <2>2, <2>3 DEF Owned
<1>12. Follows'
  <2>1. t = "main" => ~running
    BY <1>1, <1>2, <1>4 DEF Turns
  <2> QED
    BY <1>1, <1>2, <1>3, <1>4, <2>1 DEF ClientTypes, Follows
<1> QED
  BY <1>6, <1>7, <1>8, <1>11, <1>12, TypeParts DEF IInv

\* get_socket() copies the number that is published.
LEMMA GetSocketStep ==
  ASSUME IInv, NEW t \in Threads, GetSocket(t)
  PROVE  IInv'
<1>1. ClientTypes /\ ServerTypes /\ ThreadsFit /\ Turns /\ Sending /\ Owned /\ Follows
  BY TypeParts DEF IInv
<1>2. /\ pc[t] = "getSocket"
      /\ sock' = [sock EXCEPT ![t] = sockfd]
      /\ pc' = [pc EXCEPT ![t] = IF t = "receiver" THEN "recv" ELSE "send"]
      /\ UNCHANGED <<out, part, reading, flagVars, table, made, typed, serverVars>>
  BY DEF GetSocket, Goto
<1>3. t = "main" => out[t] \in {"TEXT", "PING"} /\ out[t] # None /\ out[t] # "HELLO"
  BY <1>1, <1>2 DEF Sending
<1> "send" \in HandshakeStages /\ "recv" \in ReceiverStages
  BY DEF HandshakeStages, ReceiverStages
<1>4. ClientTypes' /\ ServerTypes'
  BY <1>1, <1>2 DEF ClientTypes, ServerTypes, serverVars, flagVars
<1>5. ThreadsFit'
  BY <1>1, <1>2, <1>3 DEF ClientTypes, ThreadsFit, Sending
<1>6. Turns' /\ Sending'
  BY <1>1, <1>2, <1>3 DEF ClientTypes, ThreadsFit, Turns, Sending, Connecting, flagVars
<1>7. Owned'
  BY <1>1, <1>2, <1>3 DEF ClientTypes, Owned, Connecting, flagVars
<1>8. Follows'
  BY <1>1, <1>2 DEF ClientTypes, Follows, flagVars
<1> QED
  BY <1>4, <1>5, <1>6, <1>7, <1>8, TypeParts DEF IInv

\* What the receive thread decides by itself.
LEMMA ReceiverMoves ==
  ASSUME IInv, ReceiverTop \/ ReceiverCheck \/ Retry \/ WakeUp
  PROVE  IInv'
<1>1. ClientTypes /\ ServerTypes /\ ThreadsFit /\ Turns /\ Sending /\ Owned /\ Follows
  BY TypeParts DEF IInv
<1>2. /\ pc["receiver"] \in {"top", "check", "retry", "sleep"}
      /\ UNCHANGED <<sock, out, part, reading, flagVars, table, made, typed, serverVars>>
  BY DEF ReceiverTop, ReceiverCheck, Retry, WakeUp, Move
<1>3. \E stage \in {"top", "check", "getSocket", "retry", "sleep", "socket", "done"} :
        /\ pc' = [pc EXCEPT !["receiver"] = stage]
        /\ stage = "getSocket" => connected
        /\ stage \in {"sleep", "socket"} => ~connected
  <2>1. CASE ReceiverTop
    BY <2>1 DEF ReceiverTop, Move, Goto
  <2>2. CASE ReceiverCheck
    <3>1. pc' = [pc EXCEPT !["receiver"] = IF connected THEN "getSocket" ELSE "retry"]
      BY <2>2 DEF ReceiverCheck, Move, Goto
    <3>2. CASE connected
      BY <3>1, <3>2
    <3>3. CASE ~connected
      BY <3>1, <3>3
    <3> QED
      BY <3>2, <3>3
  <2>3. CASE Retry
    <3>1. pc' = [pc EXCEPT !["receiver"] = IF running /\ ~connected THEN "sleep" ELSE "top"]
      BY <2>3 DEF Retry, Move, Goto
    <3>2. CASE running /\ ~connected
      BY <3>1, <3>2
    <3>3. CASE ~(running /\ ~connected)
      BY <3>1, <3>3
    <3> QED
      BY <3>2, <3>3
  <2>4. CASE WakeUp
    <3>1. pc["receiver"] = "sleep" /\ ~connected
      BY <1>1, <2>4 DEF WakeUp, Move, Owned
    <3>2. pc' = [pc EXCEPT !["receiver"] = IF running THEN "socket" ELSE "top"]
      BY <2>4 DEF WakeUp, Move, Goto
    <3>3. CASE running
      BY <3>1, <3>2, <3>3
    <3>4. CASE ~running
      BY <3>2, <3>4
    <3> QED
      BY <3>3, <3>4
  <2> QED
    BY <2>1, <2>2, <2>3, <2>4
<1>4. PICK stage \in {"top", "check", "getSocket", "retry", "sleep", "socket", "done"} :
        /\ pc' = [pc EXCEPT !["receiver"] = stage]
        /\ stage = "getSocket" => connected
        /\ stage \in {"sleep", "socket"} => ~connected
  BY <1>3
<1>5. stage \in HandshakeStages \cup ReceiverStages
  BY DEF HandshakeStages, ReceiverStages
<1>6. ClientTypes' /\ ServerTypes'
  BY <1>1, <1>2, <1>4, <1>5 DEF ClientTypes, ServerTypes, serverVars, flagVars
<1>7. ThreadsFit'
  BY <1>1, <1>2, <1>4, <1>5 DEF ClientTypes, ThreadsFit
<1>8. Turns' /\ Sending'
  BY <1>1, <1>2, <1>4 DEF ClientTypes, ThreadsFit, Turns, Sending, Connecting, flagVars
<1>9. Owned'
  BY <1>1, <1>2, <1>4 DEF ClientTypes, Owned, Connecting, flagVars
<1>10. Follows'
  BY <1>1, <1>2, <1>4 DEF ClientTypes, Follows, flagVars
<1> QED
  BY <1>6, <1>7, <1>8, <1>9, <1>10, TypeParts DEF IInv

\* What the main thread decides by itself, and what the user asks of it.
LEMMA MainMoves ==
  ASSUME IInv, Start \/ SayBye \/ Stop \/ Join \/ UserStep
  PROVE  IInv'
<1>1. ClientTypes /\ ServerTypes /\ ThreadsFit /\ Turns /\ Sending /\ Owned /\ Follows
  BY TypeParts DEF IInv
<1> "send" \in HandshakeStages /\ "top" \in ReceiverStages
    /\ \A stage \in {"line", "getSocket", "quit", "quitStop", "quitClose", "stop", "shut",
                      "join", "done"} : stage \in MainStages
  BY DEF HandshakeStages, MainStages, ReceiverStages
<1>2. CASE Start
  <2>1. /\ pc["main"] = "start" /\ pc' = [main |-> "line", receiver |-> "top"]
        /\ UNCHANGED <<sock, out, part, reading, flagVars, table, made, typed, serverVars>>
    BY <1>2 DEF Start
  <2>2. pc["receiver"] = "idle"
    BY <1>1, <2>1 DEF Turns
  <2>3. ClientTypes' /\ ServerTypes'
    <3>1. pc' \in [Threads -> HandshakeStages \cup MainStages \cup ReceiverStages]
      BY <2>1
    <3> QED
      BY <1>1, <2>1, <3>1 DEF ClientTypes, ServerTypes, serverVars, flagVars
  <2>4. ThreadsFit'
    BY <1>1, <2>1, <2>2 DEF ThreadsFit
  <2>5. Turns' /\ Sending' /\ Owned' /\ Follows'
    BY <1>1, <2>1, <2>2 DEF Turns, Sending, Owned, Follows, Connecting, flagVars
  <2> QED
    BY <2>3, <2>4, <2>5, TypeParts DEF IInv
<1>3. CASE \/ \E kind \in Lines : ReadLine(kind)
           \/ SayBye
  <2>1. /\ pc["main"] \in {"line", "quit"}
        /\ UNCHANGED <<sock, reading, flagVars, table, made, serverVars>>
        /\ typed' \in 0..MaxLines
    <3>1. typed \in 0..MaxLines
      BY <1>1 DEF ClientTypes
    <3> QED
      BY <1>3, <3>1 DEF ReadLine, SayBye
  <2>2. \/ UNCHANGED <<pc, out, part>>
        \/ pc' = [pc EXCEPT !["main"] = "quitStop"] /\ UNCHANGED <<out, part>>
        \/ \E kind \in Lines :
             /\ pc' = [pc EXCEPT !["main"] = "getSocket"]
             /\ out' = [out EXCEPT !["main"] = kind] /\ part' = [part EXCEPT !["main"] = 1]
        \/ /\ pc' = [pc EXCEPT !["main"] = "send"]
           /\ out' = [out EXCEPT !["main"] = "BYE"] /\ part' = [part EXCEPT !["main"] = 1]
    BY <1>3 DEF ReadLine, SayBye, Prepare, Goto
  <2>3. ClientTypes' /\ ServerTypes'
    <3>1. /\ pc' \in [Threads -> HandshakeStages \cup MainStages \cup ReceiverStages]
          /\ out' \in [Threads -> Kinds \cup {None}]
      BY <1>1, <2>2 DEF ClientTypes, Kinds
    <3>2. part' \in [Threads -> 1..Parts]
      BY <1>1, <2>2 DEF ClientTypes, Parts
    <3> QED
      BY <1>1, <2>1, <3>1, <3>2 DEF ClientTypes, ServerTypes, serverVars, flagVars
  <2>4. ThreadsFit'
    BY <1>1, <2>1, <2>2 DEF ClientTypes, ThreadsFit
  <2>5. Turns' /\ Sending'
    BY <1>1, <2>1, <2>2 DEF ClientTypes, ThreadsFit, Turns, Sending, Connecting, flagVars
  <2>6. Owned' /\ Follows'
    BY <1>1, <2>1, <2>2 DEF ClientTypes, Owned, Follows, Connecting, flagVars
  <2> QED
    BY <2>3, <2>4, <2>5, <2>6, TypeParts DEF IInv
<1>4. CASE ReadQuit \/ ReadEof \/ Join
  <2>1. PICK stage \in {"quit", "stop", "done"} : pc' = [pc EXCEPT !["main"] = stage]
    BY <1>4 DEF ReadQuit, ReadEof, Join, Move, Goto
  <2>2. /\ pc["main"] \in {"line", "join"}
        /\ UNCHANGED <<out, part, reading, flagVars, table, made, typed, serverVars>>
        /\ sock' = sock \/ sock' = [sock EXCEPT !["main"] = sockfd]
    BY <1>4 DEF ReadQuit, ReadEof, Join, Move
  <2>3. ClientTypes' /\ ServerTypes'
    <3>1. pc' \in [Threads -> HandshakeStages \cup MainStages \cup ReceiverStages]
      BY <1>1, <2>1 DEF ClientTypes
    <3>2. sock' \in [Threads -> Fds \cup {None}]
      BY <1>1, <2>2 DEF ClientTypes, flagVars
    <3> QED
      BY <1>1, <2>2, <3>1, <3>2 DEF ClientTypes, ServerTypes, serverVars, flagVars
  <2>4. ThreadsFit'
    BY <1>1, <2>1, <2>2 DEF ClientTypes, ThreadsFit
  <2>5. Turns' /\ Sending'
    BY <1>1, <2>1, <2>2 DEF ClientTypes, ThreadsFit, Turns, Sending, Connecting, flagVars
  <2>6. Owned' /\ Follows'
    BY <1>1, <2>1, <2>2 DEF ClientTypes, Owned, Follows, Connecting, flagVars
  <2> QED
    BY <2>3, <2>4, <2>5, <2>6, TypeParts DEF IInv
<1>5. CASE Stop
  <2>1. /\ pc["main"] \in {"quitStop", "stop"} /\ running' = FALSE
        /\ UNCHANGED <<sock, out, part, reading, sockfd, connected, table, made, typed, serverVars>>
    BY <1>5 DEF Stop
  <2>2. PICK stage \in {"quitClose", "shut"} : pc' = [pc EXCEPT !["main"] = stage]
    <3>1. CASE pc["main"] = "quitStop"
      BY <1>5, <3>1 DEF Stop, Goto
    <3>2. CASE pc["main"] = "stop"
      BY <1>5, <3>2 DEF Stop, Goto
    <3> QED
      BY <2>1, <3>1, <3>2
  <2>3. ClientTypes' /\ ServerTypes'
    BY <1>1, <2>1, <2>2 DEF ClientTypes, ServerTypes, serverVars
  <2>4. ThreadsFit'
    BY <1>1, <2>1, <2>2 DEF ClientTypes, ThreadsFit
  <2>5. Turns' /\ Sending'
    BY <1>1, <2>1, <2>2 DEF ClientTypes, ThreadsFit, Turns, Sending, Connecting
  <2>6. Owned' /\ Follows'
    BY <1>1, <2>1, <2>2 DEF ClientTypes, Owned, Follows, Connecting
  <2> QED
    BY <2>3, <2>4, <2>5, <2>6, TypeParts DEF IInv
<1> QED
  BY <1>2, <1>3, <1>4, <1>5 DEF UserStep

-----------------------------------------------------------------------------
(* The server, and the theorems. *)

\* The server leaves the client's variables alone, and its own have their types.
LEMMA ServerStepTypes ==
  ASSUME IInv, NEW c \in Conns, ServerStep(c)
  PROVE  ServerTypes' /\ UNCHANGED <<localVars, flagVars, table, made, typed>>
<1>1. ServerTypes
  BY TypeParts DEF IInv
<1>2. UNCHANGED <<localVars, flagVars, table, made, typed, c2s>>
  BY DEF ServerStep, ServerRead, ServerMisread, ServerSay, ServerHeld, ServerClose
<1>3. srv' \in [Conns -> {"hello", "chat", "held", "lost", "closed"}] /\ seen' \in [Conns -> Nat]
  <2>1. /\ \/ srv' = srv
           \/ \E state \in {"chat", "held", "lost", "closed"} : srv' = [srv EXCEPT ![c] = state]
        /\ seen' = seen \/ seen' = [seen EXCEPT ![c] = @ + Parts]
    <3>1. CASE ServerRead(c)
      <4>1. PICK kind \in Kinds :
              srv' = [srv EXCEPT ![c] =
                IF kind = "BYE" \/ (srv[c] = "hello" /\ kind # "HELLO") THEN "closed" ELSE "chat"]
        BY <3>1 DEF ServerRead
      <4>2. seen' = [seen EXCEPT ![c] = @ + Parts]
        BY <3>1 DEF ServerRead
      <4> QED
        BY <4>1, <4>2
    <3> QED
      BY <3>1 DEF ServerStep, ServerMisread, ServerSay, ServerHeld, ServerClose
  <2>2. seen[c] + Parts \in Nat
    BY <1>1 DEF ServerTypes, Parts
  <2> QED
    BY <1>1, <2>1, <2>2 DEF ServerTypes
<1>4. s2c' \in [Conns -> Seq({"WELCOME", "TEXT", "PONG"})]
  <2>1. ASSUME NEW type \in {"WELCOME", "TEXT", "PONG"}
        PROVE  Answer(c, type) \in [Conns -> Seq({"WELCOME", "TEXT", "PONG"})]
    <3>1. Append(s2c[c], type) \in Seq({"WELCOME", "TEXT", "PONG"})
      BY <1>1, AppendProperties DEF ServerTypes
    <3> QED
      BY <1>1, <3>1 DEF ServerTypes, Answer
  <2>2. \/ s2c' = s2c
        \/ \E type \in {"WELCOME", "TEXT", "PONG"} : s2c' = Answer(c, type)
    BY DEF ServerStep, ServerRead, ServerMisread, ServerSay, ServerHeld, ServerClose
  <2> QED
    BY <1>1, <2>1, <2>2 DEF ServerTypes
<1> QED
  BY <1>1, <1>2, <1>3, <1>4 DEF ServerTypes

\* Every step, of a thread, of the user and of the server, preserves the invariant.
LEMMA StepIInv ==
  ASSUME IInv, [Next]_vars
  PROVE  IInv'
<1>1. ASSUME NEW t \in Threads, CommonStep(t)
      PROVE  IInv'
  BY <1>1, SocketStep, ConnectStep, CloseNewStep, PublishStep, SendPartStep, EnterRecvStep,
     RecvStep, CloseConnectionStep, GetSocketStep DEF CommonStep
<1>2. CASE ReceiverStep
  BY <1>1, <1>2, ReceiverMoves DEF ReceiverStep
<1>3. CASE MainStep \/ UserStep
  BY <1>1, <1>3, MainMoves DEF MainStep
<1>4. CASE \E c \in Conns : ServerStep(c)
  BY <1>4, ServerStepTypes, ServerStepKeeps
<1>5. CASE UNCHANGED vars
  <2>1. /\ UNCHANGED <<localVars, flagVars, table, made, typed>>
        /\ UNCHANGED <<srv, c2s, seen, s2c>>
    BY <1>5 DEF vars, serverVars
  <2>2. ServerTypes'
    BY <2>1, TypeParts DEF IInv, ServerTypes
  <2> QED
    BY <2>1, <2>2, ServerStepKeeps
<1> QED
  BY <1>2, <1>3, <1>4, <1>5 DEF Next

\* The invariant holds when the client starts.
LEMMA InitIInv == Init => IInv
<1> SUFFICES ASSUME Init PROVE IInv
  OBVIOUS
<1>1. ClientTypes
  <2>1. pc \in [Threads -> HandshakeStages \cup MainStages \cup ReceiverStages]
    BY DEF Init, HandshakeStages, ReceiverStages
  <2>2. part \in [Threads -> 1..Parts]
    BY DEF Init, Parts
  <2>3. /\ sock \in [Threads -> Fds \cup {None}] /\ out \in [Threads -> Kinds \cup {None}]
        /\ reading \in [Threads -> Conns \cup {None}]
        /\ table \in [Fds -> Conns \cup {0, None}]
    BY DEF Init
  <2>4. sockfd \in Fds \cup {None} /\ connected \in BOOLEAN /\ running \in BOOLEAN
    BY DEF Init
  <2>5. made \in 0..MaxConns /\ typed \in 0..MaxLines
    BY DEF Init
  <2> QED
    BY <2>1, <2>2, <2>3, <2>4, <2>5 DEF ClientTypes
<1>2. ServerTypes
  BY DEF Init, ServerTypes
<1>3. ThreadsFit
  BY DEF Init, ThreadsFit, HandshakeStages, ReceiverStages
<1>4. Turns /\ Sending /\ Owned /\ Follows
  BY DEF Init, Turns, Sending, Owned, Follows, Connecting
<1> QED
  BY <1>1, <1>2, <1>3, <1>4, TypeParts DEF IInv

\* The numbers the threads copied are accounted for in every reachable state.
THEOREM Invariance == Spec => []IInv
<1>1. Init => IInv
  BY InitIInv
<1>2. IInv /\ [Next]_vars => IInv'
  BY StepIInv
<1> QED
  BY <1>1, <1>2, PTL DEF Spec

\* Every variable has its type; a thread that waits in recv() waits on a connection.
THEOREM TypeCorrect == Spec => []TypeOK
<1>1. IInv => TypeOK
  BY DEF IInv
<1> QED
  BY <1>1, Invariance, PTL

\* Two sockets that are open are one.
LEMMA OneOpen == IInv => SocketOwned
<1> SUFFICES ASSUME IInv PROVE SocketOwned
  OBVIOUS
<1>1. TypeOK /\ Turns /\ Owned /\ Follows
  BY DEF IInv
<1>2. ~ (Connecting("main") /\ Connecting("receiver"))
  BY <1>1 DEF Turns, Connecting
<1>3. ASSUME NEW a \in Fds, NEW b \in Fds, table[a] # None, table[b] # None
      PROVE  a = b
  BY <1>1, <1>2, <1>3 DEF Owned
<1>4. connected => Named(sockfd) = table[sockfd] /\ Named(sockfd) # None
  BY <1>1 DEF Owned, Named, Conns, TypeOK
<1> QED
  BY <1>1, <1>3, <1>4 DEF SocketOwned, Owned, Follows

\* One socket is open at most: the published one, or that of the thread that connects. So
\* close_connection() never leaves one behind, is_connected_ is true of sockfd_, and the
\* receive thread reads the connection the main thread writes to while the client runs.
THEOREM OneSocket == Spec => []SocketOwned
BY OneOpen, Invariance, PTL

-----------------------------------------------------------------------------
(* A message that goes astray.  The main thread writes a message on a number it copied when *)
(* the message began; which connection that is may change under way.                        *)

\* The client can still write to this connection, and the server still takes it.
Alive(c) == (\E fd \in Fds : table[fd] = c) /\ srv[c] # "closed"

\* The main thread is sending a message to this connection.
TalksTo(c) == pc["main"] = "send" /\ out["main"] # "HELLO" /\ Named(sock["main"]) = c

\* It is about to say good-bye to this connection.
Leaves(c) == pc["main"] = "quit" /\ Named(sock["main"]) = c

\* The whole HELLO was sent.
HelloSent(c) == \E h \in DOMAIN c2s[c] : c2s[c][h] = [kind |-> "HELLO", part |-> Parts]

\* No more HELLO is to come.
Ready(c) == srv[c] = "closed" \/ HelloSent(c)

\* The last third that is not of a HELLO.
Latest(c, k) == k \in Others(c) /\ \A j \in Others(c) : j <= k

\* Connections that were not made are not there.
Unmade == \A c \in Conns : c > made => c2s[c] = <<>> /\ \A fd \in Fds : table[fd] # c

\* A connection is waited on and published after its HELLO, unless it was closed by then. A
\* message begins with its first third.
Introduced ==
  /\ \A c \in Conns : connected /\ table[sockfd] = c => Ready(c)
  /\ \A t \in Threads, c \in Conns :
       pc[t] \in {"welcome", "waiting", "publish"} /\ table[sock[t]] = c => Ready(c)
  /\ pc["main"] = "getSocket" => part["main"] = 1

\* What the main thread sends next continues what the connection ends with; a connection
\* that it does not send to ends with a whole message.
Continued(c) ==
  \A k \in DOMAIN c2s[c] : Latest(c, k) =>
    IF TalksTo(c) /\ c2s[c][k].part # Parts
    THEN out["main"] = c2s[c][k].kind /\ part["main"] = c2s[c][k].part + 1
    ELSE c2s[c][k].part = Parts /\ (TalksTo(c) => part["main"] = 1)

\* As long as the HELLO is not complete, no message begins after another one.
Untimely(c) ==
  ~ HelloSent(c) =>
    /\ Leaves(c) => Others(c) = {}
    /\ TalksTo(c) => \A k \in Others(c) : c2s[c][k].part # Parts

\* The inductive invariant for what the main thread sends.
StrayInv ==
  /\ IInv /\ Unmade /\ Introduced /\ OneStray
  /\ \A c \in Conns : Alive(c) => Continued(c) /\ Untimely(c)

\* Numbers name connections or nothing.
LEMMA NamesConn ==
  ASSUME IInv
  PROVE  /\ None \notin Conns /\ 0 \notin Conns
         /\ \A t \in Threads : Named(sock[t]) # None =>
              sock[t] \in Fds /\ table[sock[t]] \in Conns /\ Named(sock[t]) = table[sock[t]]
         /\ \A a, b \in Fds : table[a] \in Conns /\ table[b] \in Conns => a = b
<1>1. SocketOwned
  BY OneOpen
<1> QED
  BY <1>1 DEF SocketOwned, Named, Conns

\* Where the main thread's message goes depends on what it has copied and on the table; a
\* descriptor that is opened or closed is not a connection then.
LEMMA NothingSent ==
  ASSUME StrayInv, IInv', Introduced', UNCHANGED <<c2s, made>>,
         \/ /\ pc'["main"] = pc["main"] /\ sock'["main"] = sock["main"]
            /\ out'["main"] = out["main"] /\ part'["main"] = part["main"]
         \/ \A c \in Conns : Alive(c)' => ~ TalksTo(c) /\ ~ TalksTo(c)' /\ ~ Leaves(c)',
         \A fd \in Fds : table'[fd] = table[fd] \/ table'[fd] \notin Conns,
         \A c \in Conns : srv[c] = "closed" => srv'[c] = "closed"
  PROVE  StrayInv'
<1>1. /\ IInv /\ Unmade /\ OneStray
      /\ \A c \in Conns : Alive(c) => Continued(c) /\ Untimely(c)
  BY DEF StrayInv
<1>2. Unmade' /\ OneStray'
  <2>1. Unmade'
    BY <1>1 DEF Unmade
  <2>2. ASSUME NEW c \in Conns
        PROVE  Others(c)' = Others(c) /\ \A k : Greeted(c, k)' <=> Greeted(c, k)
    BY DEF Others, Greeted
  <2>3. OneStray'
    BY <1>1, <2>2 DEF OneStray
  <2> QED
    BY <2>1, <2>3
<1>3. ASSUME NEW c \in Conns, Alive(c)'
      PROVE  Continued(c)' /\ Untimely(c)'
  <2>1. Alive(c)
    BY <1>3 DEF Alive
  <2>2. Continued(c) /\ Untimely(c)
    BY <1>1, <2>1
  <2>3. Named(sock["main"])' = c <=> Named(sock'["main"]) = c
    <3>1. PICK fd \in Fds : table'[fd] = c
      BY <1>3 DEF Alive
    <3>2. table[fd] = c
      BY <3>1
    <3>3. \A b \in Fds : table'[b] = c <=> table[b] = c
      BY <1>1, <3>1, <3>2, NamesConn
    <3> QED
      BY <1>1, <3>3, NamesConn DEF Named
  <2>4. (TalksTo(c)' <=> TalksTo(c)) /\ (Leaves(c)' => Leaves(c))
    BY <1>3, <2>3 DEF TalksTo, Leaves
  <2>5. TalksTo(c) => out'["main"] = out["main"] /\ part'["main"] = part["main"]
    BY <1>3 DEF TalksTo
  <2>6. Others(c)' = Others(c) /\ HelloSent(c)' = HelloSent(c)
        /\ \A k : Latest(c, k)' <=> Latest(c, k)
    BY DEF Others, HelloSent, Latest
  <2> QED
    BY <2>2, <2>4, <2>5, <2>6 DEF Continued, Untimely
<1> QED
  BY <1>2, <1>3 DEF StrayInv

\* The server does not write to itself, and a connection that it has closed stays closed.
LEMMA ServerStray ==
  ASSUME StrayInv, NEW c \in Conns, ServerStep(c)
  PROVE  StrayInv'
<1>1. IInv /\ Introduced
  BY DEF StrayInv
<1>2. UNCHANGED <<localVars, flagVars, table, made, typed>> /\ IInv'
  BY <1>1, ServerStepTypes, StepIInv DEF Next
<1>3. UNCHANGED c2s /\ \A d \in Conns : srv[d] = "closed" => srv'[d] = "closed"
  <2>1. srv \in [Conns -> {"hello", "chat", "held", "lost", "closed"}]
    BY <1>1 DEF IInv, TypeOK
  <2>2. srv' = srv \/ srv[c] # "closed" \/ srv' = [srv EXCEPT ![c] = "closed"]
    BY DEF ServerStep, ServerRead, ServerMisread, ServerSay, ServerHeld, ServerClose
  <2>3. UNCHANGED c2s
    BY DEF ServerStep, ServerRead, ServerMisread, ServerSay, ServerHeld, ServerClose
  <2>4. srv' = srv \/ \E state : srv' = [srv EXCEPT ![c] = state]
    BY DEF ServerStep, ServerRead, ServerMisread, ServerSay, ServerHeld, ServerClose
  <2> QED
    BY <2>1, <2>2, <2>3, <2>4
<1>4. Introduced'
  <2>1. \A d \in Conns : Ready(d) => Ready(d)'
    BY <1>3 DEF Ready, HelloSent
  <2> QED
    BY <1>1, <1>2, <2>1 DEF Introduced, localVars, flagVars
<1> QED
  BY <1>2, <1>3, <1>4, NothingSent DEF localVars

\* Descriptors that are opened and closed, and the ends of the handshake.
LEMMA SocketStray ==
  ASSUME StrayInv, NEW t \in Threads,
         Socket(t) \/ CloseNew(t) \/ CloseConnection(t) \/ Publish(t)
  PROVE  StrayInv'
<1>1. IInv /\ Introduced /\ ClientTypes /\ ThreadsFit /\ Owned
  BY TypeParts DEF StrayInv, IInv
<1>2. IInv' /\ Introduced
  BY <1>1, SocketStep, CloseNewStep, CloseConnectionStep, PublishStep
<1>3. UNCHANGED <<out, part, made, serverVars>>
  BY DEF Socket, CloseNew, CloseConnection, Publish
<1>4. /\ pc[t] \in {"socket", "close", "lost", "quitClose", "shut", "publish"}
      /\ \E stage \in {"connect", "start", "retry", "top", "stop", "join"} :
           pc' = [pc EXCEPT ![t] = stage]
  <2>0. ReturnedFalse[t] \in {"start", "retry"} /\ Returned[t] \in {"start", "top"}
    BY DEF ReturnedFalse, Returned
  <2>1. CASE Socket(t)
    BY <2>1 DEF Socket, Goto
  <2>2. CASE CloseNew(t)
    BY <2>0, <2>2 DEF CloseNew, Goto
  <2>3. CASE Publish(t)
    BY <2>0, <2>3 DEF Publish, Goto
  <2>4. CASE CloseConnection(t)
    <3>1. pc[t] \in {"lost", "quitClose", "shut"}
      BY <2>4 DEF CloseConnection
    <3>2. pc' = [pc EXCEPT ![t] = [lost |-> "top", quitClose |-> "stop", shut |-> "join"][pc[t]]]
      BY <2>4 DEF CloseConnection, Goto
    <3>3. [lost |-> "top", quitClose |-> "stop", shut |-> "join"][pc[t]] \in {"top", "stop", "join"}
      BY <3>1
    <3> QED
      BY <3>1, <3>2, <3>3
  <2> QED
    BY <2>1, <2>2, <2>3, <2>4
<1>5. \A fd \in Fds : table'[fd] = table[fd] \/ table'[fd] \notin Conns
  <2>1. \/ table' = table
        \/ \E fd \in Fds : table' = [table EXCEPT ![fd] = 0] \/ table' = [table EXCEPT ![fd] = None]
    <3>1. CASE CloseConnection(t)
      BY <1>1, <3>1 DEF CloseConnection, Closed, ClientTypes
    <3>2. CASE CloseNew(t)
      BY <1>1, <3>2 DEF CloseNew, Owned, Connecting
    <3>3. CASE Socket(t) \/ Publish(t)
      BY <3>3 DEF Socket, Publish
    <3> QED
      BY <3>1, <3>2, <3>3
  <2>2. table \in [Fds -> Conns \cup {0, None}]
    BY <1>1 DEF ClientTypes
  <2> QED
    BY <1>1, <2>1, <2>2, NamesConn
<1>6. \A u \in Threads : u # t =>
        pc'[u] = pc[u] /\ sock'[u] = sock[u] /\ out'[u] = out[u] /\ part'[u] = part[u]
  <2>1. sock' = sock \/ \E fd : sock' = [sock EXCEPT ![t] = fd]
    BY DEF Socket, CloseNew, CloseConnection, Publish
  <2> QED
    BY <1>1, <1>3, <1>4, <2>1 DEF ClientTypes
<1>7. Introduced'
  <2>1. \A c \in Conns : Ready(c)' <=> Ready(c)
    BY <1>3 DEF Ready, HelloSent, serverVars
  <2>2. ASSUME NEW c \in Conns, connected', table'[sockfd'] = c
        PROVE  Ready(c)
    <3>1. CASE Publish(t)
      <4>1. pc[t] = "publish" /\ sockfd' = sock[t] /\ UNCHANGED table
        BY <3>1 DEF Publish
      <4> QED
        BY <1>1, <2>2, <4>1 DEF Introduced
    <3>2. CASE CloseConnection(t)
      BY <2>2, <3>2 DEF CloseConnection
    <3>3. CASE Socket(t) \/ CloseNew(t)
      <4>1. UNCHANGED flagVars
        BY <3>3 DEF Socket, CloseNew
      <4>2. sockfd \in Fds
        BY <1>1, <2>2, <4>1 DEF Owned, ClientTypes, flagVars
      <4> QED
        BY <1>1, <1>5, <2>2, <4>1, <4>2 DEF Introduced, flagVars
    <3> QED
      BY <3>1, <3>2, <3>3
  <2>3. ASSUME NEW u \in Threads, NEW c \in Conns,
               pc'[u] \in {"welcome", "waiting", "publish"}, table'[sock'[u]] = c
        PROVE  Ready(c)
    <3>1. u # t /\ pc'[u] = pc[u] /\ sock'[u] = sock[u]
      BY <1>1, <1>4, <1>6, <2>3 DEF ClientTypes
    <3>2. sock[u] \in Fds
      BY <1>1, <2>3, <3>1 DEF Owned, Connecting
    <3> QED
      BY <1>1, <1>5, <2>3, <3>1, <3>2 DEF Introduced
  <2>4. pc'["main"] = "getSocket" => part'["main"] = 1
    BY <1>1, <1>3, <1>4, <1>6 DEF Introduced, ClientTypes
  <2> QED
    BY <2>1, <2>2, <2>3, <2>4 DEF Introduced
<1>8. \/ /\ pc'["main"] = pc["main"] /\ sock'["main"] = sock["main"]
         /\ out'["main"] = out["main"] /\ part'["main"] = part["main"]
      \/ pc["main"] # "send" /\ pc'["main"] \notin {"send", "quit"}
  <2>1. CASE t = "main"
    <3>1. pc["main"] \notin {"send", "quit"} /\ pc'["main"] \notin {"send", "quit"}
      BY <1>1, <1>4, <2>1 DEF ClientTypes
    <3> QED
      BY <3>1
  <2>2. CASE t # "main"
    BY <1>6, <2>2
  <2> QED
    BY <2>1, <2>2
<1> QED
  BY <1>2, <1>3, <1>5, <1>7, <1>8, NothingSent DEF serverVars, TalksTo, Leaves

\* A thread receives, or looks for the socket to receive from.
LEMMA RecvStray ==
  ASSUME StrayInv, NEW t \in Threads,
         \/ EnterRecv(t) \/ RecvMessage(t) \/ RecvFailed(t)
         \/ t = "receiver" /\ GetSocket(t)
  PROVE  StrayInv'
<1>1. IInv /\ Introduced /\ ClientTypes /\ ThreadsFit /\ Owned
  BY TypeParts DEF StrayInv, IInv
<1>2. IInv'
  BY <1>1, EnterRecvStep, RecvStep, GetSocketStep
<1>3. /\ UNCHANGED <<out, part, flagVars, table, made, srv, c2s>>
      /\ sock' = sock \/ (t = "receiver" /\ \E fd : sock' = [sock EXCEPT ![t] = fd])
  BY DEF EnterRecv, RecvMessage, RecvFailed, GetSocket, serverVars
<1>4. /\ pc[t] \in {"welcome", "waiting", "recv", "reading", "getSocket"}
      /\ \E stage \in {"waiting", "reading", "close", "lost", "top", "publish", "recv"} :
           /\ pc' = [pc EXCEPT ![t] = stage]
           /\ stage \in {"waiting", "publish"} => pc[t] \in {"welcome", "waiting"} /\ sock' = sock
  <2>1. CASE EnterRecv(t)
    <3>1. CASE pc[t] = "welcome"
      <4>1. pc' = [pc EXCEPT ![t] = IF Named(sock[t]) # None THEN "waiting" ELSE "close"]
        BY <2>1, <3>1 DEF EnterRecv, Goto
      <4>2. sock' = sock
        BY <2>1 DEF EnterRecv
      <4> QED
        BY <3>1, <4>1, <4>2
    <3>2. CASE pc[t] = "recv"
      <4>1. pc' = [pc EXCEPT ![t] = IF Named(sock[t]) # None THEN "reading" ELSE "lost"]
        BY <2>1, <3>2 DEF EnterRecv, Goto
      <4> QED
        BY <3>2, <4>1
    <3> QED
      BY <2>1, <3>1, <3>2 DEF EnterRecv
  <2>2. CASE RecvMessage(t)
    <3>1. CASE pc[t] = "reading"
      BY <2>2, <3>1 DEF RecvMessage, Goto
    <3>2. CASE pc[t] = "waiting"
      <4>1. pc' = [pc EXCEPT ![t] = IF Head(s2c[reading[t]]) = "WELCOME" THEN "publish" ELSE "close"]
        BY <2>2, <3>2 DEF RecvMessage, Goto
      <4>2. sock' = sock
        BY <2>2 DEF RecvMessage
      <4> QED
        BY <3>2, <4>1, <4>2
    <3> QED
      BY <2>2, <3>1, <3>2 DEF RecvMessage
  <2>3. CASE RecvFailed(t)
    <3>1. pc[t] \in {"waiting", "reading"} /\ pc' = [pc EXCEPT ![t] = AfterEnd[pc[t]]]
      BY <2>3 DEF RecvFailed, Goto
    <3>2. AfterEnd[pc[t]] \in {"close", "lost"}
      BY <3>1 DEF AfterEnd
    <3> QED
      BY <3>1, <3>2
  <2>4. CASE t = "receiver" /\ GetSocket(t)
    BY <2>4 DEF GetSocket, Goto
  <2> QED
    BY <2>1, <2>2, <2>3, <2>4
<1>5. \A u \in Threads : u # t => pc'[u] = pc[u] /\ sock'[u] = sock[u]
  BY <1>1, <1>3, <1>4 DEF ClientTypes
<1>6. Introduced'
  <2>1. \A c \in Conns : Ready(c)' <=> Ready(c)
    BY <1>3 DEF Ready, HelloSent
  <2>2. \A u \in Threads : pc'[u] \in {"welcome", "waiting", "publish"} =>
          pc[u] \in {"welcome", "waiting", "publish"} /\ sock'[u] = sock[u]
    BY <1>1, <1>4, <1>5 DEF ClientTypes
  <2>3. pc'["main"] = "getSocket" => pc["main"] = "getSocket"
    BY <1>1, <1>4, <1>5 DEF ClientTypes
  <2> QED
    BY <1>1, <1>3, <2>1, <2>2, <2>3 DEF Introduced, flagVars
<1>7. \/ /\ pc'["main"] = pc["main"] /\ sock'["main"] = sock["main"]
         /\ out'["main"] = out["main"] /\ part'["main"] = part["main"]
      \/ pc["main"] # "send" /\ pc'["main"] \notin {"send", "quit"}
  <2>1. CASE t = "main"
    <3>1. pc["main"] \notin {"send", "quit"} /\ pc'["main"] \notin {"send", "quit"}
      BY <1>1, <1>4, <2>1 DEF ClientTypes
    <3> QED
      BY <3>1
  <2>2. CASE t # "main"
    BY <1>3, <1>5, <2>2
  <2> QED
    BY <2>1, <2>2
<1> QED
  BY <1>2, <1>3, <1>6, <1>7, NothingSent DEF TalksTo, Leaves

\* What the receive thread decides changes nothing that is sent.
LEMMA ReceiverStray ==
  ASSUME StrayInv, ReceiverTop \/ ReceiverCheck \/ Retry \/ WakeUp
  PROVE  StrayInv'
<1>1. IInv /\ Introduced /\ ClientTypes
  BY TypeParts DEF StrayInv, IInv
<1>2. IInv'
  BY <1>1, ReceiverMoves
<1>3. /\ UNCHANGED <<sock, out, part, flagVars, table, made, srv, c2s>>
      /\ \E stage \in {"top", "check", "done", "getSocket", "retry", "sleep", "socket"} :
           pc' = [pc EXCEPT !["receiver"] = stage]
  BY DEF ReceiverTop, ReceiverCheck, Retry, WakeUp, Move, Goto, serverVars
<1>4. /\ pc'["main"] = pc["main"]
      /\ pc'["receiver"] \notin {"welcome", "waiting", "publish"}
  BY <1>1, <1>3 DEF ClientTypes
<1>5. Introduced'
  <2>1. \A c \in Conns : Ready(c)' <=> Ready(c)
    BY <1>3 DEF Ready, HelloSent
  <2> QED
    BY <1>1, <1>3, <1>4, <2>1 DEF Introduced, flagVars
<1> QED
  BY <1>2, <1>3, <1>4, <1>5, NothingSent

\* The main thread has a message, or is about to have one, for a connection whose HELLO is
\* complete or that it has not sent anything.
LEMMA MessageBegins ==
  ASSUME StrayInv, IInv', Introduced', UNCHANGED <<c2s, made, table, srv>>,
         pc["main"] # "send", pc'["main"] = "send" => part'["main"] = 1,
         \A c \in Conns : Alive(c) /\ ~ HelloSent(c) =>
           (TalksTo(c)' \/ Leaves(c)' => Others(c) = {})
  PROVE  StrayInv'
<1>1. /\ IInv /\ Unmade /\ OneStray
      /\ \A c \in Conns : Alive(c) => Continued(c) /\ Untimely(c)
  BY DEF StrayInv
<1>2. Unmade' /\ OneStray'
  <2>1. Unmade'
    BY <1>1 DEF Unmade
  <2>2. ASSUME NEW c \in Conns
        PROVE  Others(c)' = Others(c) /\ \A k : Greeted(c, k)' <=> Greeted(c, k)
    BY DEF Others, Greeted
  <2>3. OneStray'
    BY <1>1, <2>2 DEF OneStray
  <2> QED
    BY <2>1, <2>3
<1>3. ASSUME NEW c \in Conns, Alive(c)'
      PROVE  Continued(c)' /\ Untimely(c)'
  <2>1. Alive(c) /\ Continued(c)
    BY <1>1, <1>3 DEF Alive
  <2>2. Others(c)' = Others(c) /\ HelloSent(c)' = HelloSent(c)
        /\ \A k : Latest(c, k)' <=> Latest(c, k)
    BY DEF Others, HelloSent, Latest
  <2>3. ~ TalksTo(c) /\ (TalksTo(c)' => part'["main"] = 1)
    BY DEF TalksTo
  <2>4. Continued(c)'
    BY <2>1, <2>2, <2>3 DEF Continued
  <2>5. Untimely(c)'
    BY <2>1, <2>2 DEF Untimely
  <2> QED
    BY <2>4, <2>5
<1> QED
  BY <1>2, <1>3 DEF StrayInv

\* The main thread looks up the socket for a message or a good-bye, or begins the latter.
LEMMA MessageStray ==
  ASSUME StrayInv, GetSocket("main") \/ ReadQuit \/ SayBye
  PROVE  StrayInv'
<1>1. IInv /\ Introduced /\ ClientTypes /\ Owned
  BY TypeParts DEF StrayInv, IInv
<1>2. IInv'
  BY <1>1, GetSocketStep, MainMoves DEF UserStep
<1>3. /\ pc["main"] \in {"getSocket", "line", "quit"}
      /\ UNCHANGED <<c2s, made, table, srv, flagVars>>
      /\ sock' = sock \/ sock' = [sock EXCEPT !["main"] = sockfd]
      /\ \E stage \in {"send", "quit", "quitStop"} : pc' = [pc EXCEPT !["main"] = stage]
      /\ part' = part \/ part' = [part EXCEPT !["main"] = 1]
  BY DEF GetSocket, ReadQuit, SayBye, Goto, Prepare, serverVars
<1>4. Introduced'
  <2>1. \A c \in Conns : Ready(c)' <=> Ready(c)
    BY <1>3 DEF Ready, HelloSent
  <2>2. \A u \in Threads : pc'[u] \in {"welcome", "waiting", "publish"} =>
          pc[u] \in {"welcome", "waiting", "publish"} /\ sock'[u] = sock[u]
    BY <1>1, <1>3 DEF ClientTypes
  <2>3. pc'["main"] # "getSocket"
    BY <1>1, <1>3 DEF ClientTypes
  <2> QED
    BY <1>1, <1>3, <2>1, <2>2, <2>3 DEF Introduced, flagVars
<1>5. pc'["main"] = "send" => part'["main"] = 1
  <2>1. CASE GetSocket("main")
    BY <1>1, <2>1 DEF GetSocket, Introduced
  <2>2. CASE ReadQuit
    BY <1>1, <2>2 DEF ReadQuit, Goto, ClientTypes
  <2>3. CASE SayBye
    BY <1>1, <2>3 DEF SayBye, Goto, Prepare, ClientTypes
  <2> QED
    BY <2>1, <2>2, <2>3
<1>6. ASSUME NEW c \in Conns, Alive(c), ~ HelloSent(c), TalksTo(c)' \/ Leaves(c)'
      PROVE  Others(c) = {}
  <2>1. Named(sock'["main"]) = c
    BY <1>3, <1>6 DEF TalksTo, Leaves, Named
  <2>2. CASE GetSocket("main") \/ ReadQuit
    <3>1. sock'["main"] = sockfd
      BY <1>1, <2>2 DEF GetSocket, ReadQuit, ClientTypes
    <3>2. sockfd \in Fds /\ table[sockfd] = c
      BY <1>1, <2>1, <3>1, NamesConn DEF Named
    <3>3. connected
      BY <1>1, <3>2 DEF Owned
    <3> QED
      BY <1>1, <1>6, <3>2, <3>3 DEF Introduced, Ready, Alive
  <2>3. CASE SayBye
    <3>1. pc["main"] = "quit" /\ sock' = sock
      BY <2>3 DEF SayBye
    <3>2. Leaves(c)
      BY <2>1, <3>1 DEF Leaves
    <3> QED
      BY <1>6, <3>2 DEF StrayInv, Untimely
  <2> QED
    BY <2>2, <2>3
<1> QED
  BY <1>2, <1>3, <1>4, <1>5, <1>6, MessageBegins

\* What else the main thread and the user decide.
LEMMA MainStray ==
  ASSUME StrayInv,
         \/ Start \/ Stop \/ Join \/ ReadEof
         \/ \E kind \in Lines : ReadLine(kind)
  PROVE  StrayInv'
<1>1. IInv /\ Introduced /\ ClientTypes
  BY TypeParts DEF StrayInv, IInv
<1>2. IInv'
  BY <1>1, MainMoves DEF UserStep
<1>3. /\ UNCHANGED <<sock, sockfd, connected, table, made, srv, c2s>>
      /\ \/ UNCHANGED <<out, part>>
         \/ \E kind : Prepare("main", kind)
      /\ pc["main"] \notin {"send", "quit"} /\ pc'["main"] \notin {"send", "quit"}
      /\ \A u \in Threads : pc'[u] \notin {"welcome", "waiting", "publish"} \/ pc'[u] = pc[u]
      /\ pc'["main"] = "getSocket" => part'["main"] = 1
  <2>1. CASE Start
    BY <1>1, <2>1 DEF Start, flagVars, serverVars, ClientTypes
  <2>2. CASE Stop
    <3>1. \E stage \in {"quitClose", "shut"} : pc' = [pc EXCEPT !["main"] = stage]
      <4>1. CASE pc["main"] = "quitStop"
        BY <2>2, <4>1 DEF Stop, Goto
      <4>2. CASE pc["main"] = "stop"
        BY <2>2, <4>2 DEF Stop, Goto
      <4> QED
        BY <2>2, <4>1, <4>2 DEF Stop
    <3> QED
      BY <1>1, <2>2, <3>1 DEF Stop, serverVars, ClientTypes
  <2>3. CASE Join \/ ReadEof
    BY <1>1, <2>3 DEF Join, ReadEof, Move, Goto, flagVars, serverVars, ClientTypes
  <2>4. CASE \E kind \in Lines : ReadLine(kind)
    <3>1. PICK kind \in Lines : ReadLine(kind)
      BY <2>4
    <3>2. /\ pc["main"] = "line"
          /\ UNCHANGED <<sock, sockfd, connected, table, made, srv, c2s>>
      BY <3>1 DEF ReadLine, flagVars, serverVars
    <3>3. \/ UNCHANGED <<pc, out, part>>
          \/ Prepare("main", kind) /\ pc' = [pc EXCEPT !["main"] = "getSocket"]
      BY <3>1 DEF ReadLine, Goto
    <3>4. Prepare("main", kind) => part'["main"] = 1
      BY <1>1 DEF Prepare, ClientTypes
    <3> QED
      BY <1>1, <3>2, <3>3, <3>4 DEF ClientTypes
  <2> QED
    BY <2>1, <2>2, <2>3, <2>4
<1>4. Introduced'
  <2>1. \A c \in Conns : Ready(c)' <=> Ready(c)
    BY <1>3 DEF Ready, HelloSent
  <2> QED
    BY <1>1, <1>3, <2>1 DEF Introduced
<1> QED
  BY <1>2, <1>3, <1>4, NothingSent DEF TalksTo, Leaves

\* A connection that is new was sent nothing; the others are where they were.
LEMMA ConnectStray ==
  ASSUME StrayInv, NEW t \in Threads, Connect(t)
  PROVE  StrayInv'
<1>1. IInv /\ Introduced /\ Unmade /\ OneStray /\ ClientTypes /\ Owned /\ Turns
      /\ \A c \in Conns : Alive(c) => Continued(c) /\ Untimely(c)
  BY TypeParts DEF StrayInv, IInv
<1>2. IInv'
  BY <1>1, ConnectStep
<1>3. /\ pc[t] = "connect" /\ Connecting(t) /\ ~ connected /\ sock[t] \in Fds
      /\ UNCHANGED <<sock, flagVars, srv, c2s>>
      /\ \E stage \in {"send", "close"} : pc' = [pc EXCEPT ![t] = stage]
      /\ UNCHANGED <<out, part>> \/ Prepare(t, "HELLO")
  <2>1. pc[t] = "connect" /\ Connecting(t)
    BY DEF Connect, Connecting
  <2> QED
    BY <1>1, <2>1 DEF Connect, Goto, AfterConnect, Owned, serverVars
<1>4. \A u \in Threads : u # t => ~ Connecting(u) /\ pc'[u] = pc[u] /\ out'[u] = out[u]
                                    /\ part'[u] = part[u]
  <2>1. ~ (Connecting("main") /\ Connecting("receiver"))
    BY <1>1 DEF Turns, Connecting
  <2> QED
    BY <1>1, <1>3, <2>1 DEF ClientTypes, Prepare
<1>5. Introduced'
  <2>1. pc'[t] \in {"send", "close"}
    BY <1>1, <1>3 DEF ClientTypes
  <2>2. \A u \in Threads : pc'[u] \notin {"welcome", "waiting", "publish"}
    BY <1>4, <2>1 DEF Connecting
  <2>3. pc'["main"] = "getSocket" => part'["main"] = 1
    BY <1>1, <1>4, <2>1 DEF Introduced
  <2> QED
    BY <1>3, <2>2, <2>3 DEF Introduced, flagVars
<1>6. CASE UNCHANGED <<made, table>> /\ pc' = [pc EXCEPT ![t] = "close"]
  BY <1>1, <1>2, <1>3, <1>4, <1>5, <1>6, NothingSent DEF ClientTypes, TalksTo, Leaves
<1>7. CASE /\ made' = made + 1 /\ made' \in Conns /\ table' = [table EXCEPT ![sock[t]] = made']
           /\ pc' = [pc EXCEPT ![t] = "send"] /\ Prepare(t, "HELLO")
  <2>1. /\ made \in Nat /\ pc'[t] = "send" /\ out'[t] = "HELLO"
        /\ \A fd \in Fds : table'[fd] = IF fd = sock[t] THEN made' ELSE table[fd]
    BY <1>1, <1>3, <1>7 DEF ClientTypes, Prepare
  <2>2. Unmade'
    BY <1>1, <1>3, <1>7, <2>1 DEF Unmade, Conns
  <2>3. OneStray'
    BY <1>1, <1>3 DEF OneStray, Others, Greeted
  <2>4. ASSUME NEW c \in Conns, Alive(c)'
        PROVE  Continued(c)' /\ Untimely(c)'
    <3>1. CASE c = made'
      <4>1. c2s'[c] = <<>>
        BY <1>1, <1>3, <1>7, <2>1, <3>1 DEF Unmade
      <4>2. Others(c)' = {} /\ DOMAIN c2s'[c] = {}
        BY <4>1 DEF Others
      <4> QED
        BY <4>2 DEF Continued, Untimely
    <3>2. CASE c # made'
      <4>1. PICK fd \in Fds : fd # sock[t] /\ table[fd] = c
        BY <2>1, <2>4, <3>2 DEF Alive
      <4>2. Alive(c)
        BY <1>3, <2>4, <4>1 DEF Alive
      <4>3. \A b \in Fds : table'[b] = c <=> table[b] = c
        BY <1>1, <2>1, <3>2, <4>1, NamesConn
      <4>4. (Named(sock["main"])' = c) <=> (Named(sock["main"]) = c)
        BY <1>1, <1>3, <4>3, NamesConn DEF Named
      <4>5. (TalksTo(c)' <=> TalksTo(c)) /\ (Leaves(c)' => Leaves(c))
            /\ (TalksTo(c) => out'["main"] = out["main"] /\ part'["main"] = part["main"])
        BY <1>3, <1>4, <2>1, <4>4 DEF TalksTo, Leaves
      <4>6. Others(c)' = Others(c) /\ HelloSent(c)' = HelloSent(c)
            /\ \A k : Latest(c, k)' <=> Latest(c, k)
        BY <1>3 DEF Others, HelloSent, Latest
      <4>7. Continued(c) /\ Untimely(c)
        BY <1>1, <4>2
      <4> QED
        BY <1>3, <4>5, <4>6, <4>7 DEF Continued, Untimely
    <3> QED
      BY <3>1, <3>2
  <2> QED
    BY <1>2, <1>5, <2>2, <2>3, <2>4 DEF StrayInv
<1> QED
  <2>1. made < MaxConns => made + 1 \in Conns
    BY <1>1 DEF ClientTypes, Conns
  <2> QED
    BY <1>6, <1>7, <2>1 DEF Connect, Goto, AfterConnect

\* What a connection was sent stays, and one third comes after it.
LEMMA OneMoreThird ==
  ASSUME IInv, NEW c \in Conns, NEW third \in [kind : Kinds, part : 1..Parts],
         c2s' = [c2s EXCEPT ![c] = Append(@, third)]
  PROVE  /\ \A d \in Conns : d # c => c2s'[d] = c2s[d]
         /\ \E n \in Nat :
              /\ DOMAIN c2s'[c] = DOMAIN c2s[c] \cup {n} /\ c2s'[c][n] = third
              /\ \A k \in DOMAIN c2s[c] : k \in Nat /\ k < n /\ c2s'[c][k] = c2s[c][k]
<1> DEFINE Thirds == [kind : Kinds, part : 1..Parts]
<1>1. c2s \in [Conns -> Seq(Thirds)] /\ third \in Thirds
  BY DEF IInv, TypeOK
<1> HIDE DEF Thirds
<1>2. /\ c2s'[c] = Append(c2s[c], third) /\ c2s[c] \in Seq(Thirds)
      /\ \A d \in Conns : d # c => c2s'[d] = c2s[d]
  BY <1>1
<1>3. /\ DOMAIN c2s'[c] = DOMAIN c2s[c] \cup {Len(c2s[c]) + 1}
      /\ Len(c2s[c]) \in Nat /\ DOMAIN c2s[c] = 1..Len(c2s[c])
      /\ \A k \in DOMAIN c2s[c] : c2s'[c][k] = c2s[c][k]
      /\ c2s'[c][Len(c2s[c]) + 1] = third
  BY <1>1, <1>2, AppendElements
<1> QED
  BY <1>2, <1>3

\* The HELLO is not among the main thread's messages.
LEMMA HelloThird ==
  ASSUME IInv, OneStray, NEW c \in Conns, NEW third \in [kind : Kinds, part : 1..Parts],
         third.kind = "HELLO", c2s' = [c2s EXCEPT ![c] = Append(@, third)]
  PROVE  /\ OneStray'
         /\ \A d \in Conns :
              /\ Others(d)' = Others(d)
              /\ \A k \in Others(d) : c2s'[d][k] = c2s[d][k]
              /\ HelloSent(d) => HelloSent(d)'
         /\ third.part = Parts => HelloSent(c)'
<1>0. /\ \A d \in Conns : d # c => c2s'[d] = c2s[d]
      /\ \E n \in Nat :
           /\ DOMAIN c2s'[c] = DOMAIN c2s[c] \cup {n} /\ c2s'[c][n] = third
           /\ \A k \in DOMAIN c2s[c] : k \in Nat /\ k < n /\ c2s'[c][k] = c2s[c][k]
  BY OneMoreThird
<1>1. PICK n \in Nat :
        /\ DOMAIN c2s'[c] = DOMAIN c2s[c] \cup {n} /\ c2s'[c][n] = third
        /\ \A k \in DOMAIN c2s[c] : k \in Nat /\ k < n /\ c2s'[c][k] = c2s[c][k]
  BY <1>0
<1>2. \A d \in Conns : d # c => c2s'[d] = c2s[d]
  BY <1>0
<1>3. \A d \in Conns : /\ Others(d)' = Others(d)
                       /\ DOMAIN c2s[d] \subseteq DOMAIN c2s'[d]
                       /\ \A k \in DOMAIN c2s[d] : c2s'[d][k] = c2s[d][k]
  BY <1>1, <1>2 DEF Others
<1>4. \A d \in Conns : HelloSent(d) => HelloSent(d)'
  BY <1>3 DEF HelloSent
<1>5. third.part = Parts => HelloSent(c)'
  <2>1. third = [kind |-> third.kind, part |-> third.part]
    OBVIOUS
  <2> QED
    BY <1>1, <2>1 DEF HelloSent
<1>6. \A d \in Conns : Others(d) \subseteq DOMAIN c2s[d]
  BY DEF Others
<1>7. OneStray'
  <2>1. ASSUME NEW d \in Conns
        PROVE  /\ Unbroken(c2s'[d], Others(d)')
               /\ \A j, k \in Others(d)' : c2s'[d][j].part = Parts /\ j < k => Greeted(d, k)'
    <3>1. /\ Unbroken(c2s[d], Others(d))
          /\ \A j, k \in Others(d) : c2s[d][j].part = Parts /\ j < k => Greeted(d, k)
      BY DEF OneStray
    <3>2. Others(d)' = Others(d) /\ \A k \in Others(d) : c2s'[d][k] = c2s[d][k]
      BY <1>3, <1>6
    <3>3. Unbroken(c2s'[d], Others(d))
      <4> SUFFICES ASSUME NEW j \in Others(d), NEW k \in Others(d), j < k,
                          \A i \in Others(d) : i <= j \/ k <= i
                   PROVE  IF c2s'[d][j].part = Parts THEN c2s'[d][k].part = 1
                          ELSE c2s'[d][k].kind = c2s'[d][j].kind
                               /\ c2s'[d][k].part = c2s'[d][j].part + 1
        BY DEF Unbroken
      <4>1. c2s'[d][j] = c2s[d][j] /\ c2s'[d][k] = c2s[d][k]
        BY <3>2
      <4>2. IF c2s[d][j].part = Parts THEN c2s[d][k].part = 1
            ELSE c2s[d][k].kind = c2s[d][j].kind /\ c2s[d][k].part = c2s[d][j].part + 1
        BY <3>1 DEF Unbroken
      <4> QED
        BY <4>1, <4>2
    <3>4. \A k : Greeted(d, k) => Greeted(d, k)'
      BY <1>3 DEF Greeted
    <3>5. \A j, k \in Others(d) : c2s'[d][j].part = Parts /\ j < k => Greeted(d, k)'
      BY <3>1, <3>2, <3>4
    <3> QED
      BY <3>2, <3>3, <3>5
  <2> QED
    BY <2>1 DEF OneStray
<1> QED
  BY <1>3, <1>4, <1>5, <1>6, <1>7

\* A third of a message that continues what is there, and begins no message too early.
LEMMA MessageThird ==
  ASSUME IInv, OneStray, NEW c \in Conns, Continued(c), Untimely(c), TalksTo(c),
         c2s' = [c2s EXCEPT ![c] = Append(@, [kind |-> out["main"], part |-> part["main"]])]
  PROVE  /\ OneStray'
         /\ \A d \in Conns : d # c => c2s'[d] = c2s[d]
         /\ HelloSent(c) => HelloSent(c)'
         /\ \A k \in DOMAIN c2s'[c] : Latest(c, k)' =>
              c2s'[c][k] = [kind |-> out["main"], part |-> part["main"]]
         /\ \A k \in Others(c)' :
              \/ c2s'[c][k].part = part["main"]
              \/ k \in Others(c) /\ c2s'[c][k] = c2s[c][k]
<1> DEFINE third == [kind |-> out["main"], part |-> part["main"]]
<1>0. third \in [kind : Kinds, part : 1..Parts] /\ third.kind # "HELLO"
      /\ third.kind = out["main"] /\ third.part = part["main"]
  BY DEF TalksTo, IInv, TypeOK
<1> HIDE DEF third
<1>a. c2s' = [c2s EXCEPT ![c] = Append(@, third)]
  BY DEF third
<1>b. /\ \A d \in Conns : d # c => c2s'[d] = c2s[d]
      /\ \E n \in Nat :
           /\ DOMAIN c2s'[c] = DOMAIN c2s[c] \cup {n} /\ c2s'[c][n] = third
           /\ \A k \in DOMAIN c2s[c] : k \in Nat /\ k < n /\ c2s'[c][k] = c2s[c][k]
  BY <1>0, <1>a, OneMoreThird
<1>1. PICK n \in Nat :
        /\ DOMAIN c2s'[c] = DOMAIN c2s[c] \cup {n} /\ c2s'[c][n] = third
        /\ \A k \in DOMAIN c2s[c] : k \in Nat /\ k < n /\ c2s'[c][k] = c2s[c][k]
  BY <1>b
<1>2. \A d \in Conns : d # c => c2s'[d] = c2s[d]
  BY <1>b
<1>3. Others(c)' = Others(c) \cup {n} /\ n \notin Others(c) /\ Others(c) \subseteq DOMAIN c2s[c]
  BY <1>0, <1>1 DEF Others
<1>4. \A k : Greeted(c, k) => Greeted(c, k)'
  BY <1>1 DEF Greeted
<1>5. HelloSent(c) => HelloSent(c)' /\ Greeted(c, n)'
  BY <1>1 DEF HelloSent, Greeted
<1>6. \A k : Latest(c, k)' => k = n
  BY <1>1, <1>3 DEF Latest
<1>7. \A j \in Others(c) : (\A i \in Others(c)' : i <= j \/ n <= i) => Latest(c, j)
  BY <1>1, <1>3 DEF Latest
<1>8. Unbroken(c2s'[c], Others(c)')
  <2> SUFFICES ASSUME NEW j \in Others(c)', NEW k \in Others(c)', j < k,
                      \A i \in Others(c)' : i <= j \/ k <= i
               PROVE  IF c2s'[c][j].part = Parts THEN c2s'[c][k].part = 1
                      ELSE c2s'[c][k].kind = c2s'[c][j].kind
                           /\ c2s'[c][k].part = c2s'[c][j].part + 1
    BY DEF Unbroken
  <2>1. j \in Others(c) /\ c2s'[c][j] = c2s[c][j]
    BY <1>1, <1>3
  <2>2. CASE k = n
    <3>1. Latest(c, j)
      BY <1>7, <2>1, <2>2
    <3>2. IF c2s[c][j].part # Parts
          THEN out["main"] = c2s[c][j].kind /\ part["main"] = c2s[c][j].part + 1
          ELSE part["main"] = 1
      BY <1>3, <2>1, <3>1 DEF Continued
    <3> QED
      BY <1>0, <1>1, <2>1, <2>2, <3>2
  <2>3. CASE k # n
    <3>1. k \in Others(c) /\ c2s'[c][k] = c2s[c][k]
      BY <1>1, <1>3, <2>3
    <3>2. Unbroken(c2s[c], Others(c)) /\ \A i \in Others(c) : i <= j \/ k <= i
      BY <1>3 DEF OneStray
    <3>3. IF c2s[c][j].part = Parts THEN c2s[c][k].part = 1
          ELSE c2s[c][k].kind = c2s[c][j].kind /\ c2s[c][k].part = c2s[c][j].part + 1
      BY <2>1, <3>1, <3>2 DEF Unbroken
    <3> QED
      BY <2>1, <3>1, <3>3
  <2> QED
    BY <2>2, <2>3
<1>9. ASSUME NEW j \in Others(c)', NEW k \in Others(c)', c2s'[c][j].part = Parts, j < k
      PROVE  Greeted(c, k)'
  <2>1. j \in Others(c) /\ c2s'[c][j] = c2s[c][j]
    BY <1>1, <1>3, <1>9
  <2>2. CASE k = n
    BY <1>5, <1>9, <2>1, <2>2 DEF Untimely
  <2>3. CASE k # n
    BY <1>3, <1>4, <1>9, <2>1, <2>3 DEF OneStray
  <2> QED
    BY <2>2, <2>3
<1>10. OneStray'
  <2>1. ASSUME NEW d \in Conns, d # c
        PROVE  /\ Unbroken(c2s'[d], Others(d)')
               /\ \A j, k \in Others(d)' : c2s'[d][j].part = Parts /\ j < k => Greeted(d, k)'
    <3>1. c2s'[d] = c2s[d]
      BY <1>2, <2>1
    <3>2. Others(d)' = Others(d) /\ \A k : Greeted(d, k)' <=> Greeted(d, k)
      BY <3>1 DEF Others, Greeted
    <3>3. /\ Unbroken(c2s[d], Others(d))
          /\ \A j, k \in Others(d) : c2s[d][j].part = Parts /\ j < k => Greeted(d, k)
      BY DEF OneStray
    <3> QED
      BY <3>1, <3>2, <3>3
  <2> QED
    BY <1>8, <1>9, <2>1 DEF OneStray
<1> QED
  BY <1>0, <1>1, <1>2, <1>3, <1>5, <1>6, <1>10 DEF third

\* One send_all(): nothing reaches a connection, or a third of the HELLO or of the main
\* thread's message does.
LEMMA SendPartStray ==
  ASSUME StrayInv, NEW t \in Threads, SendPart(t)
  PROVE  StrayInv'
<1>1. /\ IInv /\ Unmade /\ Introduced /\ OneStray
      /\ ClientTypes /\ ThreadsFit /\ Sending /\ Owned
      /\ \A c \in Conns : Alive(c) => Continued(c) /\ Untimely(c)
  BY TypeParts DEF StrayInv, IInv
<1>2. IInv'
  BY <1>1, SendPartStep
<1>3. /\ pc[t] = "send" /\ out[t] \in Kinds
      /\ UNCHANGED <<sock, flagVars, table, made, srv>>
      /\ \/ UNCHANGED <<pc, out>>
         \/ /\ out' = [out EXCEPT ![t] = None]
            /\ \E stage \in IF out[t] = "HELLO" THEN {"welcome", "close"}
                            ELSE IF out[t] = "BYE" THEN {"quitStop"} ELSE {"line"} :
                 pc' = [pc EXCEPT ![t] = stage]
  BY <1>1, SendPartCases
<1>4. /\ \A u \in Threads : u # t => pc'[u] = pc[u] /\ out'[u] = out[u] /\ part'[u] = part[u]
      /\ pc'[t] \in {"send", "welcome", "close", "quitStop", "line"}
      /\ pc'[t] = "send" => out'[t] = out[t]
      /\ pc'[t] \in {"welcome", "close"} => out[t] = "HELLO"
      /\ pc'["main"] \notin {"getSocket", "quit"} \/ t = "receiver"
  <2>1. \A u \in Threads : u # t => part'[u] = part[u]
    BY <1>1 DEF SendPart, Prepare, ClientTypes
  <2> QED
    BY <1>1, <1>3, <2>1 DEF ClientTypes
<1>5. out[t] = "HELLO" => sock[t] \in Fds /\ table[sock[t]] \in Conns
  BY <1>1, <1>3 DEF Owned, Connecting
<1>6. (\A c \in Conns : Ready(c) => Ready(c)')
      /\ (pc'[t] = "welcome" => \A c \in Conns : table[sock[t]] = c => Ready(c)')
        => Introduced'
  <2>1. pc'["main"] = "getSocket" => pc["main"] = "getSocket" /\ part'["main"] = part["main"]
    BY <1>4
  <2>2. \A u \in Threads : pc'[u] \in {"welcome", "waiting", "publish"} =>
          \/ u = t /\ pc'[t] = "welcome"
          \/ u # t /\ pc[u] \in {"welcome", "waiting", "publish"}
    BY <1>4
  <2> QED
    BY <1>1, <1>3, <2>1, <2>2 DEF Introduced, flagVars
<1>7. CASE UNCHANGED c2s /\ (Named(sock[t]) = None \/ srv[Named(sock[t])] = "closed")
  <2>1. Introduced'
    <3>1. \A c \in Conns : Ready(c) => Ready(c)'
      BY <1>3, <1>7 DEF Ready, HelloSent
    <3>2. pc'[t] = "welcome" => \A c \in Conns : table[sock[t]] = c => Ready(c)'
      BY <1>1, <1>3, <1>4, <1>5, <1>7, NamesConn DEF Named, Ready
    <3> QED
      BY <1>6, <3>1, <3>2
  <2>2. t = "main" => \A c \in Conns : Alive(c)' => ~ TalksTo(c) /\ ~ TalksTo(c)' /\ ~ Leaves(c)'
    BY <1>1, <1>3, <1>7, NamesConn DEF Alive, TalksTo, Leaves, Named
  <2>3. t # "main" => /\ pc'["main"] = pc["main"] /\ sock'["main"] = sock["main"]
                      /\ out'["main"] = out["main"] /\ part'["main"] = part["main"]
    BY <1>3, <1>4
  <2> QED
    BY <1>2, <1>3, <1>7, <2>1, <2>2, <2>3, NothingSent
<1>8. ASSUME NEW c \in Conns, c = Named(sock[t]), srv[c] # "closed",
             c2s' = [c2s EXCEPT ![c] = Append(@, [kind |-> out[t], part |-> part[t]])],
             IF part[t] < Parts
             THEN part' = [part EXCEPT ![t] = @ + 1] /\ UNCHANGED <<pc, out>>
             ELSE pc'[t] # "send"
      PROVE  StrayInv'
  <2>1. sock[t] \in Fds /\ table[sock[t]] = c /\ Alive(c)
    BY <1>1, <1>8, NamesConn DEF Alive
  <2>2. part[t] \in 1..Parts
        /\ (part[t] # Parts => part'[t] = part[t] + 1 /\ pc' = pc /\ out' = out)
        /\ (part[t] = Parts => pc'[t] # "send")
    BY <1>1, <1>8 DEF ClientTypes, Parts
  <2>3. \A d \in Conns : d # c => c2s'[d] = c2s[d]
    BY <1>1, <1>8 DEF IInv, TypeOK
  <2>4. Unmade'
    BY <1>1, <1>3, <2>1, <2>3 DEF Unmade
  <2>5. \A d \in Conns : Alive(d)' => Alive(d)
    BY <1>3 DEF Alive
  <2>6. \A d \in Conns : Named(sock["main"])' = d <=> Named(sock["main"]) = d
    BY <1>3 DEF Named
  <2>7. CASE out[t] = "HELLO"
    <3> DEFINE third == [kind |-> out[t], part |-> part[t]]
    <3>1. third \in [kind : Kinds, part : 1..Parts] /\ third.kind = "HELLO"
          /\ third.part = part[t] /\ c2s' = [c2s EXCEPT ![c] = Append(@, third)]
      BY <1>3, <1>8, <2>2, <2>7
    <3> HIDE DEF third
    <3>2. /\ OneStray'
          /\ \A d \in Conns :
               /\ Others(d)' = Others(d)
               /\ \A k \in Others(d) : c2s'[d][k] = c2s[d][k]
               /\ HelloSent(d) => HelloSent(d)'
          /\ part[t] = Parts => HelloSent(c)'
      BY <1>1, <3>1, HelloThird
    <3>3. Introduced'
      <4>1. \A d \in Conns : Ready(d) => Ready(d)'
        BY <1>3, <3>2 DEF Ready
      <4>2. pc'[t] = "welcome" => part[t] = Parts
        BY <1>3, <2>2
      <4> QED
        BY <1>6, <2>1, <3>2, <4>1, <4>2 DEF Ready
    <3>4. ASSUME NEW d \in Conns, Alive(d)'
          PROVE  Continued(d)' /\ Untimely(d)'
      <4>1. Continued(d) /\ Untimely(d)
        BY <1>1, <2>5, <3>4
      <4>2. (TalksTo(d)' <=> TalksTo(d)) /\ (Leaves(d)' => Leaves(d))
            /\ (TalksTo(d) => out'["main"] = out["main"] /\ part'["main"] = part["main"])
        BY <1>3, <1>4, <2>6, <2>7 DEF TalksTo, Leaves
      <4>3. /\ Others(d)' = Others(d) /\ (HelloSent(d) => HelloSent(d)')
            /\ \A k \in Others(d) : c2s'[d][k] = c2s[d][k]
            /\ \A k : Latest(d, k)' => Latest(d, k)
        BY <3>2 DEF Latest
      <4>4. \A k : Latest(d, k) => k \in Others(d) /\ k \in DOMAIN c2s[d]
        BY DEF Latest, Others
      <4>5. Continued(d)'
        BY <4>1, <4>2, <4>3, <4>4 DEF Continued
      <4>6. Untimely(d)'
        BY <4>1, <4>2, <4>3 DEF Untimely
      <4> QED
        BY <4>5, <4>6
    <3> QED
      BY <1>2, <2>4, <3>2, <3>3, <3>4 DEF StrayInv
  <2>8. CASE out[t] # "HELLO"
    <3>1. t = "main"
      BY <1>1, <1>3, <2>8 DEF Sending
    <3>2. TalksTo(c) /\ Continued(c) /\ Untimely(c)
      BY <1>1, <1>3, <1>8, <2>1, <2>8, <3>1 DEF TalksTo
    <3>3. /\ OneStray'
          /\ HelloSent(c) => HelloSent(c)'
          /\ \A k \in DOMAIN c2s'[c] : Latest(c, k)' =>
               c2s'[c][k] = [kind |-> out["main"], part |-> part["main"]]
          /\ \A k \in Others(c)' :
               \/ c2s'[c][k].part = part["main"]
               \/ k \in Others(c) /\ c2s'[c][k] = c2s[c][k]
      BY <1>1, <1>8, <3>1, <3>2, MessageThird
    <3>4. \A d \in Conns : HelloSent(d) => HelloSent(d)'
      BY <2>3, <3>3 DEF HelloSent
    <3>5. Introduced'
      <4>1. \A d \in Conns : Ready(d) => Ready(d)'
        BY <1>3, <3>4 DEF Ready
      <4>2. pc'[t] # "welcome"
        BY <1>4, <2>8
      <4> QED
        BY <1>6, <4>1, <4>2
    <3>6. /\ \A d \in Conns : ~ Leaves(d)' /\ (d # c => ~ TalksTo(d)')
          /\ TalksTo(c)' => part["main"] # Parts
          /\ part["main"] # Parts =>
               TalksTo(c)' /\ out'["main"] = out["main"] /\ part'["main"] = part["main"] + 1
      BY <1>4, <1>8, <2>2, <2>6, <3>1, <3>2 DEF TalksTo, Leaves
    <3>7. ASSUME NEW d \in Conns, Alive(d)', d # c
          PROVE  Continued(d)' /\ Untimely(d)'
      <4>1. Continued(d) /\ ~ TalksTo(d) /\ c2s'[d] = c2s[d]
        BY <1>1, <2>3, <2>5, <3>2, <3>7 DEF TalksTo
      <4>2. Others(d)' = Others(d) /\ \A k : Latest(d, k)' <=> Latest(d, k)
        BY <4>1 DEF Others, Latest
      <4> QED
        BY <3>6, <3>7, <4>1, <4>2 DEF Continued, Untimely
    <3>8. Continued(c)'
      BY <3>3, <3>6 DEF Continued
    <3>9. Untimely(c)'
      BY <3>2, <3>3, <3>6 DEF Untimely
    <3>10. \A d \in Conns : Alive(d)' => Continued(d)' /\ Untimely(d)'
      BY <3>7, <3>8, <3>9
    <3> QED
      BY <1>2, <2>4, <3>3, <3>5, <3>10 DEF StrayInv
  <2> QED
    BY <2>7, <2>8
<1> QED
  <2>1. Named(sock[t]) # None => Named(sock[t]) \in Conns
    BY DEF Named
  <2>2. part[t] \in 1..Parts
    BY <1>1 DEF ClientTypes
  <2>3. CASE UNCHANGED c2s /\ (Named(sock[t]) = None \/ srv[Named(sock[t])] = "closed")
    BY <1>7, <2>3
  <2>4. CASE ~ (UNCHANGED c2s /\ (Named(sock[t]) = None \/ srv[Named(sock[t])] = "closed"))
    <3>1. /\ Named(sock[t]) # None /\ srv[Named(sock[t])] # "closed"
          /\ c2s' = [c2s EXCEPT ![Named(sock[t])] =
                       Append(@, [kind |-> out[t], part |-> part[t]])]
          /\ IF part[t] < Parts
             THEN part' = [part EXCEPT ![t] = @ + 1] /\ UNCHANGED <<pc, out>>
             ELSE Prepare(t, None)
      BY <2>4 DEF SendPart
    <3>2. Prepare(t, None) => out'[t] = None
      BY <1>1 DEF Prepare, ClientTypes
    <3>3. Prepare(t, None) => pc'[t] # "send"
      BY <1>3, <1>4, <3>2 DEF Kinds
    <3> QED
      BY <1>8, <2>1, <3>1, <3>3
  <2> QED
    BY <2>3, <2>4

\* What the connections were sent stays in order, whatever is done.
LEMMA StepStray ==
  ASSUME StrayInv, [Next]_vars
  PROVE  StrayInv'
<1>1. ASSUME NEW t \in Threads, CommonStep(t)
      PROVE  StrayInv'
  <2>1. CASE GetSocket(t)
    <3>1. t = "main" \/ t = "receiver"
      OBVIOUS
    <3> QED
      BY <2>1, <3>1, MessageStray, RecvStray
  <2> QED
    BY <1>1, <2>1, SocketStray, ConnectStray, SendPartStray, RecvStray DEF CommonStep
<1>2. CASE ReceiverStep
  BY <1>1, <1>2, ReceiverStray DEF ReceiverStep
<1>3. CASE MainStep \/ UserStep
  BY <1>1, <1>3, MainStray, MessageStray DEF MainStep, UserStep
<1>4. CASE \E c \in Conns : ServerStep(c)
  BY <1>4, ServerStray
<1>5. CASE UNCHANGED vars
  <2>1. UNCHANGED <<localVars, flagVars, table, made, srv, c2s>>
    BY <1>5 DEF vars, serverVars
  <2>2. IInv'
    BY <1>5, StepIInv DEF StrayInv
  <2>3. \A c \in Conns : Ready(c)' <=> Ready(c)
    BY <2>1 DEF Ready, HelloSent
  <2>4. Introduced'
    BY <2>1, <2>3 DEF StrayInv, Introduced, localVars, flagVars
  <2> QED
    BY <2>1, <2>2, <2>4, NothingSent DEF localVars
<1> QED
  BY <1>2, <1>3, <1>4, <1>5 DEF Next

\* No connection is there when the client starts.
LEMMA InitStray == Init => StrayInv
<1> SUFFICES ASSUME Init PROVE StrayInv
  OBVIOUS
<1>1. IInv
  BY InitIInv
<1>2. Unmade
  BY DEF Init, Unmade, Conns
<1>3. Introduced
  BY DEF Init, Introduced
<1>4. OneStray
  BY DEF Init, OneStray, Unbroken, Others
<1>5. \A c \in Conns : ~ Alive(c)
  BY DEF Init, Alive, Conns
<1> QED
  BY <1>1, <1>2, <1>3, <1>4, <1>5 DEF StrayInv

\* What the main thread sends next fits what its connection was sent last, in every
\* reachable state.
THEOREM StrayInvariance == Spec => []StrayInv
<1>1. Init => StrayInv
  BY InitStray
<1>2. StrayInv /\ [Next]_vars => StrayInv'
  BY StepStray
<1> QED
  BY <1>1, <1>2, PTL DEF Spec

\* The main thread writes a message on a number it looked up before; should the number be
\* another connection's by then, that connection gets a message before its HELLO is
\* complete, or the end of one. It gets no second one: all that follows is whole, one
\* message after the other, and after the HELLO.
THEOREM StrayOnce == Spec => []OneStray
<1>1. StrayInv => OneStray
  BY DEF StrayInv
<1> QED
  BY <1>1, StrayInvariance, PTL

=============================================================================
