----------------------------- MODULE FrameServer -----------------------------
(***************************************************************************)
(* The chat server of lab 3 (3/server.cpp) and its framing (3/common.hpp): *)
(* a frame is written by three send_all() calls, its length, its type and  *)
(* its payload, and several workers write to the same socket.  The         *)
(* registry is an array of slots.                                          *)
(*                                                                         *)
(* Descriptors are the connections they stand for: SlotsOwned says that no *)
(* socket is used after its close, so a reused number does not matter.     *)
(* SIGPIPE is ignored here: a send to a client that is gone may fail.      *)
(***************************************************************************)
EXTENDS Naturals, Sequences, FiniteSets

CONSTANTS
  Conns,        \* connections, one for each (re)connect of a client
  Workers,      \* the pool's threads
  Slots,        \* MAX_CLIENTS
  Requests,     \* types a client may send in the chat, for each connection
  MaxRequests,  \* bound: requests on one connection
  None          \* no connection, frame or thread

ASSUME ServerAssumption ==
  /\ None \notin Conns \cup Workers
  /\ Slots \in Nat \ {0}
  /\ IsFiniteSet(Workers) /\ Cardinality(Workers) <= Slots
  /\ Requests \in [Conns -> SUBSET {"TEXT", "PING"}]
  /\ MaxRequests \in Nat

VARIABLES
  pc, conn,     \* stage of a worker, the connection it serves
  out,          \* the frame it is sending,
  part, pos,    \* which third of it comes next, and to which slot
  queue,        \* g_socket_queue
  slots, lock,  \* g_clients, the holder of g_clients_mutex
  isOpen,       \* server's sockets that are open
  peer,         \* the client's end
  asked,        \* requests sent
  c2s,          \* messages to the server
  s2c           \* thirds of frames sent to a client that is there

workerVars == <<pc, conn, out, part, pos>>
vars == <<workerVars, queue, slots, lock, isOpen, peer, asked, c2s, s2c>>

\* What the server sends.  JOINED, SAID, LEFT and FULL are MSG_TEXT frames.
Frame == [kind : {"WELCOME", "PONG", "JOINED", "SAID", "LEFT", "FULL"},
          of : Conns, id : Nat]

\* The three send_all() calls of send_message(); no payload of the server is empty.
Parts == 3

Goto(w, stage) == pc' = [pc EXCEPT ![w] = stage]

\* The text is composed, its sending begins.
Prepare(w, kind, id) ==
  /\ out' = [out EXCEPT ![w] = [kind |-> kind, of |-> conn[w], id |-> id]]
  /\ part' = [part EXCEPT ![w] = 1]
  /\ pos' = [pos EXCEPT ![w] = 1]

-----------------------------------------------------------------------------
(* Framing. *)

\* One send_all() of a third of the frame: it reaches a client that is there; a client
\* that is gone may swallow it or fail it.
Sent(w, c) ==
  \/ /\ peer[c] = "open"
     /\ s2c' = [s2c EXCEPT ![c] = Append(@, [frame |-> out[w], part |-> part[w]])]
  \/ peer[c] = "closed" /\ UNCHANGED s2c

Failed(c) == peer[c] = "closed" /\ UNCHANGED s2c

\* recv_message() returned a message.
Receive(w) == c2s[conn[w]] # <<>> /\ c2s' = [c2s EXCEPT ![conn[w]] = Tail(@)]
Received(w) == Head(c2s[conn[w]])

\* recv_message() failed: the client is gone, maybe in the middle of a frame.
RecvFailed(w) ==
  c2s[conn[w]] = <<>> /\ peer[conn[w]] = "closed" /\ UNCHANGED c2s

-----------------------------------------------------------------------------
(* handle_client() *)

Accept(c) ==
  /\ peer[c] = "none"
  /\ isOpen' = isOpen \cup {c}
  /\ queue' = Append(queue, c)
  /\ \/ peer' = [peer EXCEPT ![c] = "open"]
        /\ c2s' = [c2s EXCEPT ![c] = <<[type |-> "HELLO", id |-> 0]>>]
     \/ peer' = [peer EXCEPT ![c] = "closed"] /\ UNCHANGED c2s
  /\ UNCHANGED <<workerVars, slots, lock, asked, s2c>>

Pop(w) ==
  /\ pc[w] = "pop" /\ queue # <<>>
  /\ conn' = [conn EXCEPT ![w] = Head(queue)]
  /\ queue' = Tail(queue)
  /\ Goto(w, "hello")
  /\ UNCHANGED <<out, part, pos, slots, lock, isOpen, peer, asked, c2s, s2c>>

\* The first message: a HELLO is answered, anything else closes the socket.
RecvHello(w) ==
  /\ pc[w] = "hello"
  /\ \/ /\ Receive(w)
        /\ IF Received(w).type = "HELLO" THEN Prepare(w, "WELCOME", 0) /\ Goto(w, "send")
           ELSE UNCHANGED <<out, part, pos>> /\ Goto(w, "shut")
     \/ RecvFailed(w) /\ UNCHANGED <<out, part, pos>> /\ Goto(w, "shut")
  /\ UNCHANGED <<conn, queue, slots, lock, isOpen, peer, asked, s2c>>

\* Where handle_client() goes on after send_message() to its own client.
AfterSend == [WELCOME |-> "add", PONG |-> "recv", FULL |-> "shut"]

\* Mutant: a PONG that fails ends the session with no clean-up.
JustReturn == [WELCOME |-> "shut", PONG |-> "pop", FULL |-> "shut"]

AfterFailure == [WELCOME |-> "shut", PONG |-> "remove", FULL |-> "shut"]

\* send_message() to the worker's own client, with no mutex.
SendPart(w) ==
  /\ pc[w] = "send"
  /\ \/ /\ Sent(w, conn[w])
        /\ IF part[w] < Parts THEN part' = [part EXCEPT ![w] = @ + 1] /\ UNCHANGED pc
           ELSE part' = [part EXCEPT ![w] = 1] /\ Goto(w, AfterSend[out[w].kind])
     \/ /\ Failed(conn[w])
        /\ part' = [part EXCEPT ![w] = 1]
        /\ Goto(w, AfterFailure[out[w].kind])
  /\ UNCHANGED <<conn, out, pos, queue, slots, lock, isOpen, peer, asked, c2s>>

\* The slots that are not active.
FreeSlots == {i \in 1..Slots : slots[i] = None}

\* Mutant: any slot will do.
LastSlot(i) == i = Slots

\* add_client() takes the first slot that is not active.
FirstFree(i) == i \in FreeSlots /\ \A j \in FreeSlots : i <= j

AddClient(w) ==
  /\ pc[w] = "add" /\ lock = None
  /\ IF FreeSlots = {}
     THEN Prepare(w, "FULL", 0) /\ Goto(w, "send") /\ UNCHANGED slots
     ELSE /\ \E i \in 1..Slots :
               FirstFree(i) /\ slots' = [slots EXCEPT ![i] = conn[w]]
          /\ Prepare(w, "JOINED", 0) /\ Goto(w, "broadcast")
  /\ UNCHANGED <<conn, queue, lock, isOpen, peer, asked, c2s, s2c>>

\* Mutant: broadcast_message() takes no mutex.
NoMutex(w) == UNCHANGED lock

TakeMutex(w) == lock = None /\ lock' = w

BroadcastLock(w) ==
  /\ pc[w] = "broadcast" /\ TakeMutex(w)
  /\ Goto(w, "walk")
  /\ UNCHANGED <<conn, out, part, pos, queue, slots, isOpen, peer, asked, c2s, s2c>>

\* broadcast_message(): the frame goes to all active slots; a client whose socket fails
\* is passed over.
BroadcastPart(w) ==
  /\ pc[w] = "walk" /\ pos[w] <= Slots
  /\ \/ /\ slots[pos[w]] # None /\ Sent(w, slots[pos[w]]) /\ part[w] < Parts
        /\ part' = [part EXCEPT ![w] = @ + 1]
        /\ UNCHANGED pos
     \/ /\ \/ slots[pos[w]] = None /\ UNCHANGED s2c
           \/ slots[pos[w]] # None /\ Failed(slots[pos[w]])
           \/ slots[pos[w]] # None /\ Sent(w, slots[pos[w]]) /\ part[w] = Parts
        /\ part' = [part EXCEPT ![w] = 1]
        /\ pos' = [pos EXCEPT ![w] = @ + 1]
  /\ UNCHANGED <<pc, conn, out, queue, slots, lock, isOpen, peer, asked, c2s>>

\* The worker goes on with its client, or with the next one when its client has left.
BroadcastUnlock(w) ==
  /\ pc[w] = "walk" /\ pos[w] > Slots
  /\ lock' = None
  /\ out' = [out EXCEPT ![w] = None]
  /\ IF out[w].kind = "LEFT"
     THEN Goto(w, "pop") /\ conn' = [conn EXCEPT ![w] = None]
     ELSE Goto(w, "recv") /\ UNCHANGED conn
  /\ UNCHANGED <<part, pos, queue, slots, isOpen, peer, asked, c2s, s2c>>

RecvMessage(w) ==
  /\ pc[w] = "recv"
  /\ \/ /\ Receive(w)
        /\ LET m == Received(w)
           IN  CASE m.type = "TEXT" -> Prepare(w, "SAID", m.id) /\ Goto(w, "broadcast")
                 [] m.type = "PING" -> Prepare(w, "PONG", m.id) /\ Goto(w, "send")
                 [] m.type = "BYE" -> UNCHANGED <<out, part, pos>> /\ Goto(w, "remove")
                 [] OTHER -> UNCHANGED <<out, part, pos, pc>>
     \/ RecvFailed(w) /\ UNCHANGED <<out, part, pos>> /\ Goto(w, "remove")
  /\ UNCHANGED <<conn, queue, slots, lock, isOpen, peer, asked, s2c>>

\* Mutant: the slot stays active.
KeepSlot(c) == slots

\* remove_client() frees the slot of this socket.
WithoutSlot(c) == [i \in 1..Slots |-> IF slots[i] = c THEN None ELSE slots[i]]

RemoveClient(w) ==
  /\ pc[w] = "remove" /\ lock = None
  /\ slots' = WithoutSlot(conn[w])
  /\ Goto(w, "close")
  /\ UNCHANGED <<conn, out, part, pos, queue, lock, isOpen, peer, asked, c2s, s2c>>

\* The client has left: its socket is closed, then all others are told.
CloseLeft(w) ==
  /\ pc[w] = "close"
  /\ isOpen' = isOpen \ {conn[w]}
  /\ Prepare(w, "LEFT", 0) /\ Goto(w, "broadcast")
  /\ UNCHANGED <<conn, queue, slots, lock, peer, asked, c2s, s2c>>

\* The client never was in the chat: its socket is closed.
CloseUnknown(w) ==
  /\ pc[w] = "shut"
  /\ isOpen' = isOpen \ {conn[w]}
  /\ conn' = [conn EXCEPT ![w] = None]
  /\ out' = [out EXCEPT ![w] = None]
  /\ Goto(w, "pop")
  /\ UNCHANGED <<part, pos, queue, slots, lock, peer, asked, c2s, s2c>>

-----------------------------------------------------------------------------
(* The clients. *)

\* recv_message() has read a whole WELCOME.
Welcomed(c) ==
  Len(s2c[c]) >= Parts /\ \A k \in 1..Parts : s2c[c][k].frame.kind = "WELCOME"

ClientSend(c, type) ==
  /\ c2s' = [c2s EXCEPT ![c] = Append(@, [type |-> type, id |-> asked[c]])]
  /\ asked' = [asked EXCEPT ![c] = @ + 1]

Close(c) ==
  /\ peer' = [peer EXCEPT ![c] = "closed"]
  /\ s2c' = [s2c EXCEPT ![c] = <<>>]

\* A line of text or a /ping.
ClientRequest(c, type) ==
  /\ peer[c] = "open" /\ Welcomed(c) /\ asked[c] < MaxRequests
  /\ ClientSend(c, type)
  /\ UNCHANGED <<workerVars, queue, slots, lock, isOpen, peer, s2c>>

\* /quit
ClientQuit(c) ==
  /\ peer[c] = "open" /\ Welcomed(c)
  /\ ClientSend(c, "BYE")
  /\ Close(c)
  /\ UNCHANGED <<workerVars, queue, slots, lock, isOpen>>

\* The end of the input, a kill, or a stream the client cannot read.
ClientClose(c) ==
  /\ peer[c] = "open"
  /\ Close(c)
  /\ UNCHANGED <<workerVars, queue, slots, lock, isOpen, asked, c2s>>

-----------------------------------------------------------------------------
Init ==
  /\ pc = [w \in Workers |-> "pop"]
  /\ conn = [w \in Workers |-> None]
  /\ out = [w \in Workers |-> None]
  /\ part = [w \in Workers |-> 1]
  /\ pos = [w \in Workers |-> 1]
  /\ queue = <<>>
  /\ slots = [i \in 1..Slots |-> None]
  /\ lock = None
  /\ isOpen = {}
  /\ peer = [c \in Conns |-> "none"]
  /\ asked = [c \in Conns |-> 0]
  /\ c2s = [c \in Conns |-> <<>>]
  /\ s2c = [c \in Conns |-> <<>>]

WorkerStep(w) ==
  \/ Pop(w) \/ RecvHello(w) \/ SendPart(w) \/ AddClient(w) \/ BroadcastLock(w)
  \/ BroadcastPart(w) \/ BroadcastUnlock(w) \/ RecvMessage(w) \/ RemoveClient(w)
  \/ CloseLeft(w) \/ CloseUnknown(w)

ClientStep(c) ==
  \/ \E type \in Requests[c] : ClientRequest(c, type)
  \/ ClientQuit(c)
  \/ ClientClose(c)

Next ==
  \/ \E c \in Conns : Accept(c) \/ ClientStep(c)
  \/ \E w \in Workers : WorkerStep(w)

Spec == Init /\ [][Next]_vars

-----------------------------------------------------------------------------
Stages == {"pop", "hello", "send", "shut", "add", "broadcast", "walk", "recv", "remove",
           "close"}
Message == [type : {"HELLO", "TEXT", "PING", "BYE"}, id : Nat]

\* Every variable has its type; a worker has a connection unless it waits for one, and a
\* frame when it sends one.
TypeOK ==
  /\ pc \in [Workers -> Stages]
  /\ conn \in [Workers -> Conns \cup {None}]
  /\ out \in [Workers -> Frame \cup {None}]
  /\ part \in [Workers -> 1..Parts]
  /\ pos \in [Workers -> 1..(Slots + 1)]
  /\ queue \in Seq(Conns)
  /\ slots \in [1..Slots -> Conns \cup {None}]
  /\ lock \in Workers \cup {None}
  /\ isOpen \subseteq Conns
  /\ peer \in [Conns -> {"none", "open", "closed"}]
  /\ asked \in [Conns -> Nat]
  /\ c2s \in [Conns -> Seq(Message)]
  /\ s2c \in [Conns -> Seq([frame : Frame, part : 1..Parts])]
  /\ \A w \in Workers : pc[w] = "pop" <=> conn[w] = None
  /\ \A w \in Workers : pc[w] \in {"send", "broadcast", "walk"} => out[w] \in Frame

\* Is the worker's client in the chat?
Member(w) ==
  \/ pc[w] \in {"recv", "remove"}
  \/ pc[w] \in {"broadcast", "walk"} /\ out[w].kind # "LEFT"
  \/ pc[w] = "send" /\ out[w].kind = "PONG"

\* A slot is active exactly for the connections whose workers have added and not yet
\* removed them; it is the only one, and its socket is open.
SlotsOwned ==
  /\ \A c \in Conns :
       (\E i \in 1..Slots : slots[i] = c) <=> (\E w \in Workers : conn[w] = c /\ Member(w))
  /\ \A i, j \in 1..Slots : slots[i] = slots[j] /\ slots[i] # None => i = j
  /\ \A i \in 1..Slots : slots[i] # None => slots[i] \in isOpen

\* With no fewer slots than workers nobody is told that the server is full.
NobodyTurnedAway == \A w \in Workers : pc[w] = "send" => out[w].kind # "FULL"

-----------------------------------------------------------------------------
(* What the clients read. *)

\* The thirds at these places of a stream make whole frames, the last one perhaps not
\* complete.
Whole(s, places) ==
  \A k \in places :
    /\ (\A j \in places : k <= j) => s[k].part = 1
    /\ \A j \in places : j < k /\ (\A i \in places : i <= j \/ k <= i) =>
         IF s[j].part = Parts THEN s[k].part = 1
         ELSE s[k].frame = s[j].frame /\ s[k].part = s[j].part + 1

\* Where the thirds of PONGs are, and where those of all else.
Places(c, pong) == {k \in DOMAIN s2c[c] : (s2c[c][k].frame.kind = "PONG") = pong}

\* Only a PONG, which its worker sends without the mutex, can tear a frame on its way to a
\* client or be torn: all that is broadcast, by whatever workers, arrives frame by frame,
\* and so do the PONGs by themselves.
BroadcastsWhole == \A c \in Conns : \A pong \in BOOLEAN : Whole(s2c[c], Places(c, pong))

\* Where in its stream a client is told something by a broadcast.
Told(c) ==
  {k \in DOMAIN s2c[c] :
     s2c[c][k].part = 1 /\ s2c[c][k].frame.kind \in {"JOINED", "SAID", "LEFT"}}

\* All clients hear the chat in one order, nothing twice, and of two things that both heard
\* neither hears one between them that the other does not.
SameOrder ==
  \A c, d \in Conns : \A k1, k2 \in Told(c), l1, l2 \in Told(d) :
    s2c[c][k1] = s2c[d][l1] /\ s2c[c][k2] = s2c[d][l2] /\ k1 < k2 =>
      /\ l1 < l2
      /\ \A k \in Told(c) : k1 < k /\ k < k2 =>
           \E l \in Told(d) : l1 < l /\ l < l2 /\ s2c[d][l] = s2c[c][k]

\* Whoever is told that a client has left is told nothing of it afterwards, and the client
\* is in no slot and its socket is closed by then.
LeftIsGone ==
  \A c, d \in Conns : \A k \in Told(d) :
    s2c[d][k].frame.kind = "LEFT" /\ s2c[d][k].frame.of = c =>
      /\ c \notin isOpen
      /\ \A i \in 1..Slots : slots[i] # c
      /\ \A l \in Told(d) : l > k => s2c[d][l].frame.of # c

=============================================================================
