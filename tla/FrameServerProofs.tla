-------------------------- MODULE FrameServerProofs --------------------------
(***************************************************************************)
(* Proofs about FrameServer.  Each connection is served by one worker and  *)
(* has one slot while its client is in the chat, and with no fewer slots   *)
(* than workers there is always a free one.  Only one broadcast at a time  *)
(* goes through the slots: all clients are told in one order, nothing is   *)
(* told of a client after its LEAVE, and a client is sent whole frames.    *)
(***************************************************************************)
EXTENDS FrameServer, ListLemmas, FiniteSetTheorems

USE ServerAssumption

\* A worker sends to its own client only what send_message() is called for there.
FramesFit ==
  /\ \A w \in Workers : pc[w] = "send" => out[w].kind \in {"WELCOME", "PONG", "FULL"}
  /\ \A w \in Workers : pc[w] \in {"broadcast", "walk"} =>
       out[w].kind \in {"JOINED", "SAID", "LEFT"}

\* Its client has left, and its socket was closed before the others are told.
Leaving(w) == pc[w] \in {"broadcast", "walk"} /\ out[w].kind = "LEFT"

\* A connection waits once or is served by one worker, its socket open until that worker
\* closes it; one that was not accepted is nowhere.
Served ==
  /\ \A c \in Conns : peer[c] = "none" =>
       c \notin Range(queue) /\ c \notin isOpen /\ \A w \in Workers : conn[w] # c
  /\ \A i, j \in DOMAIN queue : queue[i] = queue[j] => i = j
  /\ \A w \in Workers : conn[w] \notin Range(queue)
  /\ \A v, w \in Workers : conn[v] = conn[w] /\ conn[v] # None => v = w
  /\ \A c \in Range(queue) : c \in isOpen
  /\ \A w \in Workers : conn[w] # None /\ ~ Leaving(w) => conn[w] \in isOpen

\* The inductive invariant.
IInv == TypeOK /\ FramesFit /\ Served /\ SlotsOwned

-----------------------------------------------------------------------------
(* Types. *)

\* A frame that is composed is one, and is sent from its beginning.
LEMMA PrepareTypes ==
  ASSUME TypeOK, NEW w \in Workers, pc[w] # "pop", NEW id \in Nat,
         NEW kind \in {"WELCOME", "PONG", "JOINED", "SAID", "LEFT", "FULL"}, Prepare(w, kind, id)
  PROVE  /\ out' \in [Workers -> Frame \cup {None}] /\ out'[w] \in Frame /\ out'[w].kind = kind
         /\ out'[w].of = conn[w]
         /\ part' \in [Workers -> 1..Parts] /\ pos' \in [Workers -> 1..(Slots + 1)]
         /\ \A v \in Workers : v # w => out'[v] = out[v]
<1>1. conn[w] \in Conns
  BY DEF TypeOK
<1> QED
  BY <1>1 DEF TypeOK, Prepare, Frame, Parts

\* What is received is a message.
LEMMA ReceiveTypes ==
  ASSUME TypeOK, NEW w \in Workers, pc[w] # "pop", Receive(w)
  PROVE  Received(w) \in Message /\ c2s' \in [Conns -> Seq(Message)]
<1>1. conn[w] \in Conns /\ c2s[conn[w]] \in Seq(Message)
  BY DEF TypeOK
<1> QED
  BY <1>1, HeadTailProperties DEF TypeOK, Receive, Received

\* What is sent are thirds of frames.
LEMMA SentTypes ==
  ASSUME TypeOK, NEW w \in Workers, out[w] \in Frame, NEW c \in Conns,
         Sent(w, c) \/ Failed(c) \/ UNCHANGED s2c
  PROVE  s2c' \in [Conns -> Seq([frame : Frame, part : 1..Parts])]
<1>1. [frame |-> out[w], part |-> part[w]] \in [frame : Frame, part : 1..Parts]
  BY DEF TypeOK
<1>2. s2c[c] \in Seq([frame : Frame, part : 1..Parts])
  BY DEF TypeOK
<1>3. Append(s2c[c], [frame |-> out[w], part |-> part[w]]) \in Seq([frame : Frame, part : 1..Parts])
  BY <1>1, <1>2, AppendProperties
<1> QED
  BY <1>3 DEF TypeOK, Sent, Failed

\* The two parts of TypeOK.
VarTypes ==
  /\ pc \in [Workers -> Stages]
  /\ conn \in [Workers -> Conns \cup {None}]
  /\ out \in [Workers -> Frame \cup {None}]
  /\ part \in [Workers -> 1..Parts]
  /\ pos \in [Workers -> 1..(Slots + 1)]
  /\ queue \in Seq(Conns)
  /\ slots \in [1..Slots -> Conns \cup {None}]
  /\ lock \in Workers \cup {None}
  /\ isOpen \subseteq Conns
  /\ peer \in [Conns -> {"none", "open", "closed"}]
  /\ asked \in [Conns -> Nat]
  /\ c2s \in [Conns -> Seq(Message)]
  /\ s2c \in [Conns -> Seq([frame : Frame, part : 1..Parts])]

LocalsSet ==
  \A w \in Workers :
    /\ pc[w] = "pop" <=> conn[w] = None
    /\ pc[w] \in {"send", "broadcast", "walk"} => out[w] \in Frame

\* TypeOK is what it says of the variables, and what it says of a worker's stage.
LEMMA TypeParts == TypeOK <=> VarTypes /\ LocalsSet
  BY DEF TypeOK, VarTypes, LocalsSet

\* The counts of thirds and of slots stay in their ranges.
LEMMA PartTypes ==
  ASSUME part \in [Workers -> 1..Parts], NEW w \in Workers,
         \/ part' = [part EXCEPT ![w] = @ + 1] /\ part[w] < Parts
         \/ part' = [part EXCEPT ![w] = 1]
  PROVE  part' \in [Workers -> 1..Parts]
<1>1. part[w] \in 1..Parts /\ 1 \in 1..Parts
  BY DEF Parts
<1>2. part[w] < Parts => part[w] + 1 \in 1..Parts
  BY <1>1 DEF Parts
<1> QED
  BY <1>1, <1>2

\* The walk over the slots ends one place after the last.
LEMMA PosTypes ==
  ASSUME pos \in [Workers -> 1..(Slots + 1)], NEW w \in Workers, pos[w] <= Slots,
         pos' = [pos EXCEPT ![w] = @ + 1]
  PROVE  pos' \in [Workers -> 1..(Slots + 1)]
<1>1. Slots \in Nat /\ pos[w] \in 1..(Slots + 1)
  OBVIOUS
<1>2. pos[w] + 1 \in 1..(Slots + 1)
  BY <1>1
<1> QED
  BY <1>2

\* A worker sends to its own client, from the first third to the last, and goes on.
LEMMA SendPartCases ==
  ASSUME TypeOK, FramesFit, NEW w \in Workers, SendPart(w)
  PROVE  /\ pc[w] = "send" /\ conn[w] \in Conns /\ out[w] \in Frame
         /\ UNCHANGED <<conn, out, pos, queue, slots, lock, isOpen, peer, asked, c2s>>
         /\ s2c' \in [Conns -> Seq([frame : Frame, part : 1..Parts])]
         /\ part' \in [Workers -> 1..Parts]
         /\ \/ UNCHANGED pc
            \/ out[w].kind = "WELCOME" /\ pc' = [pc EXCEPT ![w] = "add"]
            \/ out[w].kind = "PONG" /\ pc' = [pc EXCEPT ![w] = "recv"]
            \/ out[w].kind = "PONG" /\ pc' = [pc EXCEPT ![w] = "remove"]
            \/ out[w].kind # "PONG" /\ pc' = [pc EXCEPT ![w] = "shut"]
<1>1. pc[w] = "send" /\ conn[w] \in Conns /\ out[w] \in Frame
  BY DEF SendPart, TypeOK
<1>2. out[w].kind \in {"WELCOME", "PONG", "FULL"}
  BY <1>1 DEF FramesFit
<1>3. s2c' \in [Conns -> Seq([frame : Frame, part : 1..Parts])]
  BY <1>1, SentTypes DEF SendPart
<1>4. part' \in [Workers -> 1..Parts]
  <2>1. \/ part' = [part EXCEPT ![w] = @ + 1] /\ part[w] < Parts
        \/ part' = [part EXCEPT ![w] = 1]
    BY DEF SendPart
  <2> QED
    BY <2>1, PartTypes DEF TypeOK
<1>5. UNCHANGED <<conn, out, pos, queue, slots, lock, isOpen, peer, asked, c2s>>
  BY DEF SendPart
<1>6. \/ UNCHANGED pc
      \/ pc' = [pc EXCEPT ![w] = AfterSend[out[w].kind]]
      \/ pc' = [pc EXCEPT ![w] = AfterFailure[out[w].kind]]
  BY DEF SendPart, Goto
<1>7. \/ UNCHANGED pc
      \/ out[w].kind = "WELCOME" /\ pc' = [pc EXCEPT ![w] = "add"]
      \/ out[w].kind = "PONG" /\ pc' = [pc EXCEPT ![w] = "recv"]
      \/ out[w].kind = "PONG" /\ pc' = [pc EXCEPT ![w] = "remove"]
      \/ out[w].kind # "PONG" /\ pc' = [pc EXCEPT ![w] = "shut"]
  <2>1. CASE out[w].kind = "WELCOME"
    BY <1>6, <2>1 DEF AfterSend, AfterFailure
  <2>2. CASE out[w].kind = "PONG"
    BY <1>6, <2>2 DEF AfterSend, AfterFailure
  <2>3. CASE out[w].kind = "FULL"
    BY <1>6, <2>3 DEF AfterSend, AfterFailure
  <2> QED
    BY <1>2, <2>1, <2>2, <2>3
<1> QED
  BY <1>1, <1>3, <1>4, <1>5, <1>7

\* A broadcast goes on to the next third, or to the next slot.
LEMMA BroadcastPartTypes ==
  ASSUME TypeOK, NEW w \in Workers, BroadcastPart(w)
  PROVE  /\ s2c' \in [Conns -> Seq([frame : Frame, part : 1..Parts])]
         /\ part' \in [Workers -> 1..Parts] /\ pos' \in [Workers -> 1..(Slots + 1)]
<1>1. out[w] \in Frame /\ pos[w] \in 1..Slots /\ Slots \in Nat
  BY DEF BroadcastPart, TypeOK
<1>2. s2c' \in [Conns -> Seq([frame : Frame, part : 1..Parts])]
  <2>1. slots[pos[w]] \in Conns \cup {None}
    BY <1>1 DEF TypeOK
  <2>2. CASE UNCHANGED s2c
    BY <2>2 DEF TypeOK
  <2> QED
    BY <1>1, <2>1, <2>2, SentTypes DEF BroadcastPart
<1>3. /\ pos[w] <= Slots
      /\ \/ part' = [part EXCEPT ![w] = @ + 1] /\ part[w] < Parts /\ UNCHANGED pos
         \/ part' = [part EXCEPT ![w] = 1] /\ pos' = [pos EXCEPT ![w] = @ + 1]
  BY DEF BroadcastPart
<1>4. part' \in [Workers -> 1..Parts]
  BY <1>3, PartTypes DEF TypeOK
<1>5. pos' \in [Workers -> 1..(Slots + 1)]
  BY <1>3, PosTypes DEF TypeOK
<1> QED
  BY <1>2, <1>4, <1>5

\* What a worker does with a message of its client.
LEMMA RecvMessageCases ==
  ASSUME TypeOK, NEW w \in Workers, RecvMessage(w)
  PROVE  /\ c2s' \in [Conns -> Seq(Message)]
         /\ pc[w] = "recv" /\ UNCHANGED <<conn, queue, slots, lock, isOpen, peer, asked, s2c>>
         /\ \/ \E id \in Nat : Prepare(w, "SAID", id) /\ pc' = [pc EXCEPT ![w] = "broadcast"]
            \/ \E id \in Nat : Prepare(w, "PONG", id) /\ pc' = [pc EXCEPT ![w] = "send"]
            \/ UNCHANGED <<out, part, pos>> /\ pc' = [pc EXCEPT ![w] = "remove"]
            \/ UNCHANGED <<out, part, pos, pc>>
<1>1. pc[w] = "recv" /\ UNCHANGED <<conn, queue, slots, lock, isOpen, peer, asked, s2c>>
  BY DEF RecvMessage
<1>2. CASE Receive(w)
  <2>1. Received(w).id \in Nat /\ c2s' \in [Conns -> Seq(Message)]
    BY <1>1, <1>2, ReceiveTypes DEF Message
  <2>2. CASE Received(w).type = "TEXT"
    BY <1>1, <2>1, <2>2 DEF RecvMessage, Goto, RecvFailed, Receive
  <2>3. CASE Received(w).type = "PING"
    BY <1>1, <2>1, <2>3 DEF RecvMessage, Goto, RecvFailed, Receive
  <2>4. CASE Received(w).type \notin {"TEXT", "PING"}
    BY <1>1, <2>1, <2>4 DEF RecvMessage, Goto, RecvFailed, Receive
  <2> QED
    BY <2>2, <2>3, <2>4
<1>3. CASE RecvFailed(w)
  BY <1>1, <1>3 DEF RecvMessage, RecvFailed, Goto, Receive, TypeOK
<1> QED
  BY <1>2, <1>3 DEF RecvMessage

\* The steps of a worker keep the types.
LEMMA WorkerVarTypes ==
  ASSUME TypeOK, FramesFit, NEW w \in Workers, WorkerStep(w)
  PROVE  VarTypes'
<1>0. VarTypes
  BY TypeParts
<1> USE DEF Goto, Stages, VarTypes
<1>1. CASE Pop(w)
  <2>1. Head(queue) \in Conns /\ Tail(queue) \in Seq(Conns)
    BY <1>0, <1>1, HeadTailProperties DEF Pop
  <2> QED
    BY <1>0, <1>1, <2>1 DEF Pop
<1>2. CASE RecvHello(w)
  <2>1. pc[w] = "hello"
    BY <1>2 DEF RecvHello
  <2>2. c2s' \in [Conns -> Seq(Message)]
    BY <1>0, <1>2, <2>1, ReceiveTypes DEF RecvHello, RecvFailed
  <2>3. /\ out' \in [Workers -> Frame \cup {None}] /\ part' \in [Workers -> 1..Parts]
        /\ pos' \in [Workers -> 1..(Slots + 1)]
    BY <1>0, <1>2, <2>1, PrepareTypes DEF RecvHello
  <2> QED
    BY <1>0, <1>2, <2>2, <2>3 DEF RecvHello
<1>3. CASE SendPart(w)
  BY <1>0, <1>3, SendPartCases
<1>4. CASE AddClient(w)
  <2>1. pc[w] = "add" /\ conn[w] \in Conns
    BY <1>4 DEF AddClient, TypeOK
  <2>2. slots' \in [1..Slots -> Conns \cup {None}]
    BY <1>0, <1>4, <2>1 DEF AddClient
  <2>3. /\ out' \in [Workers -> Frame \cup {None}] /\ part' \in [Workers -> 1..Parts]
        /\ pos' \in [Workers -> 1..(Slots + 1)]
    BY <1>4, <2>1, PrepareTypes DEF AddClient
  <2> QED
    BY <1>0, <1>4, <2>2, <2>3 DEF AddClient
<1>5. CASE BroadcastLock(w)
  BY <1>0, <1>5 DEF BroadcastLock, TakeMutex
<1>6. CASE BroadcastPart(w)
  BY <1>0, <1>6, BroadcastPartTypes DEF BroadcastPart
<1>7. CASE BroadcastUnlock(w)
  BY <1>0, <1>7 DEF BroadcastUnlock
<1>8. CASE RecvMessage(w)
  <2>1. /\ out' \in [Workers -> Frame \cup {None}] /\ part' \in [Workers -> 1..Parts]
        /\ pos' \in [Workers -> 1..(Slots + 1)]
    BY <1>0, <1>8, RecvMessageCases, PrepareTypes
  <2> QED
    BY <1>0, <1>8, <2>1, RecvMessageCases
<1>9. CASE RemoveClient(w)
  BY <1>0, <1>9 DEF RemoveClient, WithoutSlot
<1>10. CASE CloseLeft(w)
  <2>1. /\ out' \in [Workers -> Frame \cup {None}] /\ part' \in [Workers -> 1..Parts]
        /\ pos' \in [Workers -> 1..(Slots + 1)]
    BY <1>10, PrepareTypes DEF CloseLeft
  <2> QED
    BY <1>0, <1>10, <2>1 DEF CloseLeft
<1>11. CASE CloseUnknown(w)
  BY <1>0, <1>11 DEF CloseUnknown
<1> QED
  BY <1>1, <1>2, <1>3, <1>4, <1>5, <1>6, <1>7, <1>8, <1>9, <1>10, <1>11 DEF WorkerStep

\* What a step of a worker does to its own stage, connection and frame.
WorkerMoves(w) ==
  \/ pc[w] = "pop" /\ pc'[w] = "hello" /\ conn'[w] \in Conns /\ out'[w] = out[w]
  \/ /\ conn'[w] = conn[w] /\ pc[w] # "pop" /\ pc'[w] # "pop"
     /\ \/ out'[w] \in Frame /\ out'[w].of = conn[w]
           /\ \/ pc[w] = "hello" /\ pc'[w] = "send" /\ out'[w].kind = "WELCOME"
              \/ pc[w] = "add" /\ pc'[w] = "send" /\ out'[w].kind = "FULL"
              \/ pc[w] = "add" /\ pc'[w] = "broadcast" /\ out'[w].kind = "JOINED"
              \/ pc[w] = "recv" /\ pc'[w] = "broadcast" /\ out'[w].kind = "SAID"
              \/ pc[w] = "recv" /\ pc'[w] = "send" /\ out'[w].kind = "PONG"
              \/ pc[w] = "close" /\ pc'[w] = "broadcast" /\ out'[w].kind = "LEFT"
        \/ out'[w] = out[w]
           /\ \/ pc'[w] = pc[w]
              \/ pc[w] = "hello" /\ pc'[w] = "shut"
              \/ pc[w] = "send" /\ out[w].kind = "WELCOME" /\ pc'[w] = "add"
              \/ pc[w] = "send" /\ out[w].kind # "PONG" /\ pc'[w] = "shut"
              \/ pc[w] = "send" /\ out[w].kind = "PONG" /\ pc'[w] \in {"recv", "remove"}
              \/ pc[w] = "broadcast" /\ pc'[w] = "walk"
              \/ pc[w] = "recv" /\ pc'[w] = "remove"
              \/ pc[w] = "remove" /\ pc'[w] = "close"
        \/ pc[w] = "walk" /\ out[w].kind # "LEFT" /\ pc'[w] = "recv" /\ out'[w] = None
  \/ pc[w] = "walk" /\ out[w].kind = "LEFT" /\ pc'[w] = "pop" /\ conn'[w] = None
  \/ pc[w] = "shut" /\ pc'[w] = "pop" /\ conn'[w] = None

\* Those of the others stay.
LEMMA WorkerCases ==
  ASSUME TypeOK, FramesFit, NEW w \in Workers, WorkerStep(w)
  PROVE  /\ WorkerMoves(w)
         /\ \A v \in Workers : v # w => pc'[v] = pc[v] /\ conn'[v] = conn[v] /\ out'[v] = out[v]
<1> DEFINE OthersStay ==
             \A v \in Workers : v # w => pc'[v] = pc[v] /\ conn'[v] = conn[v] /\ out'[v] = out[v]
<1>0. VarTypes
  BY TypeParts
<1> USE DEF Goto, WorkerMoves, VarTypes
<1>1. CASE Pop(w)
  <2>1. Head(queue) \in Conns
    BY <1>0, <1>1, HeadTailProperties DEF Pop
  <2> QED
    BY <1>0, <1>1, <2>1 DEF Pop
<1>2. CASE RecvHello(w)
  <2>1. pc[w] = "hello" /\ conn' = conn
    BY <1>2 DEF RecvHello
  <2>2. CASE Prepare(w, "WELCOME", 0) /\ pc' = [pc EXCEPT ![w] = "send"]
    BY <1>0, <2>1, <2>2, PrepareTypes
  <2>3. CASE UNCHANGED out /\ pc' = [pc EXCEPT ![w] = "shut"]
    BY <1>0, <2>1, <2>3
  <2> QED
    BY <1>2, <2>2, <2>3 DEF RecvHello
<1>3. CASE SendPart(w)
  <2>1. pc[w] = "send" /\ UNCHANGED <<conn, out>>
    BY <1>3, SendPartCases
  <2> QED
    BY <1>0, <1>3, <2>1, SendPartCases
<1>4. CASE AddClient(w)
  <2>1. pc[w] = "add" /\ conn' = conn
    BY <1>4 DEF AddClient
  <2>2. CASE Prepare(w, "FULL", 0) /\ pc' = [pc EXCEPT ![w] = "send"]
    BY <1>0, <2>1, <2>2, PrepareTypes
  <2>3. CASE Prepare(w, "JOINED", 0) /\ pc' = [pc EXCEPT ![w] = "broadcast"]
    BY <1>0, <2>1, <2>3, PrepareTypes
  <2> QED
    BY <1>4, <2>2, <2>3 DEF AddClient
<1>5. CASE BroadcastLock(w) \/ RemoveClient(w) \/ BroadcastPart(w)
  BY <1>0, <1>5 DEF BroadcastLock, RemoveClient, BroadcastPart
<1>6. CASE BroadcastUnlock(w)
  BY <1>0, <1>6 DEF BroadcastUnlock
<1>7. CASE RecvMessage(w)
  <2>1. pc[w] = "recv" /\ conn' = conn
    BY <1>7, RecvMessageCases
  <2>2. ASSUME NEW id \in Nat, Prepare(w, "SAID", id), pc' = [pc EXCEPT ![w] = "broadcast"]
        PROVE  WorkerMoves(w) /\ OthersStay
    BY <1>0, <2>1, <2>2, PrepareTypes
  <2>3. ASSUME NEW id \in Nat, Prepare(w, "PONG", id), pc' = [pc EXCEPT ![w] = "send"]
        PROVE  WorkerMoves(w) /\ OthersStay
    BY <1>0, <2>1, <2>3, PrepareTypes
  <2>4. CASE UNCHANGED out /\ (pc' = [pc EXCEPT ![w] = "remove"] \/ UNCHANGED pc)
    BY <1>0, <2>1, <2>4
  <2> QED
    BY <1>7, <2>2, <2>3, <2>4, RecvMessageCases
<1>8. CASE CloseLeft(w)
  <2>1. pc[w] = "close" /\ conn' = conn /\ Prepare(w, "LEFT", 0)
        /\ pc' = [pc EXCEPT ![w] = "broadcast"]
    BY <1>8 DEF CloseLeft
  <2> QED
    BY <1>0, <2>1, PrepareTypes
<1>9. CASE CloseUnknown(w)
  BY <1>0, <1>9 DEF CloseUnknown
<1> QED
  BY <1>1, <1>2, <1>3, <1>4, <1>5, <1>6, <1>7, <1>8, <1>9 DEF WorkerStep

\* A worker has a connection and a frame when its stage needs one, and the frame fits.
LEMMA LocalsStep ==
  ASSUME TypeOK, FramesFit, NEW w \in Workers, WorkerStep(w)
  PROVE  LocalsSet' /\ FramesFit'
<1>0. LocalsSet
  BY TypeParts
<1>1. ASSUME NEW v \in Workers, v # w
      PROVE  /\ pc'[v] = "pop" <=> conn'[v] = None
             /\ pc'[v] \in {"send", "broadcast", "walk"} => out'[v] \in Frame
             /\ pc'[v] = "send" => out'[v].kind \in {"WELCOME", "PONG", "FULL"}
             /\ pc'[v] \in {"broadcast", "walk"} => out'[v].kind \in {"JOINED", "SAID", "LEFT"}
  BY <1>0, <1>1, WorkerCases DEF LocalsSet, FramesFit
<1>2. WorkerMoves(w)
  BY WorkerCases
<1>3. pc'[w] = "pop" <=> conn'[w] = None
  BY <1>0, <1>2 DEF WorkerMoves, LocalsSet
<1>4. pc'[w] \in {"send", "broadcast", "walk"} => out'[w] \in Frame
  BY <1>0, <1>2 DEF WorkerMoves, LocalsSet
<1>5. /\ pc'[w] = "send" => out'[w].kind \in {"WELCOME", "PONG", "FULL"}
      /\ pc'[w] \in {"broadcast", "walk"} => out'[w].kind \in {"JOINED", "SAID", "LEFT"}
  BY <1>2 DEF WorkerMoves, FramesFit
<1> QED
  BY <1>1, <1>3, <1>4, <1>5 DEF LocalsSet, FramesFit

\* So do the steps that are none of a worker.
LEMMA OtherTypes ==
  ASSUME TypeOK, FramesFit, NEW c \in Conns, Accept(c) \/ ClientStep(c)
  PROVE  TypeOK' /\ FramesFit'
<1>0. VarTypes /\ LocalsSet
  BY TypeParts
<1>1. UNCHANGED workerVars /\ UNCHANGED <<slots, lock>>
  BY DEF Accept, ClientStep, ClientRequest, ClientQuit, ClientClose, workerVars
<1>2. LocalsSet' /\ FramesFit'
  BY <1>0, <1>1 DEF LocalsSet, FramesFit, workerVars
<1>3. /\ queue' \in Seq(Conns) /\ isOpen' \subseteq Conns
      /\ peer' \in [Conns -> {"none", "open", "closed"}]
  <2>1. Append(queue, c) \in Seq(Conns)
    BY <1>0, AppendProperties DEF VarTypes
  <2> QED
    BY <1>0, <2>1 DEF VarTypes, Accept, ClientStep, ClientRequest, ClientQuit, ClientClose, Close
<1>4. asked' \in [Conns -> Nat]
  <2>1. UNCHANGED asked \/ asked' = [asked EXCEPT ![c] = @ + 1]
    BY DEF Accept, ClientStep, ClientRequest, ClientQuit, ClientClose, ClientSend
  <2>2. asked \in [Conns -> Nat] /\ asked[c] + 1 \in Nat
    BY <1>0 DEF VarTypes
  <2> QED
    BY <2>1, <2>2
<1>5. c2s' \in [Conns -> Seq(Message)]
  <2>1. ASSUME NEW type \in {"TEXT", "PING", "BYE"}, ClientSend(c, type)
        PROVE  c2s' \in [Conns -> Seq(Message)]
    <3>1. [type |-> type, id |-> asked[c]] \in Message
      BY <1>0 DEF VarTypes, Message
    <3>2. Append(c2s[c], [type |-> type, id |-> asked[c]]) \in Seq(Message)
      BY <1>0, <3>1, AppendProperties DEF VarTypes
    <3> QED
      BY <1>0, <2>1, <3>2 DEF VarTypes, ClientSend
  <2>2. CASE \E type \in Requests[c] : ClientRequest(c, type)
    BY <2>1, <2>2 DEF ClientRequest
  <2>3. CASE ClientQuit(c)
    BY <2>1, <2>3 DEF ClientQuit
  <2>4. CASE ClientClose(c)
    BY <1>0, <2>4 DEF ClientClose, VarTypes
  <2>5. CASE Accept(c)
    <3>1. <<[type |-> "HELLO", id |-> 0]>> \in Seq(Message)
      BY DEF Message
    <3> QED
      BY <1>0, <2>5, <3>1 DEF Accept, VarTypes
  <2> QED
    BY <2>2, <2>3, <2>4, <2>5 DEF ClientStep
<1>6. s2c' \in [Conns -> Seq([frame : Frame, part : 1..Parts])]
  <2>1. UNCHANGED s2c \/ s2c' = [s2c EXCEPT ![c] = <<>>]
    BY DEF Accept, ClientStep, ClientRequest, ClientQuit, ClientClose, Close
  <2> DEFINE Thirds == Seq([frame : Frame, part : 1..Parts])
  <2>2. s2c \in [Conns -> Thirds] /\ <<>> \in Thirds
    BY <1>0, EmptySeq DEF VarTypes
  <2> HIDE DEF Thirds
  <2>3. s2c' \in [Conns -> Thirds]
    BY <2>1, <2>2
  <2> QED
    BY <2>3 DEF Thirds
<1>7. VarTypes'
  BY <1>0, <1>1, <1>3, <1>4, <1>5, <1>6 DEF VarTypes, workerVars
<1>8. TypeOK'
  BY <1>2, <1>7 DEF TypeOK, VarTypes, LocalsSet
<1> QED
  BY <1>2, <1>8

\* Every step keeps the types.
LEMMA TypeStep ==
  ASSUME TypeOK, FramesFit, Next
  PROVE  TypeOK' /\ FramesFit'
<1>1. ASSUME NEW w \in Workers, WorkerStep(w)
      PROVE  TypeOK' /\ FramesFit'
  <2>1. VarTypes' /\ LocalsSet' /\ FramesFit'
    BY <1>1, WorkerVarTypes, LocalsStep
  <2> QED
    BY <2>1 DEF TypeOK, VarTypes, LocalsSet
<1> QED
  BY <1>1, OtherTypes DEF Next

-----------------------------------------------------------------------------
(* Sockets. *)

\* A connection that is accepted is new; it waits for a worker.
LEMMA AcceptServed ==
  ASSUME TypeOK, Served, NEW c \in Conns, Accept(c)
  PROVE  Served'
<1>1. /\ c \notin Range(queue) /\ c \notin isOpen /\ \A w \in Workers : conn[w] # c
      /\ queue \in Seq(Conns)
  BY DEF Accept, Served, TypeOK
<1>2. /\ queue' = Append(queue, c) /\ isOpen' = isOpen \cup {c} /\ UNCHANGED workerVars
      /\ peer'[c] # "none" /\ \A d \in Conns : d # c => peer'[d] = peer[d]
  BY DEF Accept, TypeOK
<1>3. Range(queue') = Range(queue) \cup {c}
  BY <1>1, <1>2, RangeAppend
<1>4. ASSUME NEW i \in DOMAIN queue', NEW j \in DOMAIN queue', queue'[i] = queue'[j]
      PROVE  i = j
  <2>1. \/ i \in DOMAIN queue /\ queue'[i] = queue[i] /\ queue[i] # c
        \/ i = Len(queue) + 1 /\ queue'[i] = c
    BY <1>1, <1>2, AppendElements DEF Range
  <2>2. \/ j \in DOMAIN queue /\ queue'[j] = queue[j] /\ queue[j] # c
        \/ j = Len(queue) + 1 /\ queue'[j] = c
    BY <1>1, <1>2, AppendElements DEF Range
  <2> QED
    BY <1>4, <2>1, <2>2 DEF Served
<1> QED
  BY <1>1, <1>2, <1>3, <1>4 DEF Served, Leaving, workerVars, Accept

\* A client does nothing to the server's sockets.
LEMMA ClientServed ==
  ASSUME TypeOK, Served, NEW c \in Conns, ClientStep(c)
  PROVE  Served'
<1>1. UNCHANGED <<workerVars, queue, isOpen>>
  BY DEF ClientStep, ClientRequest, ClientQuit, ClientClose
<1>2. \A d \in Conns : peer'[d] = "none" => peer[d] = "none"
  BY DEF ClientStep, ClientRequest, ClientQuit, ClientClose, Close, TypeOK
<1> QED
  BY <1>1, <1>2 DEF Served, Leaving, workerVars, Range

\* A worker takes the first of the queue, and closes its own socket only.
LEMMA WorkerServed ==
  ASSUME TypeOK, FramesFit, Served, NEW w \in Workers, WorkerStep(w)
  PROVE  Served'
<1>0. /\ queue \in Seq(Conns) /\ UNCHANGED peer
      /\ \A v \in Workers : conn[v] \in Conns \cup {None}
      /\ \A v \in Workers : v # w => pc'[v] = pc[v] /\ conn'[v] = conn[v] /\ out'[v] = out[v]
      /\ WorkerMoves(w)
  <2>1. UNCHANGED peer
    BY DEF WorkerStep, Pop, RecvHello, SendPart, AddClient, BroadcastLock, BroadcastPart,
           BroadcastUnlock, RecvMessage, RemoveClient, CloseLeft, CloseUnknown
  <2> QED
    BY <2>1, WorkerCases DEF TypeOK
<1>1. CASE Pop(w)
  <2>1. /\ queue # <<>> /\ pc[w] = "pop" /\ conn'[w] = Head(queue) /\ queue' = Tail(queue)
        /\ UNCHANGED isOpen /\ pc'[w] = "hello"
    BY <1>1 DEF Pop, Goto, TypeOK
  <2>2. /\ 1 \in DOMAIN queue /\ conn'[w] = queue[1] /\ Range(queue') \subseteq Range(queue)
        /\ \A k \in DOMAIN queue' : k + 1 \in DOMAIN queue /\ queue'[k] = queue[k + 1]
        /\ queue' \in Seq(Conns)
    BY <1>0, <2>1, TailElements, RangeTail
  <2>3. conn'[w] \in Range(queue) /\ conn'[w] \in Conns
    BY <1>0, <2>2, ElementOfSeq, LenProperties DEF Range
  <2>4. conn'[w] \notin Range(queue')
    <3>1. ASSUME NEW k \in DOMAIN queue', queue'[k] = conn'[w]
          PROVE  FALSE
      <4>1. k \in Nat \ {0}
        BY <2>2, LenProperties
      <4>2. k + 1 = 1
        BY <2>2, <3>1 DEF Served
      <4> QED
        BY <4>1, <4>2
    <3> QED
      BY <3>1 DEF Range
  <2>5. ASSUME NEW i \in DOMAIN queue', NEW j \in DOMAIN queue', queue'[i] = queue'[j]
        PROVE  i = j
    <3>1. i + 1 = j + 1
      BY <2>2, <2>5 DEF Served
    <3>2. i \in Nat /\ j \in Nat
      BY <2>2, LenProperties
    <3> QED
      BY <3>1, <3>2
  <2>6. ASSUME NEW v \in Workers, v # w
        PROVE  conn'[v] = conn[v] /\ conn[v] # conn'[w]
    BY <1>0, <2>3, <2>6 DEF Served
  <2>7. \A c \in Conns : peer'[c] = "none" =>
          c \notin Range(queue') /\ c \notin isOpen' /\ \A v \in Workers : conn'[v] # c
    BY <1>0, <2>1, <2>2, <2>3, <2>6 DEF Served
  <2>8. \A v \in Workers : conn'[v] \notin Range(queue')
    BY <2>2, <2>4, <2>6 DEF Served
  <2>9. \A u, v \in Workers : conn'[u] = conn'[v] /\ conn'[u] # None => u = v
    BY <2>6 DEF Served
  <2>10. \A c \in Range(queue') : c \in isOpen'
    BY <2>1, <2>2 DEF Served
  <2>11. \A v \in Workers : conn'[v] # None /\ ~ Leaving(v)' => conn'[v] \in isOpen'
    BY <1>0, <2>1, <2>3, <2>6 DEF Served, Leaving
  <2> QED
    BY <2>5, <2>7, <2>8, <2>9, <2>10, <2>11 DEF Served
<1>2. CASE ~ Pop(w)
  <2>1. /\ UNCHANGED queue
        /\ \/ UNCHANGED isOpen
           \/ isOpen' = isOpen \ {conn[w]} /\ (CloseLeft(w) \/ CloseUnknown(w))
    BY <1>2 DEF WorkerStep, RecvHello, SendPart, AddClient, BroadcastLock, BroadcastPart,
           BroadcastUnlock, RecvMessage, RemoveClient, CloseLeft, CloseUnknown
  <2>2. \A v \in Workers : conn'[v] = conn[v] \/ (v = w /\ conn'[v] = None)
    <3>1. pc[w] = "pop" => Pop(w)
      BY DEF WorkerStep, RecvHello, SendPart, AddClient, BroadcastLock, BroadcastPart,
           BroadcastUnlock, RecvMessage, RemoveClient, CloseLeft, CloseUnknown
    <3> QED
      BY <1>0, <1>2, <3>1 DEF WorkerMoves
  <2>3. \A c \in Conns : peer'[c] = "none" =>
          c \notin Range(queue') /\ c \notin isOpen' /\ \A v \in Workers : conn'[v] # c
    BY <1>0, <2>1, <2>2 DEF Served
  <2>4. None \notin Range(queue)
    <3>1. ASSUME NEW k \in DOMAIN queue
          PROVE  queue[k] \in Conns
      BY <1>0, ElementOfSeq, LenProperties
    <3> QED
      BY <3>1 DEF Range
  <2>5. \A v \in Workers : conn'[v] \notin Range(queue')
    BY <2>1, <2>2, <2>4 DEF Served
  <2>6. \A u, v \in Workers : conn'[u] = conn'[v] /\ conn'[u] # None => u = v
    BY <2>2 DEF Served
  <2>7. \A c \in Range(queue') : c \in isOpen'
    BY <2>1 DEF Served
  <2>8. ASSUME NEW v \in Workers, conn'[v] # None, ~ Leaving(v)'
        PROVE  conn'[v] \in isOpen'
    <3>1. conn'[v] = conn[v]
      BY <2>2, <2>8
    <3>2. CASE v # w
      <4>1. ~ Leaving(v) /\ conn[v] # conn[w]
        BY <1>0, <2>8, <3>1, <3>2 DEF Leaving, Served
      <4> QED
        BY <2>1, <2>8, <3>1, <4>1 DEF Served
    <3>3. CASE v = w
      <4>1. ~ Leaving(w)
        BY <1>0, <2>8, <3>1, <3>3 DEF Leaving, WorkerMoves
      <4>2. ~ CloseLeft(w)
        <5>1. CloseLeft(w) => pc[w] = "close" /\ pc'[w] = "broadcast"
          BY DEF CloseLeft, Goto, TypeOK
        <5> QED
          BY <1>0, <2>8, <3>1, <3>3, <5>1 DEF Leaving, WorkerMoves
      <4>3. ~ CloseUnknown(w)
        BY <2>8, <3>3 DEF CloseUnknown, TypeOK
      <4> QED
        BY <2>1, <2>8, <3>1, <3>3, <4>1, <4>2, <4>3 DEF Served
    <3> QED
      BY <3>2, <3>3
  <2> QED
    BY <2>1, <2>3, <2>5, <2>6, <2>7, <2>8 DEF Served
<1> QED
  BY <1>1, <1>2

-----------------------------------------------------------------------------
(* Slots. *)

\* Only the two that change the array make a client a member of the chat, or end that.
LEMMA MemberKept ==
  ASSUME TypeOK, FramesFit, NEW w \in Workers, WorkerStep(w), ~ RemoveClient(w),
         pc[w] = "add" => pc'[w] # "broadcast", NEW c \in Conns
  PROVE  conn'[w] = c /\ Member(w)' <=> conn[w] = c /\ Member(w)
<1>1. WorkerMoves(w) /\ conn[w] \in Conns \cup {None}
  BY WorkerCases DEF TypeOK
<1>2. pc[w] = "pop" => conn[w] = None
  BY DEF TypeOK
<1>3. pc[w] # "remove"
  BY DEF WorkerStep, Pop, RecvHello, SendPart, AddClient, BroadcastLock, BroadcastPart,
         BroadcastUnlock, RecvMessage, CloseLeft, CloseUnknown
<1>4. CASE conn'[w] = conn[w]
  <2>1. conn[w] \in Conns /\ conn[w] # None
    <3>1. conn[w] = None => pc[w] = "pop" /\ conn'[w] = None
      BY <1>4 DEF TypeOK
    <3> QED
      BY <1>1, <3>1 DEF WorkerMoves
  <2>2. conn'[w] # None /\ conn'[w] = conn[w] /\ pc[w] # "pop"
    BY <1>2, <1>4, <2>1
  <2>3. CASE out'[w] = out[w] /\ pc'[w] = pc[w]
    BY <1>4, <2>3 DEF Member
  <2>4. CASE /\ out'[w] = out[w] /\ pc'[w] # pc[w]
             /\ \/ pc[w] = "hello" /\ pc'[w] = "shut"
                \/ pc[w] = "send" /\ out[w].kind = "WELCOME" /\ pc'[w] = "add"
                \/ pc[w] = "send" /\ out[w].kind # "PONG" /\ pc'[w] = "shut"
                \/ pc[w] = "send" /\ out[w].kind = "PONG" /\ pc'[w] \in {"recv", "remove"}
                \/ pc[w] = "broadcast" /\ pc'[w] = "walk"
                \/ pc[w] = "recv" /\ pc'[w] = "remove"
    BY <1>4, <2>4 DEF Member
  <2>5. CASE \/ pc[w] = "hello" /\ pc'[w] = "send" /\ out'[w].kind = "WELCOME"
             \/ pc[w] = "add" /\ pc'[w] = "send" /\ out'[w].kind = "FULL"
             \/ pc[w] = "recv" /\ pc'[w] = "broadcast" /\ out'[w].kind = "SAID"
             \/ pc[w] = "recv" /\ pc'[w] = "send" /\ out'[w].kind = "PONG"
             \/ pc[w] = "close" /\ pc'[w] = "broadcast" /\ out'[w].kind = "LEFT"
             \/ pc[w] = "walk" /\ out[w].kind # "LEFT" /\ pc'[w] = "recv"
    BY <1>4, <2>5 DEF Member
  <2> QED
    BY <1>1, <1>3, <2>2, <2>3, <2>4, <2>5 DEF WorkerMoves
<1>5. CASE conn'[w] # conn[w]
  BY <1>1, <1>2, <1>5 DEF WorkerMoves, Member
<1> QED
  BY <1>4, <1>5

\* The others have their slots whatever a worker does.
LEMMA OtherMembers ==
  ASSUME TypeOK, FramesFit, NEW w \in Workers, WorkerStep(w), NEW v \in Workers, v # w
  PROVE  Member(v)' <=> Member(v)
  BY WorkerCases DEF Member

\* A worker that has not added its client yet, or has removed it, has no slot.
LEMMA NoSlot ==
  ASSUME TypeOK, Served, SlotsOwned, NEW w \in Workers, conn[w] \in Conns, ~ Member(w)
  PROVE  \A i \in 1..Slots : slots[i] # conn[w]
  BY DEF Served, SlotsOwned

\* The array gains the client that is added.
LEMMA AddSlot ==
  ASSUME IInv, NEW w \in Workers, AddClient(w), FreeSlots # {}
  PROVE  SlotsOwned'
<1>0. TypeOK /\ FramesFit /\ Served /\ SlotsOwned /\ WorkerStep(w)
  BY DEF IInv, WorkerStep
<1>1. PICK i \in 1..Slots :
        /\ slots[i] = None /\ slots' = [slots EXCEPT ![i] = conn[w]]
        /\ Prepare(w, "JOINED", 0) /\ pc' = [pc EXCEPT ![w] = "broadcast"]
  BY DEF AddClient, FirstFree, FreeSlots, Goto
<1>2. PICK d \in Conns : d = conn[w] /\ d = conn'[w]
  BY <1>0 DEF AddClient, TypeOK
<1>3. pc[w] = "add" /\ ~ Member(w) /\ Member(w)' /\ ~ Leaving(w) /\ UNCHANGED isOpen
  <2>1. pc[w] = "add" /\ UNCHANGED isOpen
    BY DEF AddClient
  <2>2. pc'[w] = "broadcast" /\ out'[w].kind = "JOINED"
    BY <1>0, <1>1, <2>1, PrepareTypes DEF TypeOK
  <2> QED
    BY <2>1, <2>2 DEF Member, Leaving
<1>4. \A j \in 1..Slots : slots[j] # d
  BY <1>0, <1>2, <1>3, NoSlot
<1>5. slots'[i] = d /\ \A j \in 1..Slots : j # i => slots'[j] = slots[j]
  BY <1>0, <1>1, <1>2 DEF TypeOK
<1>6. d \in isOpen /\ d # None
  BY <1>0, <1>2, <1>3 DEF Served
<1>7. ASSUME NEW c \in Conns
      PROVE  (\E j \in 1..Slots : slots'[j] = c) <=> (\E v \in Workers : conn'[v] = c /\ Member(v)')
  <2>1. CASE c = d
    BY <1>2, <1>3, <1>5, <2>1
  <2>2. CASE c # d
    <3>1. (\E j \in 1..Slots : slots'[j] = c) <=> (\E j \in 1..Slots : slots[j] = c)
      BY <1>1, <1>5, <2>2
    <3>2. ASSUME NEW v \in Workers
          PROVE  conn'[v] = c /\ Member(v)' <=> conn[v] = c /\ Member(v)
      BY <1>0, <1>2, <2>2, WorkerCases, OtherMembers
    <3> QED
      BY <1>0, <3>1, <3>2 DEF SlotsOwned
  <2> QED
    BY <2>1, <2>2
<1>8. ASSUME NEW j \in 1..Slots, NEW k \in 1..Slots, slots'[j] = slots'[k], slots'[j] # None
      PROVE  j = k
  BY <1>0, <1>4, <1>5, <1>8 DEF SlotsOwned
<1>9. ASSUME NEW j \in 1..Slots, slots'[j] # None
      PROVE  slots'[j] \in isOpen'
  BY <1>0, <1>3, <1>5, <1>6, <1>9 DEF SlotsOwned
<1> QED
  BY <1>7, <1>8, <1>9 DEF SlotsOwned

\* The array loses the client that is removed.
LEMMA RemoveSlot ==
  ASSUME IInv, NEW w \in Workers, RemoveClient(w)
  PROVE  SlotsOwned'
<1>0. TypeOK /\ FramesFit /\ Served /\ SlotsOwned /\ WorkerStep(w)
  BY DEF IInv, WorkerStep
<1>1. PICK d \in Conns : d = conn[w] /\ d = conn'[w]
  BY <1>0 DEF RemoveClient, TypeOK
<1>2. ~ Member(w)' /\ UNCHANGED isOpen
  BY <1>0 DEF RemoveClient, Goto, Member, TypeOK
<1>3. \A j \in 1..Slots : slots'[j] = IF slots[j] = d THEN None ELSE slots[j]
  BY <1>1 DEF RemoveClient, WithoutSlot
<1>4. ASSUME NEW c \in Conns
      PROVE  (\E j \in 1..Slots : slots'[j] = c) <=> (\E v \in Workers : conn'[v] = c /\ Member(v)')
  <2>1. CASE c = d
    <3>1. ~ \E j \in 1..Slots : slots'[j] = c
      BY <1>3, <2>1
    <3>2. ASSUME NEW v \in Workers, conn'[v] = c, Member(v)'
          PROVE  FALSE
      <4>1. v # w /\ conn[v] = d
        BY <1>0, <1>2, <2>1, <3>2, WorkerCases
      <4> QED
        BY <1>0, <1>1, <4>1 DEF Served
    <3> QED
      BY <3>1, <3>2
  <2>2. CASE c # d
    <3>1. (\E j \in 1..Slots : slots'[j] = c) <=> (\E j \in 1..Slots : slots[j] = c)
      BY <1>3, <2>2
    <3>2. ASSUME NEW v \in Workers
          PROVE  conn'[v] = c /\ Member(v)' <=> conn[v] = c /\ Member(v)
      BY <1>0, <1>1, <2>2, WorkerCases, OtherMembers
    <3> QED
      BY <1>0, <3>1, <3>2 DEF SlotsOwned
  <2> QED
    BY <2>1, <2>2
<1> QED
  BY <1>0, <1>2, <1>3, <1>4 DEF SlotsOwned

\* A worker that adds its client finds a slot: the others have one slot each.
LEMMA RoomLeft ==
  ASSUME IInv, NEW w \in Workers, AddClient(w)
  PROVE  FreeSlots # {}
<1> SUFFICES ASSUME FreeSlots = {} PROVE FALSE
  OBVIOUS
<1>0. TypeOK /\ Served /\ SlotsOwned
  BY DEF IInv
<1>1. ~ Member(w)
  BY DEF AddClient, Member
<1> DEFINE owner == [i \in 1..Slots |-> CHOOSE v \in Workers : conn[v] = slots[i] /\ Member(v)]
<1>2. ASSUME NEW i \in 1..Slots
      PROVE  owner[i] \in Workers \ {w} /\ conn[owner[i]] = slots[i] /\ slots[i] # None
  <2>1. slots[i] \in Conns
    BY <1>0 DEF FreeSlots, TypeOK
  <2>2. \E v \in Workers : conn[v] = slots[i] /\ Member(v)
    BY <1>0, <2>1 DEF SlotsOwned
  <2> QED
    BY <1>1, <2>1, <2>2
<1> HIDE DEF owner
<1>3. owner \in [1..Slots -> Workers \ {w}]
  BY <1>2 DEF owner
<1>4. IsFiniteSet(1..Slots) /\ Cardinality(1..Slots) = Slots
  BY FS_Interval
<1>5. /\ IsFiniteSet(Workers \ {w}) /\ Cardinality(Workers) \in Nat
      /\ Cardinality(Workers \ {w}) = Cardinality(Workers) - 1
  BY FS_RemoveElement, FS_CardinalityType
<1>6. Cardinality(Workers \ {w}) < Cardinality(1..Slots)
  BY <1>4, <1>5
<1>7. PICK i, j \in 1..Slots : i # j /\ owner[i] = owner[j]
  BY <1>3, <1>4, <1>5, <1>6, FS_PigeonHole
<1> QED
  BY <1>0, <1>2, <1>7 DEF SlotsOwned

\* Every step keeps the slots.
LEMMA SlotsStep ==
  ASSUME IInv, Next
  PROVE  SlotsOwned'
<1>0. TypeOK /\ FramesFit /\ Served /\ SlotsOwned
  BY DEF IInv
<1>1. ASSUME NEW c \in Conns, Accept(c) \/ ClientStep(c)
      PROVE  SlotsOwned'
  <2>1. UNCHANGED <<workerVars, slots>> /\ isOpen \subseteq isOpen'
    BY <1>1 DEF Accept, ClientStep, ClientRequest, ClientQuit, ClientClose
  <2>2. \A v \in Workers : (Member(v)' <=> Member(v)) /\ conn'[v] = conn[v]
    BY <2>1 DEF Member, workerVars
  <2> QED
    BY <1>0, <2>1, <2>2 DEF SlotsOwned
<1>2. ASSUME NEW w \in Workers, WorkerStep(w), ~ AddClient(w), ~ RemoveClient(w)
      PROVE  SlotsOwned'
  <2>1. UNCHANGED slots
    BY <1>2 DEF WorkerStep, Pop, RecvHello, SendPart, BroadcastLock, BroadcastPart,
           BroadcastUnlock, RecvMessage, CloseLeft, CloseUnknown
  <2>2. pc[w] # "add"
    BY <1>2 DEF WorkerStep, Pop, RecvHello, SendPart, BroadcastLock, BroadcastPart,
           BroadcastUnlock, RecvMessage, CloseLeft, CloseUnknown
  <2>3. ASSUME NEW v \in Workers, NEW c \in Conns
        PROVE  conn'[v] = c /\ Member(v)' <=> conn[v] = c /\ Member(v)
    BY <1>0, <1>2, <2>2, MemberKept, OtherMembers, WorkerCases
  <2>4. ASSUME NEW i \in 1..Slots, slots[i] # None
        PROVE  slots[i] \in isOpen'
    <3>1. CASE UNCHANGED isOpen
      BY <1>0, <2>4, <3>1 DEF SlotsOwned
    <3>2. CASE isOpen' = isOpen \ {conn[w]} /\ (CloseLeft(w) \/ CloseUnknown(w))
      <4>1. pc[w] \in {"close", "shut"} /\ conn[w] \in Conns
        BY <1>0, <3>2 DEF CloseLeft, CloseUnknown, TypeOK
      <4>2. slots[i] # conn[w]
        BY <1>0, <4>1, NoSlot DEF Member
      <4> QED
        BY <1>0, <2>4, <3>2, <4>2 DEF SlotsOwned
    <3> QED
      BY <1>2, <3>1, <3>2 DEF WorkerStep, Pop, RecvHello, SendPart, BroadcastLock, BroadcastPart,
           BroadcastUnlock, RecvMessage, CloseLeft, CloseUnknown
  <2> QED
    BY <1>0, <2>1, <2>3, <2>4 DEF SlotsOwned
<1>3. ASSUME NEW w \in Workers, AddClient(w) \/ RemoveClient(w)
      PROVE  SlotsOwned'
  BY <1>3, RoomLeft, AddSlot, RemoveSlot
<1> QED
  BY <1>1, <1>2, <1>3 DEF Next

-----------------------------------------------------------------------------
(* The theorems. *)

\* Nobody is there.
LEMMA InitIInv == Init => IInv
<1> SUFFICES ASSUME Init PROVE IInv
  OBVIOUS
<1>1. TypeOK
  BY EmptySeq DEF Init, TypeOK, Stages, Parts
<1>2. FramesFit /\ Served
  BY DEF Init, FramesFit, Served, Range
<1>3. SlotsOwned
  BY DEF Init, SlotsOwned, Member
<1> QED
  BY <1>1, <1>2, <1>3 DEF IInv

\* Every step, of a worker or a client, preserves the invariant.
LEMMA StepIInv == IInv /\ [Next]_vars => IInv'
<1> SUFFICES ASSUME IInv, [Next]_vars PROVE IInv'
  OBVIOUS
<1>0. TypeOK /\ FramesFit /\ Served /\ SlotsOwned
  BY DEF IInv
<1>1. CASE Next
  <2>1. Served'
    BY <1>0, <1>1, AcceptServed, ClientServed, WorkerServed DEF Next
  <2> QED
    BY <1>0, <1>1, <2>1, TypeStep, SlotsStep DEF IInv
<1>2. CASE UNCHANGED vars
  <2> USE DEF vars, workerVars
  <2>1. TypeOK' /\ FramesFit'
    BY <1>0, <1>2 DEF TypeOK, FramesFit
  <2>2. Served'
    BY <1>0, <1>2 DEF Served, Leaving, Range
  <2>3. SlotsOwned'
    BY <1>0, <1>2 DEF SlotsOwned, Member
  <2> QED
    BY <2>1, <2>2, <2>3 DEF IInv
<1> QED
  BY <1>1, <1>2

\* Types, sockets and slots are an invariant together.
THEOREM Invariance == Spec => []IInv
  BY InitIInv, StepIInv, PTL DEF Spec

\* Every variable has its type, and a worker has the connection and the frame that its
\* stage needs.
THEOREM TypeCorrect == Spec => []TypeOK
<1>1. IInv => TypeOK
  BY DEF IInv
<1> QED
  BY <1>1, Invariance, PTL

\* With any number of workers and slots, a slot is active for exactly the clients that
\* are in the chat, one slot for each, and its socket is open.
THEOREM SlotsAreSound == Spec => []SlotsOwned
<1>1. IInv => SlotsOwned
  BY DEF IInv
<1> QED
  BY <1>1, Invariance, PTL

\* A pool that is no larger than the array of slots never finds the array full: each of
\* the other workers has one slot at most.
THEOREM AlwaysRoom == Spec => []NobodyTurnedAway
<1>1. Init => NobodyTurnedAway
  BY DEF Init, NobodyTurnedAway
<1>2. IInv /\ NobodyTurnedAway /\ [Next]_vars => NobodyTurnedAway'
  <2> SUFFICES ASSUME IInv, NobodyTurnedAway, [Next]_vars PROVE NobodyTurnedAway'
    OBVIOUS
  <2>0. TypeOK /\ FramesFit
    BY DEF IInv
  <2>1. ASSUME NEW w \in Workers, WorkerStep(w)
        PROVE  NobodyTurnedAway'
    <3>1. pc[w] = "add" => pc'[w] # "send"
      <4>1. pc[w] = "add" => AddClient(w)
        BY <2>1 DEF WorkerStep, Pop, RecvHello, SendPart, BroadcastLock, BroadcastPart,
             BroadcastUnlock, RecvMessage, RemoveClient, CloseLeft, CloseUnknown
      <4>2. AddClient(w) => pc'[w] = "broadcast"
        BY <2>0, RoomLeft DEF AddClient, Goto, TypeOK
      <4> QED
        BY <4>1, <4>2
    <3>2. pc'[w] = "send" => out'[w].kind # "FULL"
      BY <2>0, <2>1, <3>1, WorkerCases DEF WorkerMoves, NobodyTurnedAway
    <3> QED
      BY <2>0, <2>1, <3>2, WorkerCases DEF NobodyTurnedAway
  <2>2. ASSUME NEW c \in Conns, Accept(c) \/ ClientStep(c)
        PROVE  NobodyTurnedAway'
    BY <2>2 DEF Accept, ClientStep, ClientRequest, ClientQuit, ClientClose, workerVars,
                NobodyTurnedAway
  <2>3. CASE UNCHANGED vars
    BY <2>3 DEF vars, workerVars, NobodyTurnedAway
  <2> QED
    BY <2>1, <2>2, <2>3 DEF Next
<1> QED
  BY <1>1, <1>2, Invariance, PTL DEF Spec

-----------------------------------------------------------------------------
(* What the clients are told.  A broadcast is one walk over the slots under the mutex, and *)
(* a frame that was composed is never composed again.                                      *)

\* This frame has been composed and will not be once more.
Spent(f) ==
  /\ f.kind \in {"JOINED", "LEFT"} => f.id = 0 /\ peer[f.of] # "none"
  /\ f.kind = "JOINED" =>
       /\ f.of \notin Range(queue)
       /\ \A w \in Workers : conn[w] = f.of =>
            pc[w] \notin {"hello", "add"} /\ ~ (pc[w] = "send" /\ out[w].kind = "WELCOME")
  /\ f.kind = "SAID" =>
       /\ f.id < asked[f.of]
       /\ \A i \in DOMAIN c2s[f.of] :
            ~ (c2s[f.of][i].type = "TEXT" /\ c2s[f.of][i].id = f.id)
  /\ f.kind = "LEFT" => f.of \notin isOpen

\* Whoever broadcasts holds the mutex and began with the first slot; a frame is about the
\* client of the worker that sends it.
Locked ==
  /\ \A w \in Workers : pc[w] = "walk" => lock = w
  /\ \A w \in Workers : pc[w] = "broadcast" => part[w] = 1 /\ pos[w] = 1
  /\ \A w \in Workers : pc[w] \in {"send", "broadcast", "walk"} => out[w].of = conn[w]

\* A client is taken out of the chat only when it is gone; whoever was told something and
\* is there has a slot.
Listening ==
  /\ \A c \in Conns : peer[c] # "open" => s2c[c] = <<>>
  /\ \A c \in Conns : \A i \in DOMAIN c2s[c] : c2s[c][i].type = "BYE" => peer[c] = "closed"
  /\ \A w \in Workers : pc[w] = "remove" => peer[conn[w]] = "closed"
  /\ \A c \in Conns : Told(c) # {} => \E i \in 1..Slots : slots[i] = c

\* A client's requests have numbers of their own.
Numbered ==
  \A c \in Conns : \A i, j \in DOMAIN c2s[c] :
    c2s[c][i].type = "TEXT" =>
      /\ c2s[c][i].id < asked[c]
      /\ c2s[c][j].type = "TEXT" /\ c2s[c][j].id = c2s[c][i].id => i = j

\* What was heard, or is about to be, is spent; nobody heard it before its broadcast.
Fresh ==
  /\ \A w \in Workers, f \in Frame : pc[w] \in {"broadcast", "walk"} /\ out[w] = f => Spent(f)
  /\ \A c \in Conns, f \in Frame : \A k \in Told(c) : s2c[c][k].frame = f => Spent(f)
  /\ \A w \in Workers, c \in Conns : pc[w] = "broadcast" =>
       \A k \in Told(c) : s2c[c][k].frame # out[w]

\* The walk has not reached this client yet.
Awaits(w, c) ==
  \E i \in 1..Slots : slots[i] = c /\ (pos[w] < i \/ (pos[w] = i /\ part[w] = 1))

\* During a broadcast a client has heard it as the latest if it was passed and is there,
\* and has not heard it otherwise.
OnAir ==
  \A w \in Workers, c \in Conns : pc[w] = "walk" =>
    /\ Awaits(w, c) => \A k \in Told(c) : s2c[c][k].frame # out[w]
    /\ \A k, l \in Told(c) : s2c[c][k].frame = out[w] => l <= k
    /\ peer[c] = "open" /\ (\E i \in 1..Slots : slots[i] = c) /\ ~ Awaits(w, c) =>
         \E k \in Told(c) : s2c[c][k].frame = out[w]

\* Nobody hears a frame twice.
Once ==
  \A c \in Conns : \A k, l \in Told(c) : s2c[c][k].frame = s2c[c][l].frame => k = l

\* What one client hears after something that two heard, the other hears after it, or will.
Sync ==
  \A c, d \in Conns : \A k, m \in Told(c), l \in Told(d) :
    s2c[c][k].frame = s2c[d][l].frame /\ k < m =>
      \/ \E w \in Workers : pc[w] = "walk" /\ out[w] = s2c[c][m].frame /\ Awaits(w, d)
      \/ \E n \in Told(d) : l < n /\ s2c[d][n].frame = s2c[c][m].frame

\* The last thing heard of a client is that it has left.
LeftLast ==
  \A d \in Conns : \A k, l \in Told(d) :
    s2c[d][k].frame.kind = "LEFT" /\ k < l => s2c[d][l].frame.of # s2c[d][k].frame.of

\* The inductive invariant for what the clients are told.
ToldInv ==
  IInv /\ Locked /\ Listening /\ Numbered /\ Fresh /\ OnAir /\ Once /\ Sync /\ LeftLast

-----------------------------------------------------------------------------
(* How a stream grows. *)

\* What a client was told is a set of places in its stream.
LEMMA ToldPlaces ==
  ASSUME TypeOK, NEW d \in Conns, NEW k \in Told(d)
  PROVE  /\ k \in Nat /\ k \in DOMAIN s2c[d]
         /\ s2c[d][k] \in [frame : Frame, part : 1..Parts] /\ s2c[d][k].part = 1
         /\ s2c[d][k].frame \in Frame /\ s2c[d][k].frame.kind \in {"JOINED", "SAID", "LEFT"}
<1> DEFINE Thirds == [frame : Frame, part : 1..Parts]
<1>1. s2c[d] \in Seq(Thirds) /\ k \in DOMAIN s2c[d]
  BY DEF TypeOK, Told
<1> HIDE DEF Thirds
<1>2. k \in 1..Len(s2c[d]) /\ Len(s2c[d]) \in Nat
  BY <1>1, LenProperties
<1>3. s2c[d][k] \in Thirds /\ k \in Nat
  BY <1>1, <1>2, ElementOfSeq
<1> QED
  BY <1>1, <1>3 DEF Told, Thirds

\* Nothing new for this client.
Keeps(d) == Told(d)' = Told(d) /\ \A k \in Told(d) : s2c'[d][k] = s2c[d][k]

\* The first third of a worker's frame, after all it was told.
Hears(d, w) ==
  \E n \in Nat :
    /\ Told(d)' = Told(d) \cup {n} /\ s2c'[d][n].frame = out[w]
    /\ \A k \in Told(d) : k < n /\ s2c'[d][k] = s2c[d][k]

\* One send_all() tells one client something new, when it is there and the third is the
\* first of a broadcast.
LEMMA SentTold ==
  ASSUME TypeOK, NEW w \in Workers, out[w] \in Frame, NEW x \in Conns, NEW d \in Conns,
         Sent(w, x) \/ Failed(x) \/ UNCHANGED s2c
  PROVE  \/ Keeps(d)
         \/ /\ d = x /\ part[w] = 1 /\ out[w].kind \in {"JOINED", "SAID", "LEFT"}
            /\ peer[d] = "open" /\ Hears(d, w)
<1> DEFINE Thirds == [frame : Frame, part : 1..Parts]
           third == [frame |-> out[w], part |-> part[w]]
<1>1. third \in Thirds /\ s2c[d] \in Seq(Thirds)
  BY DEF TypeOK
<1>2. third.frame = out[w] /\ third.part = part[w]
  OBVIOUS
<1>3. CASE s2c'[d] = s2c[d]
  BY <1>3 DEF Keeps, Told
<1>4. CASE s2c'[d] # s2c[d]
  <2>1. d = x /\ peer[d] = "open" /\ s2c'[d] = Append(s2c[d], third)
    BY <1>4 DEF Sent, Failed, TypeOK
  <2> HIDE DEF Thirds, third
  <2> DEFINE n == Len(s2c[d]) + 1
  <2>2. /\ DOMAIN s2c'[d] = DOMAIN s2c[d] \cup {n} /\ Len(s2c[d]) \in Nat
        /\ DOMAIN s2c[d] = 1..Len(s2c[d])
        /\ \A k \in DOMAIN s2c[d] : s2c'[d][k] = s2c[d][k]
        /\ s2c'[d][n] = third
    BY <1>1, <2>1, AppendElements
  <2>3. n \in Nat /\ \A k \in DOMAIN s2c[d] : k < n
    BY <2>2
  <2> HIDE DEF n
  <2>4. CASE part[w] = 1 /\ out[w].kind \in {"JOINED", "SAID", "LEFT"}
    <3>1. Told(d)' = Told(d) \cup {n}
      BY <1>2, <2>2, <2>4 DEF Told
    <3> QED
      BY <1>2, <2>1, <2>2, <2>3, <2>4, <3>1 DEF Hears, Told
  <2>5. CASE ~ (part[w] = 1 /\ out[w].kind \in {"JOINED", "SAID", "LEFT"})
    <3>1. Told(d)' = Told(d)
      BY <1>2, <2>2, <2>3, <2>5 DEF Told
    <3> QED
      BY <2>2, <3>1 DEF Keeps, Told
  <2> QED
    BY <2>4, <2>5
<1> QED
  BY <1>3, <1>4

\* A client is told something new by a walk that has come to its slot, and by nothing else;
\* it forgets all when it closes.
LEMMA ToldCases ==
  ASSUME TypeOK, FramesFit, Next, NEW d \in Conns
  PROVE  \/ Keeps(d)
         \/ Told(d)' = {} /\ peer'[d] = "closed"
         \/ \E w \in Workers :
              /\ BroadcastPart(w) /\ slots[pos[w]] = d /\ part[w] = 1
              /\ peer[d] = "open" /\ Hears(d, w)
<1>1. ASSUME NEW c \in Conns, Accept(c) \/ ClientStep(c)
      PROVE  Keeps(d) \/ (Told(d)' = {} /\ peer'[d] = "closed")
  <2>1. s2c'[d] = s2c[d] \/ (s2c'[d] = <<>> /\ peer'[d] = "closed")
    BY <1>1 DEF Accept, ClientStep, ClientRequest, ClientQuit, ClientClose, Close, TypeOK
  <2>2. s2c'[d] = <<>> => Told(d)' = {}
    BY DEF Told
  <2> QED
    BY <2>1, <2>2 DEF Keeps, Told
<1>2. ASSUME NEW w \in Workers, SendPart(w)
      PROVE  Keeps(d)
  <2>1. out[w] \in Frame /\ conn[w] \in Conns /\ out[w].kind \in {"WELCOME", "PONG", "FULL"}
    BY <1>2 DEF SendPart, TypeOK, FramesFit
  <2>2. Sent(w, conn[w]) \/ Failed(conn[w])
    BY <1>2 DEF SendPart
  <2> QED
    BY <2>1, <2>2, SentTold
<1>3. ASSUME NEW w \in Workers, BroadcastPart(w)
      PROVE  \/ Keeps(d)
             \/ slots[pos[w]] = d /\ part[w] = 1 /\ peer[d] = "open" /\ Hears(d, w)
  <2>1. out[w] \in Frame /\ pos[w] \in 1..Slots /\ Slots \in Nat
    BY <1>3 DEF BroadcastPart, TypeOK
  <2>2. CASE slots[pos[w]] = None
    BY <1>3, <2>2 DEF BroadcastPart, Keeps, Told
  <2>3. CASE slots[pos[w]] # None
    <3>1. slots[pos[w]] \in Conns
      BY <2>1, <2>3 DEF TypeOK
    <3>2. Sent(w, slots[pos[w]]) \/ Failed(slots[pos[w]])
      BY <1>3, <2>3 DEF BroadcastPart
    <3> QED
      BY <2>1, <3>1, <3>2, SentTold
  <2> QED
    BY <2>2, <2>3
<1>4. ASSUME NEW w \in Workers, WorkerStep(w), ~ SendPart(w), ~ BroadcastPart(w)
      PROVE  Keeps(d)
  BY <1>4 DEF WorkerStep, Pop, RecvHello, AddClient, BroadcastLock, BroadcastUnlock,
     RecvMessage, RemoveClient, CloseLeft, CloseUnknown, Keeps, Told
<1> QED
  BY <1>1, <1>2, <1>3, <1>4 DEF Next

\* Whose turn it is in a frame or in the walk is a worker's own matter, and a broadcast that
\* is about to begin begins with the first slot.
LEMMA WorkerPlace ==
  ASSUME TypeOK, FramesFit, NEW w \in Workers, WorkerStep(w)
  PROVE  /\ \A v \in Workers : v # w => part'[v] = part[v] /\ pos'[v] = pos[v]
         /\ pc'[w] = "broadcast" => part'[w] = 1 /\ pos'[w] = 1
<1> DEFINE OthersStay == \A v \in Workers : v # w => part'[v] = part[v] /\ pos'[v] = pos[v]
<1>0. /\ part \in [Workers -> 1..Parts] /\ pos \in [Workers -> 1..(Slots + 1)]
      /\ pc \in [Workers -> Stages]
  BY DEF TypeOK
<1>1. ASSUME NEW kind, NEW id, Prepare(w, kind, id)
      PROVE  OthersStay /\ part'[w] = 1 /\ pos'[w] = 1
  BY <1>0, <1>1 DEF Prepare
<1>2. CASE SendPart(w)
  <2>1. OthersStay
    BY <1>0, <1>2 DEF SendPart
  <2>2. pc'[w] # "broadcast"
    BY <1>0, <1>2, SendPartCases
  <2> QED
    BY <2>1, <2>2
<1>3. CASE RecvMessage(w)
  BY <1>0, <1>1, <1>3, RecvMessageCases
<1>4. CASE BroadcastPart(w)
  BY <1>0, <1>4 DEF BroadcastPart
<1>5. CASE RecvHello(w) \/ AddClient(w) \/ CloseLeft(w)
  BY <1>0, <1>1, <1>5 DEF RecvHello, AddClient, CloseLeft, Goto
<1>6. CASE Pop(w) \/ BroadcastLock(w) \/ BroadcastUnlock(w) \/ RemoveClient(w) \/ CloseUnknown(w)
  BY <1>0, <1>6 DEF Pop, BroadcastLock, BroadcastUnlock, RemoveClient, CloseUnknown, Goto
<1> QED
  BY <1>2, <1>3, <1>4, <1>5, <1>6 DEF WorkerStep

\* The mutex is taken for the walk and held until its end.
LEMMA LockedStep ==
  ASSUME TypeOK, FramesFit, Locked, Next
  PROVE  Locked'
<1>1. ASSUME NEW c \in Conns, Accept(c) \/ ClientStep(c)
      PROVE  Locked'
  <2>1. UNCHANGED workerVars /\ UNCHANGED lock
    BY <1>1 DEF Accept, ClientStep, ClientRequest, ClientQuit, ClientClose
  <2> QED
    BY <2>1 DEF Locked, workerVars
<1>2. ASSUME NEW w \in Workers, WorkerStep(w)
      PROVE  Locked'
  <2>1. /\ pc[w] = "broadcast" /\ pc'[w] = "walk" => lock = None /\ lock' = w
        /\ pc[w] = "walk" /\ pc'[w] = "walk" => UNCHANGED lock
        /\ lock' = lock \/ lock = None \/ pc[w] = "walk"
    <3>1. CASE BroadcastLock(w)
      BY <3>1 DEF BroadcastLock, TakeMutex
    <3>2. CASE BroadcastUnlock(w)
      BY <3>2 DEF BroadcastUnlock, Goto, TypeOK
    <3>3. CASE ~ BroadcastLock(w) /\ ~ BroadcastUnlock(w)
      BY <1>2, <3>3 DEF WorkerStep, Pop, RecvHello, SendPart, AddClient, BroadcastPart,
         RecvMessage, RemoveClient, CloseLeft, CloseUnknown
    <3> QED
      BY <3>1, <3>2, <3>3
  <2>2. /\ WorkerMoves(w)
        /\ \A v \in Workers : v # w => pc'[v] = pc[v] /\ conn'[v] = conn[v] /\ out'[v] = out[v]
    BY <1>2, WorkerCases
  <2>3. \A v \in Workers : v # None
    OBVIOUS
  <2>4. ASSUME NEW v \in Workers, pc'[v] = "walk"
        PROVE  lock' = v
    <3>1. CASE v = w
      BY <2>1, <2>2, <2>4, <3>1 DEF WorkerMoves, Locked
    <3>2. CASE v # w
      BY <2>1, <2>2, <2>3, <2>4, <3>2 DEF Locked
    <3> QED
      BY <3>1, <3>2
  <2>5. ASSUME NEW v \in Workers, pc'[v] = "broadcast"
        PROVE  part'[v] = 1 /\ pos'[v] = 1
    BY <1>2, <2>2, <2>5, WorkerPlace DEF Locked
  <2>6. ASSUME NEW v \in Workers, pc'[v] \in {"send", "broadcast", "walk"}
        PROVE  out'[v].of = conn'[v]
    <3>1. CASE v = w
      BY <2>2, <2>6, <3>1 DEF WorkerMoves, Locked
    <3>2. CASE v # w
      BY <2>2, <2>6, <3>2 DEF Locked
    <3> QED
      BY <3>1, <3>2
  <2> QED
    BY <2>4, <2>5, <2>6 DEF Locked
<1> QED
  BY <1>1, <1>2 DEF Next

\* The requests that are not read yet: one is added, or the first is taken.
LEMMA RequestCases ==
  ASSUME TypeOK, Next, NEW c \in Conns
  PROVE  \/ c2s'[c] = c2s[c] /\ asked'[c] = asked[c]
         \/ peer[c] = "none" /\ c2s'[c] = <<[type |-> "HELLO", id |-> 0]>> /\ asked'[c] = asked[c]
         \/ \E type \in {"TEXT", "PING", "BYE"} :
              /\ peer[c] = "open" /\ (type = "BYE" => peer'[c] = "closed")
              /\ c2s'[c] = Append(c2s[c], [type |-> type, id |-> asked[c]])
              /\ asked'[c] = asked[c] + 1
         \/ /\ c2s[c] # <<>> /\ c2s'[c] = Tail(c2s[c]) /\ asked'[c] = asked[c]
            /\ \E w \in Workers : Receive(w) /\ conn[w] = c
<1>0. c2s \in [Conns -> Seq(Message)] /\ asked \in [Conns -> Nat]
      /\ peer \in [Conns -> {"none", "open", "closed"}]
  BY DEF TypeOK
<1>1. CASE \E d \in Conns : Accept(d)
  BY <1>0, <1>1 DEF Accept
<1>2. ASSUME NEW d \in Conns, ClientStep(d)
      PROVE  \/ c2s'[c] = c2s[c] /\ asked'[c] = asked[c]
             \/ \E type \in {"TEXT", "PING", "BYE"} :
                  /\ peer[c] = "open" /\ (type = "BYE" => peer'[c] = "closed")
                  /\ c2s'[c] = Append(c2s[c], [type |-> type, id |-> asked[c]])
                  /\ asked'[c] = asked[c] + 1
  <2>1. CASE \E type \in Requests[d] : ClientRequest(d, type)
    BY <1>0, <2>1 DEF ClientRequest, ClientSend
  <2>2. CASE ClientQuit(d)
    BY <1>0, <2>2 DEF ClientQuit, ClientSend, Close
  <2>3. CASE ClientClose(d)
    BY <2>3 DEF ClientClose
  <2> QED
    BY <1>2, <2>1, <2>2, <2>3 DEF ClientStep
<1>3. ASSUME NEW w \in Workers, WorkerStep(w)
      PROVE  \/ c2s'[c] = c2s[c] /\ asked'[c] = asked[c]
             \/ /\ c2s[c] # <<>> /\ c2s'[c] = Tail(c2s[c]) /\ asked'[c] = asked[c]
                /\ Receive(w) /\ conn[w] = c
  <2>1. UNCHANGED asked /\ (UNCHANGED c2s \/ Receive(w))
    BY <1>3 DEF WorkerStep, Pop, RecvHello, SendPart, AddClient, BroadcastLock, BroadcastPart,
       BroadcastUnlock, RecvMessage, RemoveClient, CloseLeft, CloseUnknown, RecvFailed
  <2> QED
    BY <1>0, <2>1 DEF Receive
<1> QED
  BY <1>1, <1>2, <1>3 DEF Next

\* A client's requests keep their numbers.
LEMMA NumberedStep ==
  ASSUME TypeOK, Served, Numbered, Next
  PROVE  Numbered'
<1> SUFFICES ASSUME NEW c \in Conns
             PROVE  \A i, j \in DOMAIN c2s'[c] :
                      c2s'[c][i].type = "TEXT" =>
                        /\ c2s'[c][i].id < asked'[c]
                        /\ c2s'[c][j].type = "TEXT" /\ c2s'[c][j].id = c2s'[c][i].id => i = j
  BY DEF Numbered
<1>0. c2s[c] \in Seq(Message) /\ asked[c] \in Nat
  BY DEF TypeOK
<1>t. \A i \in DOMAIN c2s[c] : c2s[c][i].id \in Nat
  <2>1. \A i \in DOMAIN c2s[c] : c2s[c][i] \in Message
    BY <1>0, ElementOfSeq, LenProperties
  <2> QED
    BY <2>1 DEF Message
<1>1. CASE c2s'[c] = c2s[c] /\ asked'[c] = asked[c]
  BY <1>1 DEF Numbered
<1>2. CASE c2s'[c] = <<[type |-> "HELLO", id |-> 0]>>
  BY <1>2
<1>3. CASE c2s[c] # <<>> /\ c2s'[c] = Tail(c2s[c]) /\ asked'[c] = asked[c]
  <2>1. \A k \in DOMAIN c2s'[c] : k \in Nat /\ k + 1 \in DOMAIN c2s[c] /\ c2s'[c][k] = c2s[c][k + 1]
    <3>1. Tail(c2s[c]) \in Seq(Message)
      BY <1>0, <1>3, TailElements
    <3> QED
      BY <1>0, <1>3, <3>1, TailElements, LenProperties
  <2>2. \A i, j \in DOMAIN c2s'[c] : i + 1 = j + 1 => i = j
    BY <2>1
  <2> QED
    BY <1>3, <2>1, <2>2 DEF Numbered
<1>4. ASSUME NEW type \in {"TEXT", "PING", "BYE"}, asked'[c] = asked[c] + 1,
             c2s'[c] = Append(c2s[c], [type |-> type, id |-> asked[c]])
      PROVE  \A i, j \in DOMAIN c2s'[c] :
               c2s'[c][i].type = "TEXT" =>
                 /\ c2s'[c][i].id < asked'[c]
                 /\ c2s'[c][j].type = "TEXT" /\ c2s'[c][j].id = c2s'[c][i].id => i = j
  <2> DEFINE m == [type |-> type, id |-> asked[c]]
  <2>1. m \in Message /\ m.id = asked[c]
    BY <1>0 DEF Message
  <2>2. \A k \in DOMAIN c2s'[c] :
          \/ k \in DOMAIN c2s[c] /\ c2s'[c][k] = c2s[c][k]
          \/ k = Len(c2s[c]) + 1 /\ c2s'[c][k] = m
    BY <1>0, <1>4, <2>1, AppendElements
  <2> HIDE DEF m
  <2>3. \A k \in DOMAIN c2s'[c] : c2s'[c][k].type = "TEXT" =>
          \/ k \in DOMAIN c2s[c] /\ c2s'[c][k] = c2s[c][k] /\ c2s'[c][k].id < asked[c]
          \/ k = Len(c2s[c]) + 1 /\ c2s'[c][k].id = asked[c]
    BY <2>1, <2>2 DEF Numbered
  <2>4. \A i, j \in DOMAIN c2s'[c] :
          c2s'[c][i].type = "TEXT" /\ c2s'[c][j].type = "TEXT" /\ c2s'[c][j].id = c2s'[c][i].id
            => i = j
    BY <1>0, <1>t, <2>3 DEF Numbered
  <2>5. \A k \in DOMAIN c2s'[c] : c2s'[c][k].type = "TEXT" => c2s'[c][k].id < asked'[c]
    BY <1>0, <1>4, <1>t, <2>3
  <2> QED
    BY <2>4, <2>5
<1> QED
  BY <1>1, <1>2, <1>3, <1>4, RequestCases

\* A client that has closed stays closed; a worker does nothing to a client's end, and puts
\* nothing into the stream of one that is gone.
LEMMA PeerKept ==
  ASSUME TypeOK, FramesFit, Next, NEW c \in Conns
  PROVE  /\ peer[c] = "closed" => peer'[c] = "closed"
         /\ peer[c] # "none" => peer'[c] # "none"
         /\ peer'[c] # "open" => s2c'[c] = <<>> \/ (s2c'[c] = s2c[c] /\ peer[c] # "open")
<1>1. CASE \E d \in Conns : Accept(d)
  BY <1>1 DEF Accept, TypeOK
<1>2. ASSUME NEW d \in Conns, ClientStep(d)
      PROVE  /\ peer[c] = "closed" => peer'[c] = "closed"
             /\ peer[c] # "none" => peer'[c] # "none"
             /\ peer'[c] # "open" => s2c'[c] = <<>> \/ (s2c'[c] = s2c[c] /\ peer[c] # "open")
  <2>1. \/ UNCHANGED <<peer, s2c>>
        \/ peer' = [peer EXCEPT ![d] = "closed"] /\ s2c' = [s2c EXCEPT ![d] = <<>>]
    BY <1>2 DEF ClientStep, ClientRequest, ClientQuit, ClientClose, Close
  <2> QED
    BY <2>1 DEF TypeOK
<1>3. ASSUME NEW w \in Workers, WorkerStep(w)
      PROVE  UNCHANGED peer /\ (s2c'[c] = s2c[c] \/ peer[c] = "open")
  <2>1. UNCHANGED peer
    BY <1>3 DEF WorkerStep, Pop, RecvHello, SendPart, AddClient, BroadcastLock, BroadcastPart,
       BroadcastUnlock, RecvMessage, RemoveClient, CloseLeft, CloseUnknown
  <2>2. UNCHANGED s2c \/ \E x \in Conns : Sent(w, x) \/ Failed(x)
    <3>1. CASE SendPart(w)
      BY <3>1 DEF SendPart, TypeOK
    <3>2. CASE BroadcastPart(w)
      <4>1. pos[w] \in 1..Slots
        BY <3>2 DEF BroadcastPart, TypeOK
      <4>2. slots[pos[w]] \in Conns \cup {None}
        BY <4>1 DEF TypeOK
      <4> QED
        BY <3>2, <4>2 DEF BroadcastPart
    <3>3. CASE ~ SendPart(w) /\ ~ BroadcastPart(w)
      BY <1>3, <3>3 DEF WorkerStep, Pop, RecvHello, AddClient, BroadcastLock, BroadcastUnlock,
         RecvMessage, RemoveClient, CloseLeft, CloseUnknown
    <3> QED
      BY <3>1, <3>2, <3>3
  <2> QED
    BY <2>1, <2>2 DEF Sent, Failed, TypeOK
<1> QED
  BY <1>1, <1>2, <1>3 DEF Next

\* A slot changes when it was free, or when its client is removed, and never during a walk.
LEMMA SlotKept ==
  ASSUME TypeOK, FramesFit, Locked, Next
  PROVE  /\ \A i \in 1..Slots : slots[i] # None =>
              \/ slots'[i] = slots[i]
              \/ \E w \in Workers : RemoveClient(w) /\ slots[i] = conn[w]
         /\ (\E w \in Workers : pc[w] = "walk") => UNCHANGED slots
<1>1. CASE UNCHANGED slots
  BY <1>1
<1>2. ASSUME NEW w \in Workers, AddClient(w)
      PROVE  /\ \A i \in 1..Slots : slots[i] # None => slots'[i] = slots[i]
             /\ \A v \in Workers : pc[v] # "walk"
  <2>1. lock = None
    BY <1>2 DEF AddClient
  <2>2. \A v \in Workers : pc[v] # "walk"
    BY <2>1 DEF Locked
  <2>3. UNCHANGED slots \/ \E i \in 1..Slots : slots[i] = None /\ slots' = [slots EXCEPT ![i] = conn[w]]
    BY <1>2 DEF AddClient, FirstFree, FreeSlots
  <2> QED
    BY <2>2, <2>3 DEF TypeOK
<1>3. ASSUME NEW w \in Workers, RemoveClient(w)
      PROVE  /\ \A i \in 1..Slots : slots'[i] = slots[i] \/ slots[i] = conn[w]
             /\ \A v \in Workers : pc[v] # "walk"
  BY <1>3 DEF RemoveClient, WithoutSlot, Locked
<1>4. UNCHANGED slots \/ \E w \in Workers : AddClient(w) \/ RemoveClient(w)
  BY DEF Next, Accept, ClientStep, ClientRequest, ClientQuit, ClientClose, WorkerStep, Pop,
     RecvHello, SendPart, BroadcastLock, BroadcastPart, BroadcastUnlock, RecvMessage, CloseLeft,
     CloseUnknown
<1> QED
  BY <1>1, <1>2, <1>3, <1>4

\* A worker removes a client that has said BYE or cannot be reached.
LEMMA RemovedIsGone ==
  ASSUME TypeOK, FramesFit, Listening, NEW w \in Workers, WorkerStep(w), pc'[w] = "remove"
  PROVE  conn'[w] = conn[w] /\ peer[conn[w]] = "closed"
<1>1. pc \in [Workers -> Stages] /\ WorkerMoves(w)
  BY WorkerCases DEF TypeOK
<1>2. conn'[w] = conn[w] /\ pc[w] \in {"send", "recv", "remove"}
  BY <1>1 DEF WorkerMoves
<1>3. CASE pc[w] = "remove"
  BY <1>2, <1>3 DEF Listening
<1>4. CASE pc[w] = "send"
  <2>1. SendPart(w) /\ out[w].kind \in {"WELCOME", "PONG", "FULL"}
    BY <1>4 DEF FramesFit, WorkerStep, Pop, RecvHello, AddClient, BroadcastLock, BroadcastPart,
       BroadcastUnlock, RecvMessage, RemoveClient, CloseLeft, CloseUnknown
  <2>2. AfterSend[out[w].kind] # "remove"
    BY <2>1 DEF AfterSend
  <2>3. Failed(conn[w])
    BY <1>1, <1>4, <2>1, <2>2 DEF SendPart, Goto
  <2> QED
    BY <1>2, <2>3 DEF Failed
<1>5. CASE pc[w] = "recv"
  <2>1. RecvMessage(w) /\ conn[w] \in Conns
    BY <1>5 DEF TypeOK, WorkerStep, Pop, RecvHello, SendPart, AddClient, BroadcastLock,
       BroadcastPart, BroadcastUnlock, RemoveClient, CloseLeft, CloseUnknown
  <2>2. CASE RecvFailed(w)
    BY <1>2, <2>2 DEF RecvFailed
  <2>3. CASE Receive(w) /\ ~ RecvFailed(w)
    <3>1. Received(w).type = "BYE"
      <4>1. CASE Received(w).type = "TEXT"
        BY <1>1, <1>5, <2>1, <2>3, <4>1 DEF RecvMessage, Goto
      <4>2. CASE Received(w).type = "PING"
        BY <1>1, <1>5, <2>1, <2>3, <4>2 DEF RecvMessage, Goto
      <4>3. CASE Received(w).type \notin {"TEXT", "PING", "BYE"}
        BY <1>1, <1>5, <2>1, <2>3, <4>3 DEF RecvMessage, Goto
      <4> QED
        BY <4>1, <4>2, <4>3
    <3>2. c2s[conn[w]] \in Seq(Message) /\ c2s[conn[w]] # <<>>
      BY <2>1, <2>3 DEF TypeOK, Receive
    <3>3. 1 \in DOMAIN c2s[conn[w]] /\ Head(c2s[conn[w]]) = c2s[conn[w]][1]
      BY <3>2, TailElements
    <3> QED
      BY <1>2, <2>1, <3>1, <3>3 DEF Listening, Received
  <2> QED
    BY <2>1, <2>2, <2>3 DEF RecvMessage
<1> QED
  BY <1>2, <1>3, <1>4, <1>5

\* Whoever was told something stays in the chat until it is gone.
LEMMA ListeningStep ==
  ASSUME TypeOK, FramesFit, Served, Locked, Listening, Next
  PROVE  Listening'
<1>1. ASSUME NEW c \in Conns, peer'[c] # "open"
      PROVE  s2c'[c] = <<>>
  BY <1>1, PeerKept DEF Listening
<1>2. ASSUME NEW c \in Conns, NEW i \in DOMAIN c2s'[c], c2s'[c][i].type = "BYE"
      PROVE  peer'[c] = "closed"
  <2>1. c2s[c] \in Seq(Message) /\ asked[c] \in Nat
    BY DEF TypeOK
  <2>2. CASE c2s'[c] = c2s[c]
    BY <1>2, <2>2, PeerKept DEF Listening
  <2>3. CASE c2s'[c] = <<[type |-> "HELLO", id |-> 0]>>
    BY <1>2, <2>3
  <2>4. CASE c2s[c] # <<>> /\ c2s'[c] = Tail(c2s[c])
    BY <1>2, <2>1, <2>4, TailElements, PeerKept DEF Listening
  <2>5. ASSUME NEW type \in {"TEXT", "PING", "BYE"}, type = "BYE" => peer'[c] = "closed",
               c2s'[c] = Append(c2s[c], [type |-> type, id |-> asked[c]])
        PROVE  peer'[c] = "closed"
    <3> DEFINE m == [type |-> type, id |-> asked[c]]
    <3>1. m \in Message /\ m.type = type
      BY <2>1 DEF Message
    <3> HIDE DEF m
    <3>2. (i \in DOMAIN c2s[c] /\ c2s'[c][i] = c2s[c][i]) \/ c2s'[c][i] = m
      BY <1>2, <2>1, <2>5, <3>1, AppendElements DEF m
    <3> QED
      BY <1>2, <2>5, <3>1, <3>2, PeerKept DEF Listening
  <2> QED
    BY <2>2, <2>3, <2>4, <2>5, RequestCases
<1>3. ASSUME NEW v \in Workers, pc'[v] = "remove"
      PROVE  peer'[conn'[v]] = "closed"
  <2>1. TypeOK'
    BY TypeStep
  <2>2. conn'[v] \in Conns
    BY <1>3, <2>1 DEF TypeOK
  <2>3. ASSUME NEW w \in Workers, WorkerStep(w)
        PROVE  peer[conn'[v]] = "closed"
    <3>1. CASE v = w
      BY <1>3, <2>3, <3>1, RemovedIsGone
    <3>2. CASE v # w
      BY <1>3, <2>3, <3>2, WorkerCases DEF Listening
    <3> QED
      BY <3>1, <3>2
  <2>4. ASSUME NEW c \in Conns, Accept(c) \/ ClientStep(c)
        PROVE  peer[conn'[v]] = "closed"
    <3>1. UNCHANGED workerVars
      BY <2>4 DEF Accept, ClientStep, ClientRequest, ClientQuit, ClientClose
    <3> QED
      BY <1>3, <3>1 DEF Listening, workerVars
  <2>5. peer[conn'[v]] = "closed"
    BY <2>3, <2>4 DEF Next
  <2> QED
    BY <2>2, <2>5, PeerKept
<1>4. ASSUME NEW c \in Conns, Told(c)' # {}
      PROVE  \E i \in 1..Slots : slots'[i] = c
  <2>1. CASE Told(c) # {}
    <3>1. PICK i \in 1..Slots : slots[i] = c
      BY <2>1 DEF Listening
    <3>2. c # None
      OBVIOUS
    <3>3. ASSUME NEW w \in Workers, RemoveClient(w), c = conn[w]
          PROVE  FALSE
      <4>1. s2c[c] = <<>>
        BY <3>3 DEF RemoveClient, Listening
      <4> QED
        BY <2>1, <4>1 DEF Told
    <3> QED
      BY <3>1, <3>2, <3>3, SlotKept
  <2>2. CASE Told(c) = {}
    <3>1. PICK w \in Workers : BroadcastPart(w) /\ slots[pos[w]] = c
      BY <1>4, <2>2, ToldCases DEF Keeps
    <3> QED
      BY <3>1 DEF BroadcastPart, TypeOK
  <2> QED
    BY <2>1, <2>2
<1> QED
  BY <1>1, <1>2, <1>3, <1>4 DEF Listening

\* A frame that was composed is not composed again.
LEMMA SpentKept ==
  ASSUME TypeOK, FramesFit, Served, Next, NEW f \in Frame, Spent(f)
  PROVE  Spent(f)'
<1> DEFINE c == f.of
<1>0. c \in Conns /\ f.id \in Nat /\ queue \in Seq(Conns)
  BY DEF Frame, TypeOK
<1>1. f.kind \in {"JOINED", "LEFT"} => f.id = 0 /\ peer'[c] # "none"
  BY <1>0, PeerKept DEF Spent
<1>2. ASSUME f.kind = "JOINED"
      PROVE  /\ c \notin Range(queue')
             /\ \A w \in Workers : conn'[w] = c =>
                  pc'[w] \notin {"hello", "add"} /\ ~ (pc'[w] = "send" /\ out'[w].kind = "WELCOME")
  <2>1. /\ peer[c] # "none" /\ c \notin Range(queue)
        /\ \A w \in Workers : conn[w] = c =>
             pc[w] \notin {"hello", "add"} /\ ~ (pc[w] = "send" /\ out[w].kind = "WELCOME")
    BY <1>2 DEF Spent
  <2>2. ASSUME NEW d \in Conns, Accept(d) \/ ClientStep(d)
        PROVE  c \notin Range(queue') /\ UNCHANGED workerVars
    <3>1. UNCHANGED workerVars
      BY <2>2 DEF Accept, ClientStep, ClientRequest, ClientQuit, ClientClose
    <3>2. CASE Accept(d)
      <4>1. queue' = Append(queue, d) /\ d # c
        BY <2>1, <3>2 DEF Accept
      <4> QED
        BY <1>0, <2>1, <3>1, <4>1, RangeAppend
    <3>3. CASE ClientStep(d)
      <4>1. queue' = queue
        BY <3>3 DEF ClientStep, ClientRequest, ClientQuit, ClientClose
      <4> QED
        BY <2>1, <3>1, <4>1
    <3> QED
      BY <2>2, <3>2, <3>3
  <2>3. ASSUME NEW w \in Workers, WorkerStep(w)
        PROVE  c \notin Range(queue') /\ (conn'[w] = c /\ pc[w] = "pop" => c \in Range(queue))
    <3>1. CASE Pop(w)
      <4>1. /\ queue' = Tail(queue) /\ queue # <<>> /\ 1 \in DOMAIN queue /\ Head(queue) = queue[1]
            /\ Range(queue') \subseteq Range(queue)
        BY <1>0, <3>1, TailElements, RangeTail DEF Pop
      <4>2. conn'[w] = queue[1]
        BY <3>1, <4>1 DEF Pop, TypeOK
      <4> QED
        BY <2>1, <4>1, <4>2 DEF Range
    <3>2. CASE ~ Pop(w)
      <4>1. queue' = queue /\ pc[w] # "pop"
        BY <2>3, <3>2 DEF WorkerStep, RecvHello, SendPart, AddClient, BroadcastLock, BroadcastPart,
           BroadcastUnlock, RecvMessage, RemoveClient, CloseLeft, CloseUnknown
      <4> QED
        BY <2>1, <4>1
    <3> QED
      BY <3>1, <3>2
  <2>4. ASSUME NEW w \in Workers, WorkerStep(w), NEW v \in Workers, conn'[v] = c
        PROVE  pc'[v] \notin {"hello", "add"} /\ ~ (pc'[v] = "send" /\ out'[v].kind = "WELCOME")
    <3>1. CASE v # w
      BY <2>1, <2>4, <3>1, WorkerCases
    <3>2. CASE v = w
      <4>1. pc[w] # "pop" /\ c # None
        BY <1>0, <2>1, <2>3, <2>4, <3>2
      <4> QED
        BY <2>1, <2>4, <3>2, <4>1, WorkerCases DEF WorkerMoves
    <3> QED
      BY <3>1, <3>2
  <2> QED
    BY <2>1, <2>2, <2>3, <2>4 DEF Next, workerVars
<1>3. ASSUME f.kind = "SAID"
      PROVE  /\ f.id < asked'[c]
             /\ \A i \in DOMAIN c2s'[c] : ~ (c2s'[c][i].type = "TEXT" /\ c2s'[c][i].id = f.id)
  <2>1. /\ f.id < asked[c]
        /\ \A i \in DOMAIN c2s[c] : ~ (c2s[c][i].type = "TEXT" /\ c2s[c][i].id = f.id)
        /\ asked[c] \in Nat /\ c2s[c] \in Seq(Message)
    BY <1>0, <1>3 DEF Spent, TypeOK
  <2>2. CASE c2s'[c] = c2s[c] /\ asked'[c] = asked[c]
    BY <2>1, <2>2
  <2>3. CASE c2s'[c] = <<[type |-> "HELLO", id |-> 0]>> /\ asked'[c] = asked[c]
    BY <2>1, <2>3
  <2>4. CASE c2s[c] # <<>> /\ c2s'[c] = Tail(c2s[c]) /\ asked'[c] = asked[c]
    BY <2>1, <2>4, TailElements
  <2>5. ASSUME NEW type \in {"TEXT", "PING", "BYE"}, asked'[c] = asked[c] + 1,
               c2s'[c] = Append(c2s[c], [type |-> type, id |-> asked[c]])
        PROVE  /\ f.id < asked'[c]
               /\ \A i \in DOMAIN c2s'[c] : ~ (c2s'[c][i].type = "TEXT" /\ c2s'[c][i].id = f.id)
    <3> DEFINE m == [type |-> type, id |-> asked[c]]
    <3>1. m \in Message /\ m.id # f.id
      BY <1>0, <2>1 DEF Message
    <3>2. f.id < asked'[c]
      BY <1>0, <2>1, <2>5
    <3> HIDE DEF m
    <3>3. \A i \in DOMAIN c2s'[c] : (i \in DOMAIN c2s[c] /\ c2s'[c][i] = c2s[c][i]) \/ c2s'[c][i] = m
      BY <2>1, <2>5, <3>1, AppendElements DEF m
    <3> QED
      BY <2>1, <3>1, <3>2, <3>3
  <2> QED
    BY <1>0, <2>2, <2>3, <2>4, <2>5, RequestCases
<1>4. ASSUME f.kind = "LEFT"
      PROVE  c \notin isOpen'
  <2>1. peer[c] # "none" /\ c \notin isOpen
    BY <1>4 DEF Spent
  <2>2. isOpen' \subseteq isOpen \/ \E d \in Conns : peer[d] = "none" /\ isOpen' = isOpen \cup {d}
    BY DEF Next, Accept, ClientStep, ClientRequest, ClientQuit, ClientClose, WorkerStep, Pop,
       RecvHello, SendPart, AddClient, BroadcastLock, BroadcastPart, BroadcastUnlock, RecvMessage,
       RemoveClient, CloseLeft, CloseUnknown
  <2> QED
    BY <2>1, <2>2
<1> QED
  BY <1>1, <1>2, <1>3, <1>4 DEF Spent

\* What a worker composes was not spent before, and is now.
LEMMA ComposedIsNew ==
  ASSUME TypeOK, FramesFit, Served, Numbered, Next, NEW w \in Workers, WorkerStep(w),
         pc[w] # "broadcast", pc'[w] = "broadcast", Served', NEW f \in Frame, f = out'[w]
  PROVE  ~ Spent(f) /\ Spent(f)'
<1>0. /\ conn[w] \in Conns /\ conn'[w] = conn[w] /\ f.of = conn[w] /\ f \in Frame
      /\ \/ pc[w] = "add" /\ f.kind = "JOINED"
         \/ pc[w] = "recv" /\ f.kind = "SAID"
         \/ pc[w] = "close" /\ f.kind = "LEFT"
  <2>1. pc[w] = "pop" <=> conn[w] = None
    BY DEF TypeOK
  <2>2. conn[w] \in Conns \cup {None} /\ WorkerMoves(w)
    BY WorkerCases DEF TypeOK
  <2> QED
    BY <2>1, <2>2 DEF WorkerMoves
<1> DEFINE c == conn[w]
<1>1. peer[c] # "none" /\ peer'[c] # "none"
  BY <1>0, PeerKept DEF Served
<1>2. out \in [Workers -> Frame \cup {None}] /\ pc \in [Workers -> Stages]
  BY DEF TypeOK
<1>3. CASE pc[w] = "add"
  <2>1. AddClient(w)
    BY <1>3 DEF WorkerStep, Pop, RecvHello, SendPart, BroadcastLock, BroadcastPart,
       BroadcastUnlock, RecvMessage, RemoveClient, CloseLeft, CloseUnknown
  <2>2. f.id = 0
    BY <1>2, <1>3, <2>1 DEF AddClient, Prepare, Goto
  <2>3. ~ Spent(f)
    BY <1>0, <1>3 DEF Spent
  <2>4. Spent(f)'
    BY <1>0, <1>1, <1>3, <2>2 DEF Spent, Served
  <2> QED
    BY <2>3, <2>4
<1>4. CASE pc[w] = "recv"
  <2>1. RecvMessage(w)
    BY <1>4 DEF WorkerStep, Pop, RecvHello, SendPart, AddClient, BroadcastLock, BroadcastPart,
       BroadcastUnlock, RemoveClient, CloseLeft, CloseUnknown
  <2>2. Receive(w) /\ Received(w).type = "TEXT" /\ Prepare(w, "SAID", Received(w).id)
    <3>1. ~ RecvFailed(w) \/ Receive(w)
      BY <1>2, <1>4, <2>1 DEF RecvMessage, Goto, Receive
    <3>2. CASE Receive(w)
      <4>0. ~ RecvFailed(w)
        BY <3>2 DEF Receive, RecvFailed
      <4>1. CASE Received(w).type = "TEXT"
        BY <2>1, <3>2, <4>0, <4>1 DEF RecvMessage
      <4>2. CASE Received(w).type = "PING"
        BY <1>2, <2>1, <4>0, <4>2 DEF RecvMessage, Goto
      <4>3. CASE Received(w).type = "BYE"
        BY <1>2, <2>1, <4>0, <4>3 DEF RecvMessage, Goto
      <4>4. CASE Received(w).type \notin {"TEXT", "PING", "BYE"}
        BY <1>2, <1>4, <2>1, <4>0, <4>4 DEF RecvMessage
      <4> QED
        BY <4>1, <4>2, <4>3, <4>4
    <3> QED
      BY <2>1, <3>1, <3>2 DEF RecvMessage
  <2>3. f.id = Received(w).id
    BY <1>2, <2>2 DEF Prepare
  <2>4. /\ c2s[c] \in Seq(Message) /\ c2s[c] # <<>> /\ c2s'[c] = Tail(c2s[c])
        /\ Received(w) = Head(c2s[c]) /\ asked' = asked /\ asked[c] \in Nat
    BY <1>0, <2>1, <2>2 DEF RecvMessage, Receive, Received, TypeOK
  <2>5. /\ 1 \in DOMAIN c2s[c] /\ c2s[c][1].type = "TEXT" /\ c2s[c][1].id = f.id
        /\ Tail(c2s[c]) \in Seq(Message)
        /\ \A k \in DOMAIN c2s'[c] : k + 1 \in DOMAIN c2s[c] /\ c2s'[c][k] = c2s[c][k + 1]
    BY <2>2, <2>3, <2>4, TailElements
  <2>6. \A k \in DOMAIN c2s'[c] : k \in Nat /\ k # 0
    BY <2>4, <2>5, LenProperties
  <2>7. f.id < asked[c]
    BY <1>0, <2>5 DEF Numbered
  <2>8. ASSUME NEW k \in DOMAIN c2s'[c], c2s'[c][k].type = "TEXT", c2s'[c][k].id = f.id
        PROVE  FALSE
    <3>1. k + 1 = 1
      BY <1>0, <2>5, <2>8 DEF Numbered
    <3> QED
      BY <2>6, <3>1
  <2>9. ~ Spent(f)
    BY <1>0, <1>4, <2>5 DEF Spent
  <2>10. Spent(f)'
    BY <1>0, <1>4, <2>4, <2>7, <2>8 DEF Spent
  <2> QED
    BY <2>9, <2>10
<1>5. CASE pc[w] = "close"
  <2>1. CloseLeft(w)
    BY <1>5 DEF WorkerStep, Pop, RecvHello, SendPart, AddClient, BroadcastLock, BroadcastPart,
       BroadcastUnlock, RecvMessage, RemoveClient, CloseUnknown
  <2>2. f.id = 0 /\ c \notin isOpen'
    BY <1>2, <2>1 DEF CloseLeft, Prepare
  <2>3. c \in isOpen
    BY <1>0, <1>5 DEF Served, Leaving
  <2>4. ~ Spent(f)
    BY <1>0, <1>5, <2>3 DEF Spent
  <2>5. Spent(f)'
    BY <1>0, <1>1, <1>5, <2>2 DEF Spent
  <2> QED
    BY <2>4, <2>5
<1> QED
  BY <1>0, <1>3, <1>4, <1>5

\* A broadcast goes on, or it is composed.
LEMMA BroadcastCases ==
  ASSUME TypeOK, FramesFit, Next, NEW v \in Workers, pc'[v] \in {"broadcast", "walk"}
  PROVE  \/ /\ pc[v] \in {"broadcast", "walk"} /\ out'[v] = out[v] /\ conn'[v] = conn[v]
            /\ pc'[v] = "broadcast" => pc[v] = "broadcast"
         \/ WorkerStep(v) /\ pc[v] \notin {"broadcast", "walk"} /\ pc'[v] = "broadcast"
<1>1. ASSUME NEW w \in Workers, WorkerStep(w)
      PROVE  \/ /\ pc[v] \in {"broadcast", "walk"} /\ out'[v] = out[v] /\ conn'[v] = conn[v]
                /\ pc'[v] = "broadcast" => pc[v] = "broadcast"
             \/ WorkerStep(v) /\ pc[v] \notin {"broadcast", "walk"} /\ pc'[v] = "broadcast"
  BY <1>1, WorkerCases DEF WorkerMoves
<1>2. ASSUME NEW c \in Conns, Accept(c) \/ ClientStep(c)
      PROVE  UNCHANGED workerVars
  BY <1>2 DEF Accept, ClientStep, ClientRequest, ClientQuit, ClientClose
<1> QED
  BY <1>1, <1>2 DEF Next, workerVars

\* Two workers never send the same frame: it names the client of the worker.
LEMMA FramesDiffer ==
  ASSUME TypeOK, Served, Locked, NEW v \in Workers, NEW w \in Workers, v # w,
         pc[v] \in {"broadcast", "walk"}, pc[w] \in {"broadcast", "walk"}
  PROVE  out[v] # out[w]
<1>1. conn[v] # None /\ out[v].of = conn[v] /\ out[w].of = conn[w]
  BY DEF TypeOK, Locked
<1> QED
  BY <1>1 DEF Served

\* What is composed was heard by nobody, and stays so until the walk.
LEMMA FreshStep ==
  ASSUME TypeOK, FramesFit, Served, Locked, Numbered, Fresh, Next, Served'
  PROVE  Fresh'
<1>t. TypeOK'
  BY TypeStep
<1>1. ASSUME NEW v \in Workers, NEW f \in Frame, pc'[v] \in {"broadcast", "walk"}, out'[v] = f
      PROVE  Spent(f)'
  <2>1. CASE pc[v] \in {"broadcast", "walk"} /\ out'[v] = out[v]
    <3>1. Spent(f)
      BY <1>1, <2>1 DEF Fresh
    <3> QED
      BY <3>1, SpentKept
  <2>2. CASE WorkerStep(v) /\ pc[v] \notin {"broadcast", "walk"} /\ pc'[v] = "broadcast"
    BY <1>1, <2>2, ComposedIsNew
  <2> QED
    BY <1>1, <2>1, <2>2, BroadcastCases
<1>2. ASSUME NEW c \in Conns, NEW f \in Frame, NEW k \in Told(c)', s2c'[c][k].frame = f
      PROVE  Spent(f)'
  <2>1. Spent(f)
    <3>1. CASE k \in Told(c) /\ s2c'[c][k] = s2c[c][k]
      BY <1>2, <3>1 DEF Fresh
    <3>2. CASE \E w \in Workers : BroadcastPart(w) /\ f = out[w]
      BY <3>2 DEF Fresh, BroadcastPart
    <3> QED
      BY <1>2, <3>1, <3>2, ToldCases DEF Keeps, Hears
  <2> QED
    BY <2>1, SpentKept
<1>3. ASSUME NEW v \in Workers, NEW c \in Conns, pc'[v] = "broadcast", NEW k \in Told(c)'
      PROVE  s2c'[c][k].frame # out'[v]
  <2>0. out'[v] \in Frame
    BY <1>3, <1>t DEF TypeOK
  <2>1. CASE k \in Told(c) /\ s2c'[c][k] = s2c[c][k]
    <3>1. CASE pc[v] = "broadcast" /\ out'[v] = out[v]
      BY <2>1, <3>1 DEF Fresh
    <3>2. CASE WorkerStep(v) /\ pc[v] \notin {"broadcast", "walk"} /\ pc'[v] = "broadcast"
      <4>1. PICK f \in Frame : f = out'[v]
        BY <2>0
      <4>2. ~ Spent(f)
        BY <3>2, <4>1, ComposedIsNew
      <4>3. s2c[c][k].frame # f
        BY <2>1, <4>2 DEF Fresh
      <4> QED
        BY <2>1, <4>1, <4>3
    <3> QED
      BY <1>3, <3>1, <3>2, BroadcastCases
  <2>2. ASSUME NEW w \in Workers, BroadcastPart(w), s2c'[c][k].frame = out[w]
        PROVE  s2c'[c][k].frame # out'[v]
    <3>1. pc[w] = "walk" /\ pc' = pc /\ out' = out
      BY <2>2 DEF BroadcastPart
    <3>2. v # w /\ pc[v] = "broadcast"
      BY <1>3, <3>1
    <3> QED
      BY <2>2, <3>1, <3>2, FramesDiffer
  <2> QED
    BY <1>3, <2>1, <2>2, ToldCases DEF Keeps, Hears
<1> QED
  BY <1>1, <1>2, <1>3 DEF Fresh

-----------------------------------------------------------------------------
(* The walk. *)

\* One step of the walk passes the client in the slot it has come to and nobody else, and
\* this client hears the broadcast, unless it is gone or has heard it before.
LEMMA WalkStep ==
  ASSUME TypeOK, FramesFit, SlotsOwned, NEW w \in Workers, BroadcastPart(w), NEW d \in Conns
  PROVE  /\ slots[pos[w]] # d => (Awaits(w, d)' <=> Awaits(w, d)) /\ Keeps(d)
         /\ slots[pos[w]] = d => ~ Awaits(w, d)'
         /\ slots[pos[w]] = d /\ Awaits(w, d) =>
              part[w] = 1 /\ ((peer[d] = "closed" /\ Keeps(d)) \/ Hears(d, w))
         /\ slots[pos[w]] = d /\ ~ Awaits(w, d) => Keeps(d)
<1>1. /\ pc[w] = "walk" /\ pos[w] \in 1..Slots /\ Slots \in Nat /\ out[w] \in Frame
      /\ part[w] \in 1..3 /\ UNCHANGED slots /\ d # None
      /\ out[w].kind \in {"JOINED", "SAID", "LEFT"}
  BY DEF BroadcastPart, TypeOK, Parts, FramesFit
<1>2. \/ part[w] < 3 /\ part'[w] = part[w] + 1 /\ pos'[w] = pos[w] /\ slots[pos[w]] # None
         /\ Sent(w, slots[pos[w]])
      \/ part'[w] = 1 /\ pos'[w] = pos[w] + 1
         /\ \/ slots[pos[w]] = None /\ UNCHANGED s2c
            \/ slots[pos[w]] # None /\ Failed(slots[pos[w]])
            \/ slots[pos[w]] # None /\ Sent(w, slots[pos[w]]) /\ part[w] = 3
  BY DEF BroadcastPart, TypeOK, Parts
<1>3. ASSUME NEW i \in 1..Slots, slots[i] = d
      PROVE  \A j \in 1..Slots : slots[j] = d => j = i
  BY <1>1, <1>3 DEF SlotsOwned
<1>4. ASSUME slots[pos[w]] # d
      PROVE  (Awaits(w, d)' <=> Awaits(w, d)) /\ Keeps(d)
  <2>1. \A i \in 1..Slots : slots[i] = d => i # pos[w]
    BY <1>4
  <2>2. \A i \in 1..Slots : slots[i] = d =>
          ((pos'[w] < i \/ (pos'[w] = i /\ part'[w] = 1)) <=>
           (pos[w] < i \/ (pos[w] = i /\ part[w] = 1)))
    BY <1>1, <1>2, <2>1
  <2>3. Awaits(w, d)' <=> Awaits(w, d)
    BY <1>1, <2>2 DEF Awaits
  <2>4. Keeps(d)
    <3>1. CASE UNCHANGED s2c
      BY <3>1 DEF Keeps, Told
    <3>2. CASE slots[pos[w]] # None /\ (Sent(w, slots[pos[w]]) \/ Failed(slots[pos[w]]))
      <4>1. slots[pos[w]] \in Conns
        BY <1>1, <3>2 DEF TypeOK
      <4> QED
        BY <1>1, <1>4, <3>2, <4>1, SentTold
    <3> QED
      BY <1>2, <3>1, <3>2
  <2> QED
    BY <2>3, <2>4
<1>5. ASSUME slots[pos[w]] = d
      PROVE  /\ ~ Awaits(w, d)'
             /\ Awaits(w, d) => part[w] = 1 /\ ((peer[d] = "closed" /\ Keeps(d)) \/ Hears(d, w))
             /\ ~ Awaits(w, d) => Keeps(d)
  <2>1. \A i \in 1..Slots : slots[i] = d => i = pos[w]
    BY <1>1, <1>3, <1>5
  <2>2. Awaits(w, d) <=> part[w] = 1
    BY <1>1, <1>5, <2>1 DEF Awaits
  <2>3. ~ Awaits(w, d)'
    BY <1>1, <1>2, <2>1 DEF Awaits
  <2>4. CASE part[w] # 1
    <3>1. Sent(w, d) \/ Failed(d) \/ UNCHANGED s2c
      BY <1>2, <1>5
    <3> QED
      BY <1>1, <2>2, <2>3, <2>4, <3>1, SentTold
  <2>5. CASE part[w] = 1
    <3>1. CASE Failed(d)
      BY <2>2, <2>3, <2>5, <3>1 DEF Failed, Keeps, Told
    <3>2. CASE Sent(w, d)
      <4>1. CASE peer[d] = "closed" /\ UNCHANGED s2c
        BY <2>2, <2>3, <2>5, <4>1 DEF Keeps, Told
      <4>2. CASE s2c' = [s2c EXCEPT ![d] = Append(@, [frame |-> out[w], part |-> part[w]])]
        <5> DEFINE Thirds == [frame : Frame, part : 1..Parts]
                   third == [frame |-> out[w], part |-> part[w]]
        <5>1. third \in Thirds /\ s2c[d] \in Seq(Thirds) /\ s2c'[d] = Append(s2c[d], third)
          BY <1>1, <4>2 DEF TypeOK
        <5>2. third.frame = out[w] /\ third.part = 1
          BY <2>5
        <5> HIDE DEF Thirds, third
        <5>3. Len(s2c[d]) + 1 \in DOMAIN s2c'[d] /\ s2c'[d][Len(s2c[d]) + 1] = third
              /\ Len(s2c[d]) + 1 \notin DOMAIN s2c[d]
          BY <5>1, AppendElements
        <5>4. Len(s2c[d]) + 1 \in Told(d)' /\ Len(s2c[d]) + 1 \notin Told(d)
          BY <1>1, <5>2, <5>3 DEF Told
        <5>5. ~ Keeps(d)
          BY <5>4 DEF Keeps
        <5>6. Hears(d, w)
          BY <1>1, <3>2, <5>5, SentTold
        <5> QED
          BY <2>2, <2>3, <2>5, <5>6
      <4> QED
        BY <3>2, <4>1, <4>2 DEF Sent
    <3> QED
      BY <1>2, <1>5, <2>5, <1>1, <3>1, <3>2
  <2> QED
    BY <2>4, <2>5
<1> QED
  BY <1>4, <1>5

\* A walk is the only one, and any other step leaves it where it is, unless it ends it.
LEMMA WalkGoesOn ==
  ASSUME TypeOK, FramesFit, Locked, Next, NEW v \in Workers, NEW d \in Conns
  PROVE  /\ \A w \in Workers : pc[v] = "walk" /\ pc[w] = "walk" => v = w
         /\ pc[v] = "walk" /\ ~ BroadcastPart(v) =>
              \/ pc'[v] = "walk" /\ out'[v] = out[v] /\ (Awaits(v, d)' <=> Awaits(v, d))
              \/ pc'[v] # "walk" /\ ~ Awaits(v, d)
         /\ pc'[v] = "walk" /\ pc[v] # "walk" => BroadcastLock(v)
<1>0. \A w \in Workers : pc[v] = "walk" /\ pc[w] = "walk" => v = w
  BY DEF Locked
<1>1. ASSUME NEW c \in Conns, Accept(c) \/ ClientStep(c)
      PROVE  UNCHANGED workerVars
  BY <1>1 DEF Accept, ClientStep, ClientRequest, ClientQuit, ClientClose
<1>2. ASSUME pc[v] = "walk", ~ BroadcastPart(v)
      PROVE  \/ pc'[v] = "walk" /\ out'[v] = out[v] /\ (Awaits(v, d)' <=> Awaits(v, d))
             \/ pc'[v] # "walk" /\ ~ Awaits(v, d)
  <2>1. UNCHANGED slots
    BY <1>2, SlotKept
  <2>2. CASE WorkerStep(v)
    <3>1. BroadcastUnlock(v)
      BY <1>2, <2>2 DEF WorkerStep, Pop, RecvHello, SendPart, AddClient, BroadcastLock,
         RecvMessage, RemoveClient, CloseLeft, CloseUnknown
    <3>2. pos[v] > Slots /\ pos[v] \in Nat /\ Slots \in Nat /\ pc'[v] # "walk"
      BY <3>1 DEF BroadcastUnlock, Goto, TypeOK
    <3> QED
      BY <3>2 DEF Awaits
  <2>3. CASE ~ WorkerStep(v)
    <3>1. pc'[v] = pc[v] /\ out'[v] = out[v] /\ part'[v] = part[v] /\ pos'[v] = pos[v]
      BY <1>1, <2>3, WorkerCases, WorkerPlace DEF Next, workerVars
    <3> QED
      BY <1>2, <2>1, <3>1 DEF Awaits
  <2> QED
    BY <2>2, <2>3
<1>3. ASSUME pc'[v] = "walk", pc[v] # "walk"
      PROVE  BroadcastLock(v)
  <2>1. WorkerStep(v) /\ pc[v] = "broadcast"
    BY <1>1, <1>3, WorkerCases DEF Next, workerVars, WorkerMoves
  <2> QED
    BY <2>1 DEF WorkerStep, Pop, RecvHello, SendPart, AddClient, BroadcastPart, BroadcastUnlock,
       RecvMessage, RemoveClient, CloseLeft, CloseUnknown
<1> QED
  BY <1>0, <1>2, <1>3

\* Only a client that is waited for hears the broadcast.
LEMMA HearerAwaited ==
  ASSUME TypeOK, NEW w \in Workers, NEW d \in Conns, BroadcastPart(w), slots[pos[w]] = d,
         part[w] = 1
  PROVE  pc[w] = "walk" /\ Awaits(w, d)
<1>1. pos[w] \in 1..Slots
  BY DEF BroadcastPart, TypeOK
<1> QED
  BY <1>1 DEF BroadcastPart, Awaits

\* The broadcast is the latest thing heard by those that were passed.
LEMMA OnAirStep ==
  ASSUME TypeOK, FramesFit, Served, SlotsOwned, Locked, Fresh, OnAir, Next
  PROVE  OnAir'
<1> DEFINE Good(v, c) ==
      /\ Awaits(v, c) => \A k \in Told(c) : s2c[c][k].frame # out[v]
      /\ \A k, l \in Told(c) : s2c[c][k].frame = out[v] => l <= k
      /\ peer[c] = "open" /\ (\E i \in 1..Slots : slots[i] = c) /\ ~ Awaits(v, c) =>
           \E k \in Told(c) : s2c[c][k].frame = out[v]
<1> SUFFICES ASSUME NEW v \in Workers, NEW c \in Conns, pc'[v] = "walk" PROVE Good(v, c)'
  BY DEF OnAir
<1>0. pc[v] = "walk" => Good(v, c)
  BY DEF OnAir
<1>1. CASE \E w \in Workers : BroadcastPart(w)
  <2>1. PICK w \in Workers : BroadcastPart(w)
    BY <1>1
  <2>2. pc[w] = "walk" /\ UNCHANGED <<pc, out, peer, slots>>
    BY <2>1 DEF BroadcastPart
  <2>3. v = w
    BY <2>2, WalkGoesOn
  <2>4. CASE Keeps(c)
    <3>1. Awaits(w, c)' => Awaits(w, c)
      BY <2>1, WalkStep
    <3>2. ~ Awaits(w, c)' /\ Awaits(w, c) => peer[c] # "open" \/ Hears(c, w)
      BY <2>1, WalkStep
    <3>3. Awaits(w, c) => ~ Hears(c, w)
      BY <1>0, <2>2, <2>3, <2>4 DEF Hears, Keeps
    <3> QED
      BY <1>0, <2>2, <2>3, <2>4, <3>1, <3>2, <3>3 DEF Keeps
  <2>5. CASE ~ Keeps(c)
    <3>1. Awaits(w, c) /\ ~ Awaits(w, c)' /\ Hears(c, w)
      BY <2>1, <2>5, WalkStep
    <3>2. PICK n \in Nat :
            /\ Told(c)' = Told(c) \cup {n} /\ s2c'[c][n].frame = out[w]
            /\ \A k \in Told(c) : k < n /\ s2c'[c][k] = s2c[c][k]
      BY <3>1 DEF Hears
    <3>3. ASSUME NEW k \in Told(c)', NEW l \in Told(c)', s2c'[c][k].frame = out[w]
          PROVE  l <= k
      <4>1. k = n
        BY <1>0, <2>2, <2>3, <3>1, <3>2, <3>3
      <4>2. l = n \/ (l \in Nat /\ l < n)
        BY <3>2, ToldPlaces
      <4> QED
        BY <4>1, <4>2
    <3> QED
      BY <2>2, <2>3, <3>1, <3>2, <3>3
  <2> QED
    BY <2>4, <2>5
<1>2. CASE ~ \E w \in Workers : BroadcastPart(w)
  <2>1. Keeps(c) \/ (Told(c)' = {} /\ peer'[c] = "closed")
    BY <1>2, ToldCases
  <2>2. CASE pc[v] = "walk"
    <3>1. UNCHANGED slots
      BY <2>2, SlotKept
    <3>2. (\E i \in 1..Slots : slots[i] = c) /\ peer'[c] = "open" => peer[c] = "open"
      <4>1. (\E i \in 1..Slots : slots[i] = c) => peer[c] # "none"
        BY DEF SlotsOwned, Served
      <4> QED
        BY <4>1, PeerKept DEF TypeOK
    <3>3. out'[v] = out[v] /\ (Awaits(v, c)' <=> Awaits(v, c))
      BY <1>2, <2>2, WalkGoesOn
    <3> QED
      BY <1>0, <2>1, <2>2, <3>1, <3>2, <3>3 DEF Keeps
  <2>3. CASE pc[v] # "walk"
    <3>1. BroadcastLock(v)
      BY <2>3, WalkGoesOn
    <3>2. /\ pc[v] = "broadcast" /\ UNCHANGED <<out, part, pos, slots, peer, s2c>>
          /\ part[v] = 1 /\ pos[v] = 1
      BY <3>1 DEF BroadcastLock, Locked
    <3>3. \A k \in Told(c) : s2c[c][k].frame # out[v]
      BY <3>2 DEF Fresh
    <3>4. (\E i \in 1..Slots : slots[i] = c) => Awaits(v, c)'
      BY <3>2 DEF Awaits
    <3>5. Told(c)' = Told(c)
      BY <3>2 DEF Told
    <3> QED
      BY <3>2, <3>3, <3>4, <3>5
  <2> QED
    BY <2>2, <2>3
<1> QED
  BY <1>1, <1>2

\* Nobody hears a frame twice: who is waited for has not heard it.
LEMMA OnceStep ==
  ASSUME TypeOK, FramesFit, OnAir, Once, Next
  PROVE  Once'
<1> SUFFICES ASSUME NEW c \in Conns, NEW k \in Told(c)', NEW l \in Told(c)',
                    s2c'[c][k].frame = s2c'[c][l].frame
             PROVE  k = l
  BY DEF Once
<1>1. CASE Keeps(c)
  BY <1>1 DEF Keeps, Once
<1>2. CASE \E w \in Workers :
             BroadcastPart(w) /\ slots[pos[w]] = c /\ part[w] = 1 /\ Hears(c, w)
  <2>1. PICK w \in Workers :
          BroadcastPart(w) /\ slots[pos[w]] = c /\ part[w] = 1 /\ Hears(c, w)
    BY <1>2
  <2>2. \A j \in Told(c) : s2c[c][j].frame # out[w]
    BY <2>1, HearerAwaited DEF OnAir
  <2> QED
    BY <2>1, <2>2 DEF Hears, Once
<1> QED
  BY <1>1, <1>2, ToldCases

\* Nothing is heard of a client after it has left: its worker sends nothing else by then.
LEMMA LeftLastStep ==
  ASSUME TypeOK, FramesFit, Served, Locked, Fresh, OnAir, LeftLast, Next
  PROVE  LeftLast'
<1> SUFFICES ASSUME NEW d \in Conns, NEW k \in Told(d)', NEW l \in Told(d)',
                    s2c'[d][k].frame.kind = "LEFT", k < l,
                    s2c'[d][l].frame.of = s2c'[d][k].frame.of
             PROVE  FALSE
  BY DEF LeftLast
<1>1. CASE Keeps(d)
  BY <1>1 DEF Keeps, LeftLast
<1>2. ASSUME NEW w \in Workers, BroadcastPart(w), slots[pos[w]] = d, part[w] = 1, Hears(d, w)
      PROVE  FALSE
  <2>1. PICK n \in Nat :
          /\ Told(d)' = Told(d) \cup {n} /\ s2c'[d][n].frame = out[w]
          /\ \A j \in Told(d) : j < n /\ s2c'[d][j] = s2c[d][j]
    BY <1>2 DEF Hears
  <2>2. k \in Told(d)
    <3>1. k = n => ~ (k < l)
      BY <2>1, ToldPlaces
    <3> QED
      BY <2>1, <3>1
  <2>3. l = n
    BY <2>1, <2>2 DEF LeftLast
  <2> DEFINE f == s2c[d][k].frame
  <2>4. f \in Frame /\ out[w] \in Frame /\ pc[w] = "walk"
    BY <1>2, <2>2, ToldPlaces DEF BroadcastPart, TypeOK
  <2>5. f.kind = "LEFT" /\ out[w].of = f.of
    BY <2>1, <2>2, <2>3
  <2> HIDE DEF f
  <2>6. Spent(f) /\ Spent(out[w])
    BY <2>2, <2>4 DEF Fresh, f
  <2>7. conn[w] = f.of /\ f.of \in Conns /\ f.of \notin isOpen
    BY <2>4, <2>5, <2>6 DEF Locked, Spent, Frame
  <2>8. out[w].kind = "LEFT"
    BY <2>7 DEF Served, Leaving
  <2>9. f.id = 0 /\ out[w].id = 0
    BY <2>5, <2>6, <2>8 DEF Spent
  <2>10. f = out[w]
    BY <2>4, <2>5, <2>8, <2>9 DEF Frame
  <2>11. f # out[w]
    BY <1>2, <2>2, HearerAwaited DEF OnAir, f
  <2> QED
    BY <2>10, <2>11
<1> QED
  BY <1>1, <1>2, ToldCases

\* What one client hears, the others will hear, if they are in the chat.
LEMMA SyncStep ==
  ASSUME TypeOK, FramesFit, Served, SlotsOwned, Locked, Listening, OnAir, Sync, Next
  PROVE  Sync'
<1> SUFFICES ASSUME NEW c \in Conns, NEW d \in Conns, NEW k \in Told(c)', NEW m \in Told(c)',
                    NEW l \in Told(d)', s2c'[c][k].frame = s2c'[d][l].frame, k < m
             PROVE  \/ \E w \in Workers :
                         pc'[w] = "walk" /\ out'[w] = s2c'[c][m].frame /\ Awaits(w, d)'
                    \/ \E n \in Told(d)' : l < n /\ s2c'[d][n].frame = s2c'[c][m].frame
  BY DEF Sync
<1>1. CASE ~ \E w \in Workers : BroadcastPart(w)
  <2>1. Keeps(c) /\ Keeps(d)
    BY <1>1, ToldCases
  <2>2. CASE \E n \in Told(d) : l < n /\ s2c[d][n].frame = s2c[c][m].frame
    BY <2>1, <2>2 DEF Keeps
  <2>3. CASE \E w \in Workers : pc[w] = "walk" /\ out[w] = s2c[c][m].frame /\ Awaits(w, d)
    BY <1>1, <2>1, <2>3, WalkGoesOn DEF Keeps
  <2> QED
    BY <2>1, <2>2, <2>3 DEF Keeps, Sync
<1>2. ASSUME NEW w \in Workers, BroadcastPart(w)
      PROVE  \/ pc'[w] = "walk" /\ out'[w] = s2c'[c][m].frame /\ Awaits(w, d)'
             \/ \E n \in Told(d)' : l < n /\ s2c'[d][n].frame = s2c'[c][m].frame
  <2>1. pc[w] = "walk" /\ UNCHANGED <<pc, out>>
    BY <1>2 DEF BroadcastPart
  <2>2. Keeps(c) \/ (Awaits(w, c) /\ Hears(c, w))
    BY <1>2, WalkStep
  <2>3. Keeps(d) \/ (Awaits(w, d) /\ Hears(d, w))
    BY <1>2, WalkStep
  <2>4. k \in Told(c) /\ s2c'[c][k] = s2c[c][k]
    <3>1. CASE Keeps(c)
      BY <3>1 DEF Keeps
    <3>2. CASE Hears(c, w)
      <4>1. PICK n \in Nat :
              /\ Told(c)' = Told(c) \cup {n}
              /\ \A j \in Told(c) : j < n /\ s2c'[c][j] = s2c[c][j]
        BY <3>2 DEF Hears
      <4>2. k # n
        BY <4>1, ToldPlaces
      <4> QED
        BY <4>1, <4>2
    <3> QED
      BY <2>2, <3>1, <3>2
  <2>5. Awaits(w, c) => s2c[c][k].frame # out[w]
    BY <2>1, <2>4 DEF OnAir
  \* Whoever the walk has not passed now was not passed before, or is hearing it.
  <2>6. ASSUME Awaits(w, d), l \in Told(d), s2c'[c][m].frame = out[w]
        PROVE  \/ Awaits(w, d)'
               \/ \E n \in Told(d)' : l < n /\ s2c'[d][n].frame = out[w]
    <3>1. peer[d] # "closed"
      BY <2>6 DEF Listening, Told
    <3>2. Awaits(w, d)' \/ Hears(d, w)
      BY <1>2, <2>6, <3>1, WalkStep
    <3> QED
      BY <2>6, <3>2 DEF Hears
  <2>7. CASE m \in Told(c) /\ s2c'[c][m] = s2c[c][m]
    <3>1. CASE l \in Told(d) /\ s2c'[d][l] = s2c[d][l]
      <4>1. CASE \E n \in Told(d) : l < n /\ s2c[d][n].frame = s2c[c][m].frame
        BY <2>3, <2>7, <4>1 DEF Keeps, Hears
      <4>2. CASE \E v \in Workers : pc[v] = "walk" /\ out[v] = s2c[c][m].frame /\ Awaits(v, d)
        <5>1. out[w] = s2c[c][m].frame /\ Awaits(w, d)
          BY <2>1, <4>2, WalkGoesOn
        <5> QED
          BY <2>1, <2>6, <2>7, <3>1, <5>1
      <4> QED
        BY <2>4, <2>7, <3>1, <4>1, <4>2 DEF Sync
    <3>2. CASE s2c'[d][l].frame = out[w]
      <4>1. m <= k
        BY <2>1, <2>4, <2>7, <3>2 DEF OnAir
      <4>2. k \in Nat /\ m \in Nat
        BY <2>4, <2>7, ToldPlaces
      <4> QED
        BY <4>1, <4>2
    <3> QED
      BY <2>3, <3>1, <3>2 DEF Keeps, Hears
  <2>8. CASE s2c'[c][m].frame = out[w] /\ Awaits(w, c)
    <3>1. l \in Told(d) /\ s2c'[d][l] = s2c[d][l]
      BY <2>3, <2>4, <2>5, <2>8 DEF Keeps, Hears
    <3>2. CASE Awaits(w, d)
      BY <2>1, <2>6, <2>8, <3>1, <3>2
    <3>3. CASE ~ Awaits(w, d)
      <4>1. Keeps(d)
        BY <2>3, <3>3
      <4>2. peer[d] = "open" /\ \E i \in 1..Slots : slots[i] = d
        BY <3>1 DEF Listening, Told
      <4>3. PICK n \in Told(d) : s2c[d][n].frame = out[w]
        BY <2>1, <3>3, <4>2 DEF OnAir
      <4>4. l <= n /\ l # n
        BY <2>1, <2>4, <2>5, <2>8, <3>1, <4>3 DEF OnAir
      <4>5. l \in Nat /\ n \in Nat
        BY <3>1, <4>3, ToldPlaces
      <4>6. l < n
        BY <4>4, <4>5
      <4> QED
        BY <2>8, <4>1, <4>3, <4>6 DEF Keeps
    <3> QED
      BY <3>2, <3>3
  <2> QED
    BY <2>2, <2>7, <2>8 DEF Keeps, Hears
<1> QED
  BY <1>1, <1>2

-----------------------------------------------------------------------------
(* What the clients are told: the theorems. *)

\* Nobody was told anything.
LEMMA InitTold == Init => ToldInv
<1> SUFFICES ASSUME Init PROVE ToldInv
  OBVIOUS
<1>1. IInv /\ \A c \in Conns : Told(c) = {}
  BY InitIInv DEF Init, Told
<1>2. Locked /\ Listening
  BY <1>1 DEF Init, Locked, Listening
<1>3. Numbered /\ Fresh /\ OnAir
  BY <1>1 DEF Init, Numbered, Fresh, OnAir
<1>4. Once /\ Sync /\ LeftLast
  BY <1>1 DEF Once, Sync, LeftLast
<1> QED
  BY <1>1, <1>2, <1>3, <1>4 DEF ToldInv

\* Every step, of a worker or a client, preserves the invariant.
LEMMA StepTold == ToldInv /\ [Next]_vars => ToldInv'
<1> SUFFICES ASSUME ToldInv, [Next]_vars PROVE ToldInv'
  OBVIOUS
<1>0. /\ IInv /\ TypeOK /\ FramesFit /\ Served /\ SlotsOwned
      /\ Locked /\ Listening /\ Numbered /\ Fresh /\ OnAir /\ Once /\ Sync /\ LeftLast
  BY DEF ToldInv, IInv
<1>1. IInv' /\ Served'
  BY <1>0, StepIInv DEF IInv
<1>2. CASE Next
  BY <1>0, <1>1, <1>2, LockedStep, ListeningStep, NumberedStep, FreshStep, OnAirStep, OnceStep,
     SyncStep, LeftLastStep DEF ToldInv
<1>3. CASE UNCHANGED vars
  <2> USE <1>0, <1>3 DEF vars, workerVars
  <2>1. \A c \in Conns : Told(c)' = Told(c)
    BY DEF Told
  <2>2. \A v \in Workers, c \in Conns : Awaits(v, c)' <=> Awaits(v, c)
    BY DEF Awaits
  <2>3. \A f \in Frame : Spent(f)' <=> Spent(f)
    BY DEF Spent
  <2>4. Locked' /\ Listening' /\ Numbered'
    BY <2>1 DEF Locked, Listening, Numbered
  <2>5. Fresh'
    BY <2>1, <2>3 DEF Fresh
  <2>6. OnAir' /\ Once'
    BY <2>1, <2>2 DEF OnAir, Once
  <2>7. Sync' /\ LeftLast'
    BY <2>1, <2>2 DEF Sync, LeftLast
  <2> QED
    BY <1>1, <2>4, <2>5, <2>6, <2>7 DEF ToldInv
<1> QED
  BY <1>2, <1>3

\* Walks, streams and requests are an invariant together.
THEOREM ToldInvariance == Spec => []ToldInv
  BY InitTold, StepTold, PTL DEF Spec

\* With any number of clients, workers and slots, all clients hear what they hear of the
\* chat in one order, each thing once, and with no gap between two things both heard.
THEOREM OneOrder == Spec => []SameOrder
<1>1. ASSUME ToldInv PROVE SameOrder
  <2>0. TypeOK /\ OnAir /\ Once /\ Sync
    BY <1>1 DEF ToldInv, IInv
  <2> SUFFICES ASSUME NEW c \in Conns, NEW d \in Conns,
                      NEW k1 \in Told(c), NEW k2 \in Told(c), NEW l1 \in Told(d), NEW l2 \in Told(d),
                      s2c[c][k1] = s2c[d][l1], s2c[c][k2] = s2c[d][l2], k1 < k2
               PROVE  /\ l1 < l2
                      /\ \A k \in Told(c) : k1 < k /\ k < k2 =>
                           \E l \in Told(d) : l1 < l /\ l < l2 /\ s2c[d][l] = s2c[c][k]
    BY DEF SameOrder
  <2>1. l1 < l2
    <3>1. ~ \E w \in Workers : pc[w] = "walk" /\ out[w] = s2c[c][k2].frame /\ Awaits(w, d)
      BY <2>0 DEF OnAir
    <3>2. PICK n \in Told(d) : l1 < n /\ s2c[d][n].frame = s2c[c][k2].frame
      BY <2>0, <3>1 DEF Sync
    <3> QED
      BY <2>0, <3>2 DEF Once
  <2>2. ASSUME NEW k \in Told(c), k1 < k, k < k2
        PROVE  \E l \in Told(d) : l1 < l /\ l < l2 /\ s2c[d][l] = s2c[c][k]
    <3>0. k \in Nat /\ k2 \in Nat
      BY <2>0, ToldPlaces
    <3>1. ~ \E w \in Workers : pc[w] = "walk" /\ out[w] = s2c[c][k].frame
      BY <2>0, <2>2, <3>0 DEF OnAir
    <3>2. PICK n \in Told(d) : l1 < n /\ s2c[d][n].frame = s2c[c][k].frame
      BY <2>0, <2>2, <3>1 DEF Sync
    <3>3. n # l2
      BY <2>0, <2>2, <3>0, <3>2 DEF Once
    <3>4. ~ (l2 < n)
      <4> SUFFICES ASSUME l2 < n PROVE FALSE
        OBVIOUS
      <4>1. PICK j \in Told(c) : k2 < j /\ s2c[c][j].frame = s2c[d][n].frame
        BY <2>0, <3>1, <3>2 DEF Sync
      <4>2. j = k /\ j \in Nat
        BY <2>0, <3>2, <4>1, ToldPlaces DEF Once
      <4> QED
        BY <2>2, <3>0, <4>1, <4>2
    <3>5. n \in Nat /\ l2 \in Nat
      BY <2>0, ToldPlaces
    <3>6. s2c[d][n] = s2c[c][k]
      BY <2>0, <3>2, ToldPlaces
    <3> QED
      BY <3>2, <3>3, <3>4, <3>5, <3>6
  <2> QED
    BY <2>1, <2>2
<1> QED
  BY <1>1, ToldInvariance, PTL

\* Whoever is told that a client has left is told nothing of it afterwards, and its slot is
\* free and its socket closed by then, whatever else the workers do in the meantime.
THEOREM LeftForGood == Spec => []LeftIsGone
<1>1. ASSUME ToldInv PROVE LeftIsGone
  <2>0. TypeOK /\ SlotsOwned /\ Fresh /\ LeftLast
    BY <1>1 DEF ToldInv, IInv
  <2> SUFFICES ASSUME NEW c \in Conns, NEW d \in Conns, NEW k \in Told(d),
                      s2c[d][k].frame.kind = "LEFT", s2c[d][k].frame.of = c
               PROVE  /\ c \notin isOpen
                      /\ \A i \in 1..Slots : slots[i] # c
                      /\ \A l \in Told(d) : l > k => s2c[d][l].frame.of # c
    BY DEF LeftIsGone
  <2>1. c \notin isOpen
    <3>1. s2c[d][k].frame \in Frame
      BY <2>0, ToldPlaces
    <3>2. Spent(s2c[d][k].frame)
      BY <2>0, <3>1 DEF Fresh
    <3> QED
      BY <3>2 DEF Spent
  <2>2. \A i \in 1..Slots : slots[i] # c
    BY <2>0, <2>1 DEF SlotsOwned
  <2>3. ASSUME NEW l \in Told(d), l > k
        PROVE  s2c[d][l].frame.of # c
    <3>1. k < l
      BY <2>0, <2>3, ToldPlaces
    <3> QED
      BY <2>0, <3>1 DEF LeftLast
  <2> QED
    BY <2>1, <2>2, <2>3
<1> QED
  BY <1>1, ToldInvariance, PTL

-----------------------------------------------------------------------------
(* Frames.  What a client is sent comes from one worker at a time, but for PONGs. *)

\* The third a worker sends next.
Third(w) == [frame |-> out[w], part |-> part[w]]

\* A worker that sends this client a PONG, or something else.
Sends(w, c, pong) ==
  IF pong THEN pc[w] = "send" /\ conn[w] = c /\ out[w].kind = "PONG"
  ELSE \/ pc[w] = "walk" /\ pos[w] <= Slots /\ slots[pos[w]] = c
       \/ pc[w] = "send" /\ conn[w] = c /\ out[w].kind # "PONG"

\* One worker at most sends these frames to a client.
Alone ==
  \A c \in Conns, pong \in BOOLEAN, v, w \in Workers :
    Sends(v, c, pong) /\ Sends(w, c, pong) => v = w

\* The last of these frames is complete.
Ended(s, places) ==
  \A k \in places : (\A j \in places : j <= k) => s[k].part = Parts

\* This third is the one that comes next.
Underway(s, places, third) ==
  IF third.part = 1 THEN Ended(s, places)
  ELSE /\ places # {}
       /\ \A k \in places : (\A j \in places : j <= k) =>
            s[k].frame = third.frame /\ s[k].part = third.part - 1

\* A stream consists of whole frames up to the third that its sender sends next.
Framed ==
  \A c \in Conns, pong \in BOOLEAN : peer[c] = "open" =>
    /\ Whole(s2c[c], Places(c, pong))
    /\ \A w \in Workers : Sends(w, c, pong) => Underway(s2c[c], Places(c, pong), Third(w))
    /\ (\A w \in Workers : ~ Sends(w, c, pong)) => Ended(s2c[c], Places(c, pong))

\* The inductive invariant for frames.
FrameInv == IInv /\ Locked /\ Listening /\ Framed

\* A stream that grows by the third that comes next consists of whole frames as before.
LEMMA AppendWhole ==
  ASSUME NEW s \in Seq([frame : Frame, part : 1..Parts]), NEW e \in [frame : Frame, part : 1..Parts],
         NEW P \in SUBSET DOMAIN s, Whole(s, P), Underway(s, P, e)
  PROVE  LET t == Append(s, e)
             Q == P \cup {Len(s) + 1}
         IN  /\ Whole(t, Q)
             /\ e.part = Parts => Ended(t, Q)
             /\ \A next \in [frame : Frame, part : 1..Parts] :
                  next.frame = e.frame /\ next.part = e.part + 1 => Underway(t, Q, next)
<1> DEFINE t == Append(s, e)
           n == Len(s) + 1
           Q == P \cup {n}
<1>1. /\ DOMAIN s = 1..Len(s) /\ Len(s) \in Nat /\ t[n] = e
      /\ \A k \in P : t[k] = s[k] /\ k \in Nat /\ k < n
  <2> DEFINE Thirds == [frame : Frame, part : 1..Parts]
  <2>1. s \in Seq(Thirds) /\ e \in Thirds
    OBVIOUS
  <2> HIDE DEF Thirds
  <2>2. /\ DOMAIN s = 1..Len(s) /\ Len(s) \in Nat /\ t[n] = e
        /\ \A k \in DOMAIN s : t[k] = s[k]
    BY <2>1, AppendElements
  <2> QED
    BY <2>2
<1>2. n \in Nat /\ e.part \in Nat /\ 1 <= e.part /\ Parts = 3
  BY <1>1 DEF Parts
<1> HIDE DEF t, n
<1>3. Whole(t, Q)
  <2>1. ASSUME NEW k \in P, \A j \in Q : k <= j
        PROVE  t[k].part = 1
    BY <1>1, <2>1 DEF Whole
  <2>2. ASSUME \A j \in Q : n <= j
        PROVE  t[n].part = 1
    <3>1. P = {}
      BY <1>1, <1>2, <2>2
    <3> QED
      BY <1>1, <3>1 DEF Underway
  <2>3. ASSUME NEW k \in P, NEW j \in Q, j < k, \A i \in Q : i <= j \/ k <= i
        PROVE  IF t[j].part = Parts THEN t[k].part = 1
               ELSE t[k].frame = t[j].frame /\ t[k].part = t[j].part + 1
    <3>1. j \in P
      BY <1>1, <1>2, <2>3
    <3>2. t[j] = s[j] /\ t[k] = s[k] /\ \A i \in P : i <= j \/ k <= i
      BY <1>1, <2>3, <3>1
    <3> QED
      BY <2>3, <3>1, <3>2 DEF Whole
  <2>4. ASSUME NEW j \in Q, j < n, \A i \in Q : i <= j \/ n <= i
        PROVE  IF t[j].part = Parts THEN t[n].part = 1
               ELSE t[n].frame = t[j].frame /\ t[n].part = t[j].part + 1
    <3>1. j \in P /\ t[j] = s[j]
      BY <1>1, <1>2, <2>4
    <3>2. \A i \in P : i <= j
      BY <1>1, <1>2, <2>4
    <3>3. CASE e.part = 1
      <4>1. s[j].part = Parts
        BY <3>1, <3>2, <3>3 DEF Underway, Ended
      <4> QED
        BY <1>1, <3>1, <3>3, <4>1
    <3>4. CASE e.part # 1
      <4>1. s[j].frame = e.frame /\ s[j].part = e.part - 1
        BY <3>1, <3>2, <3>4 DEF Underway
      <4>2. s[j].part # Parts /\ e.part = s[j].part + 1
        BY <1>2, <4>1 DEF Parts
      <4> QED
        BY <1>1, <3>1, <4>1, <4>2
    <3> QED
      BY <3>3, <3>4
  <2> QED
    BY <1>1, <1>2, <2>1, <2>2, <2>3, <2>4 DEF Whole
<1>4. \A k \in Q : (\A j \in Q : j <= k) => k = n
  BY <1>1, <1>2
<1>5. e.part = Parts => Ended(t, Q)
  BY <1>1, <1>4 DEF Ended
<1>6. ASSUME NEW next \in [frame : Frame, part : 1..Parts],
             next.frame = e.frame, next.part = e.part + 1
      PROVE  Underway(t, Q, next)
  <2>1. next.part # 1 /\ next.part - 1 = e.part
    BY <1>2, <1>6
  <2> QED
    BY <1>1, <1>4, <1>6, <2>1 DEF Underway
<1> QED
  BY <1>3, <1>5, <1>6 DEF t, n

\* A third of the other kind leaves these frames as they are.
LEMMA SameWhole ==
  ASSUME NEW s, NEW t, NEW P, \A k \in P : t[k] = s[k]
  PROVE  /\ Whole(s, P) => Whole(t, P)
         /\ Ended(s, P) => Ended(t, P)
         /\ \A third : Underway(s, P, third) => Underway(t, P, third)
  BY DEF Whole, Ended, Underway

\* Two workers do not send to one client at a time, unless one sends a PONG: a broadcast
\* goes to the members of the chat only, and only for a PONG are they sent to without it.
LEMMA OneSender == TypeOK /\ Served /\ SlotsOwned /\ Locked => Alone
<1> SUFFICES ASSUME TypeOK, Served, SlotsOwned, Locked, NEW c \in Conns, NEW pong \in BOOLEAN,
                    NEW v \in Workers, NEW w \in Workers, Sends(v, c, pong), Sends(w, c, pong)
             PROVE  v = w
  BY DEF Alone
<1>1. c # None
  OBVIOUS
<1>2. ASSUME NEW x \in Workers, NEW y \in Workers, pc[x] = "walk", slots[pos[x]] = c, pos[x] <= Slots,
             pc[y] = "send", conn[y] = c, out[y].kind # "PONG"
      PROVE  FALSE
  <2>1. pos[x] \in 1..Slots
    BY <1>2 DEF TypeOK
  <2>2. PICK u \in Workers : conn[u] = c /\ Member(u)
    BY <1>2, <2>1 DEF SlotsOwned
  <2>3. u = y
    BY <1>1, <1>2, <2>2 DEF Served
  <2> QED
    BY <1>2, <2>2, <2>3 DEF Member
<1>3. pc[v] = "send" /\ pc[w] = "send" => conn[v] = c /\ conn[w] = c
  BY DEF Sends
<1>4. pc[v] = "walk" /\ pc[w] = "walk" => v = w
  BY DEF Locked
<1> QED
  BY <1>1, <1>2, <1>3, <1>4 DEF Sends, Served

\* A worker does not change whom the others send to, or what.
LEMMA OthersSend ==
  ASSUME TypeOK, FramesFit, Locked, Next, NEW w \in Workers, WorkerStep(w),
         NEW v \in Workers, v # w, NEW c \in Conns, NEW pong \in BOOLEAN
  PROVE  (Sends(v, c, pong)' <=> Sends(v, c, pong)) /\ Third(v)' = Third(v)
<1>1. /\ pc'[v] = pc[v] /\ conn'[v] = conn[v] /\ out'[v] = out[v]
      /\ part'[v] = part[v] /\ pos'[v] = pos[v]
  BY WorkerCases, WorkerPlace
<1>2. pc[v] = "walk" => UNCHANGED slots
  BY SlotKept
<1> QED
  BY <1>1, <1>2 DEF Sends, Third

\* Any other step of a worker than a send_all() may begin to send a frame to somebody.
LEMMA BeginSends ==
  ASSUME TypeOK, FramesFit, Locked, NEW w \in Workers, WorkerStep(w), ~ SendPart(w),
         ~ BroadcastPart(w), NEW c \in Conns, NEW pong \in BOOLEAN
  PROVE  s2c' = s2c /\ ~ Sends(w, c, pong) /\ (Sends(w, c, pong)' => part'[w] = 1)
<1>0. pc \in [Workers -> Stages] /\ part \in [Workers -> 1..Parts]
  BY DEF TypeOK
<1>1. UNCHANGED s2c
  BY DEF WorkerStep, Pop, RecvHello, AddClient, BroadcastLock, BroadcastUnlock, RecvMessage,
     RemoveClient, CloseLeft, CloseUnknown
<1>2. CASE BroadcastUnlock(w)
  <2>1. pc[w] = "walk" /\ pos[w] > Slots /\ pos[w] \in Nat /\ Slots \in Nat
        /\ pc'[w] \notin {"walk", "send"}
    BY <1>0, <1>2 DEF BroadcastUnlock, Goto, TypeOK
  <2> QED
    BY <1>1, <2>1 DEF Sends
<1>3. CASE BroadcastLock(w)
  <2>1. pc[w] = "broadcast" /\ part'[w] = 1
    BY <1>3 DEF BroadcastLock, Locked
  <2> QED
    BY <1>1, <2>1 DEF Sends
<1>4. CASE ~ BroadcastUnlock(w) /\ ~ BroadcastLock(w)
  <2>1. pc[w] \notin {"walk", "send"}
    BY <1>4 DEF WorkerStep, Pop, RecvHello, AddClient, RecvMessage, RemoveClient, CloseLeft,
       CloseUnknown
  <2>2. pc'[w] # "walk"
    BY <1>4, <2>1, WorkerCases DEF WorkerMoves, WorkerStep, Pop, RecvHello, AddClient, RecvMessage,
       RemoveClient, CloseLeft, CloseUnknown
  <2>3. ASSUME pc'[w] = "send"
        PROVE  part'[w] = 1
    <3>1. ASSUME NEW kind, NEW id, Prepare(w, kind, id)
          PROVE  part'[w] = 1
      BY <1>0, <3>1 DEF Prepare
    <3>2. CASE RecvHello(w)
      BY <1>0, <2>3, <3>1, <3>2 DEF RecvHello, Goto
    <3>3. CASE AddClient(w)
      BY <3>1, <3>3 DEF AddClient
    <3>4. CASE RecvMessage(w)
      BY <1>0, <2>3, <3>1, <3>4, RecvMessageCases
    <3>5. CASE Pop(w) \/ RemoveClient(w) \/ CloseLeft(w) \/ CloseUnknown(w)
      BY <1>0, <2>3, <3>5 DEF Pop, RemoveClient, CloseLeft, CloseUnknown, Goto
    <3> QED
      BY <1>4, <3>2, <3>3, <3>4, <3>5 DEF WorkerStep
  <2> QED
    BY <1>1, <2>1, <2>2, <2>3 DEF Sends
<1> QED
  BY <1>2, <1>3, <1>4

\* A send_all() to a client that is there sends the third that comes next.
LEMMA SendsThird ==
  ASSUME TypeOK, FramesFit, SlotsOwned, NEW w \in Workers, SendPart(w) \/ BroadcastPart(w),
         NEW c \in Conns, peer[c] = "open"
  PROVE  \/ /\ s2c'[c] = s2c[c]
            /\ \A pong \in BOOLEAN :
                 ~ Sends(w, c, pong) /\ (Sends(w, c, pong)' => part'[w] = 1)
         \/ /\ s2c'[c] = Append(s2c[c], Third(w)) /\ Third(w) \in [frame : Frame, part : 1..Parts]
            /\ \A pong \in BOOLEAN :
                 IF (out[w].kind = "PONG") = pong
                 THEN /\ Sends(w, c, pong)
                      /\ part[w] < Parts => /\ Sends(w, c, pong)' /\ Third(w)'.frame = out[w]
                                            /\ Third(w)'.part = part[w] + 1
                      /\ part[w] = Parts => ~ Sends(w, c, pong)'
                 ELSE ~ Sends(w, c, pong) /\ ~ Sends(w, c, pong)'
<1>0. /\ pc \in [Workers -> Stages] /\ part \in [Workers -> 1..Parts]
      /\ pos \in [Workers -> 1..(Slots + 1)] /\ Slots \in Nat /\ c # None
      /\ s2c \in [Conns -> Seq([frame : Frame, part : 1..Parts])]
  BY DEF TypeOK
<1>1. CASE SendPart(w)
  <2>1. /\ pc[w] = "send" /\ conn[w] \in Conns /\ out[w] \in Frame /\ conn' = conn /\ out' = out
        /\ out[w].kind \in {"WELCOME", "PONG", "FULL"}
    BY <1>1, SendPartCases DEF FramesFit
  <2>2. Third(w) \in [frame : Frame, part : 1..Parts]
    BY <1>0, <2>1 DEF Third
  <2>3. AfterSend[out[w].kind] \notin {"send", "walk"} /\ AfterFailure[out[w].kind] \notin {"send", "walk"}
    BY <2>1 DEF AfterSend, AfterFailure
  <2>4. CASE conn[w] = c
    <3>1. s2c'[c] = Append(s2c[c], Third(w)) /\ ~ Failed(c)
      BY <1>0, <1>1, <2>4 DEF SendPart, Sent, Failed, Third
    <3>2. /\ part[w] < Parts => pc'[w] = "send" /\ part'[w] = part[w] + 1
          /\ part[w] = Parts => pc'[w] \notin {"send", "walk"}
      BY <1>0, <1>1, <2>1, <2>3, <2>4, <3>1 DEF SendPart, Goto, Parts
    <3> QED
      BY <1>0, <2>1, <2>2, <2>4, <3>1, <3>2 DEF Sends, Third, Parts
  <2>5. CASE conn[w] # c
    <3>1. s2c'[c] = s2c[c]
      BY <1>0, <1>1, <2>1, <2>5 DEF SendPart, Sent, Failed
    <3>2. pc'[w] # "walk"
      BY <1>0, <1>1, <2>1, <2>3 DEF SendPart, Goto
    <3> QED
      BY <2>1, <2>5, <3>1, <3>2 DEF Sends
  <2> QED
    BY <2>4, <2>5
<1>2. CASE BroadcastPart(w)
  <2>1. /\ pc[w] = "walk" /\ pos[w] \in 1..Slots /\ out[w] \in Frame
        /\ UNCHANGED <<pc, conn, out, slots>> /\ out[w].kind # "PONG"
    <3>1. pc[w] = "walk" /\ pos[w] <= Slots /\ UNCHANGED <<pc, conn, out, slots>>
      BY <1>2 DEF BroadcastPart
    <3>2. out[w] \in Frame
      BY <3>1 DEF TypeOK
    <3>3. out[w].kind # "PONG"
      BY <3>1 DEF FramesFit
    <3> QED
      BY <1>0, <3>1, <3>2, <3>3
  <2>2. Third(w) \in [frame : Frame, part : 1..Parts]
    BY <1>0, <2>1 DEF Third
  <2>3. CASE slots[pos[w]] = c
    <3>1. ~ Failed(c) /\ Sent(w, c)
      BY <1>0, <1>2, <2>3 DEF BroadcastPart, Failed
    <3>2. s2c'[c] = Append(s2c[c], Third(w))
      BY <1>0, <3>1 DEF Sent, Third
    <3>3. /\ part[w] < Parts => part'[w] = part[w] + 1 /\ pos'[w] = pos[w]
          /\ part[w] = Parts => pos'[w] = pos[w] + 1
      BY <1>0, <1>2, <2>3, <3>1 DEF BroadcastPart, Parts
    <3>4. pos[w] + 1 \in 1..Slots => slots[pos[w] + 1] # c
      <4>1. pos[w] + 1 # pos[w]
        BY <2>1
      <4> QED
        BY <1>0, <2>1, <2>3, <4>1 DEF SlotsOwned
    <3>5. part[w] = Parts => ~ Sends(w, c, FALSE)'
      BY <1>0, <2>1, <3>3, <3>4 DEF Sends
    <3> QED
      BY <1>0, <2>1, <2>2, <2>3, <3>2, <3>3, <3>5 DEF Sends, Third
  <2>4. CASE slots[pos[w]] # c
    <3>1. s2c'[c] = s2c[c]
      <4>1. slots[pos[w]] \in Conns \cup {None}
        BY <2>1 DEF TypeOK
      <4> QED
        BY <1>0, <1>2, <2>4, <4>1 DEF BroadcastPart, Sent, Failed
    <3>2. pos'[w] = pos[w] \/ part'[w] = 1
      BY <1>0, <1>2 DEF BroadcastPart
    <3> QED
      BY <2>1, <2>4, <3>1, <3>2 DEF Sends
  <2> QED
    BY <2>3, <2>4
<1> QED
  BY <1>1, <1>2

\* Every step keeps the frames of a stream whole.
LEMMA FramedStep ==
  ASSUME TypeOK, FramesFit, Served, SlotsOwned, Locked, Listening, Alone, Framed, Next,
         TypeOK', Served', SlotsOwned', Alone'
  PROVE  Framed'
<1> DEFINE Good(c, pong) ==
      /\ Whole(s2c[c], Places(c, pong))
      /\ \A w \in Workers : Sends(w, c, pong) => Underway(s2c[c], Places(c, pong), Third(w))
      /\ (\A w \in Workers : ~ Sends(w, c, pong)) => Ended(s2c[c], Places(c, pong))
<1> SUFFICES ASSUME NEW c \in Conns, NEW pong \in BOOLEAN, peer'[c] = "open"
             PROVE  Good(c, pong)'
  BY DEF Framed
<1>0. peer[c] = "open" => Good(c, pong)
  BY DEF Framed
<1>t. s2c[c] \in Seq([frame : Frame, part : 1..Parts]) /\ c # None
  BY DEF TypeOK
<1>1. ASSUME NEW d \in Conns, Accept(d) \/ ClientStep(d)
      PROVE  Good(c, pong)'
  <2>1. UNCHANGED workerVars /\ UNCHANGED slots
    BY <1>1 DEF Accept, ClientStep, ClientRequest, ClientQuit, ClientClose
  <2>2. s2c'[c] = s2c[c]
    BY <1>1 DEF Accept, ClientStep, ClientRequest, ClientQuit, ClientClose, Close, TypeOK
  <2>3. /\ Places(c, pong)' = Places(c, pong)
        /\ \A w \in Workers : (Sends(w, c, pong)' <=> Sends(w, c, pong)) /\ Third(w)' = Third(w)
    BY <2>1, <2>2 DEF Places, Sends, Third, workerVars
  <2>4. CASE peer[c] = "open"
    BY <1>0, <2>2, <2>3, <2>4
  <2>5. CASE peer[c] # "open"
    <3>1. Places(c, pong) = {}
      BY <2>5 DEF Listening, Places
    <3>2. peer[c] = "none"
      BY <2>5, PeerKept DEF TypeOK
    <3>3. \A w \in Workers : ~ Sends(w, c, pong)
      <4>1. \A i \in 1..Slots : slots[i] # c
        BY <3>2 DEF SlotsOwned, Served
      <4>2. ASSUME NEW w \in Workers, pos[w] <= Slots
            PROVE  pos[w] \in 1..Slots
        BY <4>2 DEF TypeOK
      <4> QED
        BY <3>2, <4>1, <4>2 DEF Sends, Served
    <3> QED
      BY <2>3, <3>1, <3>3 DEF Whole, Ended
  <2> QED
    BY <2>4, <2>5
<1>2. ASSUME NEW w \in Workers, WorkerStep(w)
      PROVE  Good(c, pong)'
  <2>0. Good(c, pong) /\ peer[c] = "open"
    <3>1. UNCHANGED peer
      BY <1>2 DEF WorkerStep, Pop, RecvHello, SendPart, AddClient, BroadcastLock, BroadcastPart,
         BroadcastUnlock, RecvMessage, RemoveClient, CloseLeft, CloseUnknown
    <3> QED
      BY <1>0, <3>1
  <2>1. \A v \in Workers : v # w =>
          (Sends(v, c, pong)' <=> Sends(v, c, pong)) /\ Third(v)' = Third(v)
    BY <1>2, OthersSend
  <2>2. CASE /\ s2c'[c] = s2c[c] /\ ~ Sends(w, c, pong)
             /\ Sends(w, c, pong)' => part'[w] = 1
    <3>1. Places(c, pong)' = Places(c, pong)
      BY <2>2 DEF Places
    <3>2. ASSUME Sends(w, c, pong)'
          PROVE  Underway(s2c'[c], Places(c, pong), Third(w)')
      <4>1. \A v \in Workers : ~ Sends(v, c, pong)
        BY <2>1, <2>2, <3>2 DEF Alone
      <4>2. Third(w)'.part = 1
        BY <2>2, <3>2 DEF Third
      <4> QED
        BY <2>0, <2>2, <4>1, <4>2 DEF Underway
    <3>3. ASSUME NEW v \in Workers, Sends(v, c, pong)'
          PROVE  Underway(s2c'[c], Places(c, pong), Third(v)')
      BY <2>0, <2>1, <2>2, <3>2, <3>3
    <3>4. (\A v \in Workers : ~ Sends(v, c, pong)') => Ended(s2c'[c], Places(c, pong))
      BY <2>0, <2>1, <2>2
    <3> QED
      BY <2>0, <2>2, <3>1, <3>3, <3>4
  <2>3. ASSUME s2c'[c] = Append(s2c[c], Third(w)), Third(w) \in [frame : Frame, part : 1..Parts]
        PROVE  /\ (out[w].kind = "PONG") = pong =>
                    Places(c, pong)' = Places(c, pong) \cup {Len(s2c[c]) + 1}
               /\ (out[w].kind = "PONG") # pong => Places(c, pong)' = Places(c, pong)
               /\ \A k \in Places(c, pong) : s2c'[c][k] = s2c[c][k]
    <3> DEFINE Thirds == [frame : Frame, part : 1..Parts]
               n == Len(s2c[c]) + 1
               e == Third(w)
    <3>1. s2c[c] \in Seq(Thirds) /\ e \in Thirds /\ s2c'[c] = Append(s2c[c], e)
      BY <1>t, <2>3
    <3>2. e.frame = out[w]
      BY DEF Third
    <3> HIDE DEF Thirds, e
    <3>3. /\ DOMAIN s2c'[c] = DOMAIN s2c[c] \cup {n} /\ s2c'[c][n] = e
          /\ DOMAIN s2c[c] = 1..Len(s2c[c]) /\ Len(s2c[c]) \in Nat
          /\ \A k \in DOMAIN s2c[c] : s2c'[c][k] = s2c[c][k]
      BY <3>1, AppendElements
    <3>4. n \notin DOMAIN s2c[c]
      BY <3>3
    <3> HIDE DEF n
    <3>5. Places(c, pong)' = {k \in DOMAIN s2c[c] \cup {n} : (s2c'[c][k].frame.kind = "PONG") = pong}
      BY <3>3 DEF Places
    <3>6. \A k \in Places(c, pong) : k \in DOMAIN s2c[c] /\ (s2c[c][k].frame.kind = "PONG") = pong
      BY DEF Places
    <3>7. (out[w].kind = "PONG") = pong => Places(c, pong)' = Places(c, pong) \cup {n}
      BY <3>2, <3>3, <3>4, <3>5 DEF Places
    <3>8. (out[w].kind = "PONG") # pong => Places(c, pong)' = Places(c, pong)
      BY <3>2, <3>3, <3>4, <3>5 DEF Places
    <3> QED
      BY <3>3, <3>6, <3>7, <3>8 DEF n
  <2>4. CASE /\ s2c'[c] = Append(s2c[c], Third(w)) /\ Third(w) \in [frame : Frame, part : 1..Parts]
             /\ (out[w].kind = "PONG") # pong /\ ~ Sends(w, c, pong) /\ ~ Sends(w, c, pong)'
    <3>1. Places(c, pong)' = Places(c, pong) /\ \A k \in Places(c, pong) : s2c'[c][k] = s2c[c][k]
      BY <2>3, <2>4
    <3>2. /\ Whole(s2c[c], Places(c, pong)) => Whole(s2c'[c], Places(c, pong))
          /\ Ended(s2c[c], Places(c, pong)) => Ended(s2c'[c], Places(c, pong))
          /\ \A third : Underway(s2c[c], Places(c, pong), third)
               => Underway(s2c'[c], Places(c, pong), third)
      BY <3>1, SameWhole
    <3>3. ASSUME NEW v \in Workers, Sends(v, c, pong)'
          PROVE  Underway(s2c'[c], Places(c, pong), Third(v)')
      BY <2>0, <2>1, <2>4, <3>2, <3>3
    <3>4. (\A v \in Workers : ~ Sends(v, c, pong)') => Ended(s2c'[c], Places(c, pong))
      BY <2>0, <2>1, <2>4, <3>2
    <3> QED
      BY <2>0, <3>1, <3>2, <3>3, <3>4
  <2>5. CASE /\ s2c'[c] = Append(s2c[c], Third(w)) /\ Third(w) \in [frame : Frame, part : 1..Parts]
             /\ (out[w].kind = "PONG") = pong /\ Sends(w, c, pong)
             /\ part[w] < Parts => /\ Sends(w, c, pong)' /\ Third(w)'.frame = out[w]
                                   /\ Third(w)'.part = part[w] + 1
             /\ part[w] = Parts => ~ Sends(w, c, pong)'
    <3> DEFINE Q == Places(c, pong) \cup {Len(s2c[c]) + 1}
    <3>1. Places(c, pong)' = Q /\ Places(c, pong) \in SUBSET DOMAIN s2c[c]
      BY <2>3, <2>5 DEF Places
    <3>2. Third(w).part = part[w] /\ Third(w).frame = out[w] /\ part[w] \in 1..Parts
      BY DEF Third, TypeOK
    <3>3. /\ Whole(s2c'[c], Q)
          /\ part[w] = Parts => Ended(s2c'[c], Q)
          /\ \A next \in [frame : Frame, part : 1..Parts] :
               next.frame = out[w] /\ next.part = part[w] + 1 => Underway(s2c'[c], Q, next)
      <4> DEFINE s == s2c[c]
                 P == Places(c, pong)
                 e == Third(w)
      <4>1. /\ s \in Seq([frame : Frame, part : 1..Parts]) /\ e \in [frame : Frame, part : 1..Parts]
            /\ P \in SUBSET DOMAIN s /\ Whole(s, P) /\ Underway(s, P, e)
        BY <1>t, <2>0, <2>5, <3>1
      <4>2. s2c'[c] = Append(s, e) /\ Q = P \cup {Len(s) + 1} /\ e.part = part[w] /\ e.frame = out[w]
        BY <2>5, <3>2
      <4> HIDE DEF s, P, e, Q
      <4>3. /\ Whole(Append(s, e), P \cup {Len(s) + 1})
            /\ e.part = Parts => Ended(Append(s, e), P \cup {Len(s) + 1})
            /\ \A next \in [frame : Frame, part : 1..Parts] :
                 next.frame = e.frame /\ next.part = e.part + 1
                   => Underway(Append(s, e), P \cup {Len(s) + 1}, next)
        BY <4>1, AppendWhole
      <4> QED
        BY <4>2, <4>3
    <3>4. ASSUME NEW v \in Workers, Sends(v, c, pong)'
          PROVE  v = w /\ Underway(s2c'[c], Q, Third(v)')
      <4>1. v = w
        BY <2>1, <2>5, <3>4 DEF Alone
      <4>2. part[w] < Parts
        BY <2>5, <3>2, <3>4, <4>1 DEF Parts
      <4>3. Third(w)' \in [frame : Frame, part : 1..Parts]
        <5>1. out'[w] = out[w] /\ part'[w] \in 1..Parts /\ out[w] \in Frame
          BY <2>5, <3>2, <4>2 DEF Third, TypeOK
        <5> QED
          BY <5>1 DEF Third
      <4> QED
        BY <2>5, <3>3, <4>1, <4>2, <4>3
    <3>5. (\A v \in Workers : ~ Sends(v, c, pong)') => Ended(s2c'[c], Q)
      BY <2>5, <3>2, <3>3 DEF Parts
    <3> QED
      BY <3>1, <3>3, <3>4, <3>5
  <2>6. CASE SendPart(w) \/ BroadcastPart(w)
    <3>1. CASE (out[w].kind = "PONG") = pong
      BY <2>0, <2>2, <2>5, <2>6, <3>1, SendsThird
    <3>2. CASE (out[w].kind = "PONG") # pong
      BY <2>0, <2>2, <2>4, <2>6, <3>2, SendsThird
    <3> QED
      BY <3>1, <3>2
  <2>7. CASE ~ SendPart(w) /\ ~ BroadcastPart(w)
    BY <1>2, <2>2, <2>7, BeginSends
  <2> QED
    BY <2>6, <2>7
<1> QED
  BY <1>1, <1>2 DEF Next

\* Nothing was sent.
LEMMA InitFrames == Init => FrameInv
<1> SUFFICES ASSUME Init PROVE FrameInv
  OBVIOUS
<1>1. ToldInv
  BY InitTold
<1>2. \A c \in Conns : peer[c] # "open"
  BY DEF Init
<1> QED
  BY <1>1, <1>2 DEF ToldInv, FrameInv, Framed

\* Every step, of a worker or a client, preserves the invariant.
LEMMA StepFrames == FrameInv /\ [Next]_vars => FrameInv'
<1>1. (TypeOK /\ Served /\ SlotsOwned /\ Locked => Alone)'
  BY OneSender, PTL
<1> SUFFICES ASSUME FrameInv, [Next]_vars PROVE FrameInv'
  OBVIOUS
<1>0. /\ IInv /\ TypeOK /\ FramesFit /\ Served /\ SlotsOwned /\ Locked /\ Listening /\ Framed
      /\ Alone
  BY OneSender DEF FrameInv, IInv
<1>2. IInv' /\ TypeOK' /\ Served' /\ SlotsOwned'
  BY <1>0, StepIInv DEF IInv
<1>3. CASE Next
  <2>1. Locked' /\ Listening'
    BY <1>0, <1>3, LockedStep, ListeningStep
  <2>2. Framed'
    BY <1>0, <1>1, <1>2, <1>3, <2>1, FramedStep
  <2> QED
    BY <1>2, <2>1, <2>2 DEF FrameInv
<1>4. CASE UNCHANGED vars
  <2> USE <1>0, <1>4 DEF vars, workerVars
  <2>1. \A c \in Conns : Told(c)' = Told(c)
    BY DEF Told
  <2>2. Locked' /\ Listening'
    BY <2>1 DEF Locked, Listening
  <2>3. \A c \in Conns, pong \in BOOLEAN :
          /\ Places(c, pong)' = Places(c, pong)
          /\ \A w \in Workers : (Sends(w, c, pong)' <=> Sends(w, c, pong)) /\ Third(w)' = Third(w)
    BY DEF Places, Sends, Third
  <2>4. Framed'
    BY <2>3 DEF Framed
  <2> QED
    BY <1>2, <2>2, <2>4 DEF FrameInv
<1> QED
  BY <1>3, <1>4

\* Streams and their senders are an invariant together.
THEOREM FrameInvariance == Spec => []FrameInv
  BY InitFrames, StepFrames, PTL DEF Spec

\* With any number of workers that write to one socket, what a client is sent by broadcasts
\* and in answer to its HELLO arrives frame by frame, and so do the PONGs: a frame can only
\* be torn by a PONG or the other way round.
THEOREM FramesWhole == Spec => []BroadcastsWhole
<1>1. ASSUME FrameInv PROVE BroadcastsWhole
  <2>1. Framed /\ Listening
    BY <1>1 DEF FrameInv
  <2> SUFFICES ASSUME NEW c \in Conns, NEW pong \in BOOLEAN
               PROVE  Whole(s2c[c], Places(c, pong))
    BY DEF BroadcastsWhole
  <2>2. CASE peer[c] = "open"
    BY <2>1, <2>2 DEF Framed
  <2>3. CASE peer[c] # "open"
    BY <2>1, <2>3 DEF Listening, Places, Whole
  <2> QED
    BY <2>2, <2>3
<1> QED
  BY <1>1, FrameInvariance, PTL

=============================================================================
