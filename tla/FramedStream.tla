---------------------------- MODULE FramedStream ----------------------------
(***************************************************************************)
(* Messages over one TCP connection, as TcpSocket of lab 2 (2/net.cpp)     *)
(* sends and receives them: a length, a type and a payload, in pieces of   *)
(* whatever size send() takes and recv() returns.                          *)
(*                                                                         *)
(* Bytes are numbers.  A length has LenBytes of them (4 in the code), each *)
(* below Base (256).  An interrupted call is made again and leaves no      *)
(* trace.                                                                  *)
(***************************************************************************)
EXTENDS Naturals, Sequences, SequencesExt

CONSTANTS LenBytes, Base, MaxPayload,
  WireCap       \* bytes the kernels hold for one direction

\* Numbers of k bytes.
Power[k \in 0..LenBytes] == IF k = 0 THEN 1 ELSE Base * Power[k - 1]

ASSUME StreamAssumption ==
  /\ LenBytes \in Nat \ {0} /\ Base \in Nat \ {0, 1}
  /\ MaxPayload \in Nat /\ 1 + MaxPayload < Power[LenBytes]
  /\ WireCap \in Nat \ {0}

Ends == {"client", "server"}
Peer(e) == IF e = "client" THEN "server" ELSE "client"

VARIABLES
  todo,         \* what an end's sendMessage() still has to hand to the kernel
  wire,         \* what it has handed over and the peer has not taken
  rx,           \* an end's recvMessage()
  isOpen,       \* ends that are not closed
  sent,         \* messages an end has begun to send
  got           \* those of them its peer has received

streamVars == <<todo, wire, rx, isOpen, sent, got>>

-----------------------------------------------------------------------------
(* sendMessage() *)

BigEndian(n) == [i \in 1..LenBytes |-> (n \div Power[LenBytes - i]) % Base]

\* The three sendAll() calls, one after the other.
Bytes(m) == BigEndian(1 + Len(m.payload)) \o <<m.type>> \o m.payload

\* Mutant: room for the NUL that a C string would have.
FitsWithNul(m) == Len(m.payload) <= MaxPayload + 1

\* A payload over the limit is refused before anything is sent.
Fits(m) == Len(m.payload) <= MaxPayload

StartSend(e, m) ==
  /\ todo' = [todo EXCEPT ![e] = Bytes(m)]
  /\ sent' = [sent EXCEPT ![e] = Append(@, m)]

\* send() takes some of the bytes.
SendSome(e) ==
  /\ todo[e] # <<>> /\ Peer(e) \in isOpen
  /\ \E k \in 1..Len(todo[e]) :
       /\ Len(wire[e]) + k <= WireCap
       /\ wire' = [wire EXCEPT ![e] = @ \o SubSeq(todo[e], 1, k)]
       /\ todo' = [todo EXCEPT ![e] = SubSeq(@, k + 1, Len(@))]
  /\ UNCHANGED <<rx, isOpen, sent, got>>

\* An end that is closed while bytes for it are there, or still come, resets the
\* connection: what it has sent itself and is still under way may get lost, from the end.
Reset(e) ==
  \E k \in 0..Len(wire[e]) : wire' = [wire EXCEPT ![Peer(e)] = <<>>, ![e] = SubSeq(@, 1, k)]

\* send() to an end that is closed takes the bytes, for nothing, or fails.
SendToClosed(e) ==
  /\ todo[e] # <<>> /\ Peer(e) \notin isOpen
  /\ Reset(Peer(e))
  /\ todo' = [todo EXCEPT ![e] = <<>>]
  /\ UNCHANGED <<rx, isOpen, sent, got>>

Idle == [stage |-> "idle"]

Close(e) ==
  /\ isOpen' = isOpen \ {e}
  /\ todo' = [todo EXCEPT ![e] = <<>>]
  /\ rx' = [rx EXCEPT ![e] = Idle]
  /\ IF wire[Peer(e)] = <<>> THEN UNCHANGED wire ELSE Reset(e)
  /\ UNCHANGED <<sent, got>>

-----------------------------------------------------------------------------
(* recvMessage() *)

Field(stage, need, len, type) ==
  [stage |-> stage, need |-> need, buf |-> <<>>, len |-> len, type |-> type]

StartRecv(e) == rx' = [rx EXCEPT ![e] = Field("length", LenBytes, 0, 0)]

\* Mutant: the bytes of the length in the other order.
LittleEndian(b) == FoldRight(LAMBDA d, v : d + Base * v, b, 0)

NumberOf(b) ==
  LET value[i \in 0..Len(b)] == IF i = 0 THEN 0 ELSE Base * value[i - 1] + b[i]
  IN  value[Len(b)]

\* Mutant: the limit of a payload is taken for the limit of a frame.
NoMore(len) == len >= 1 /\ len <= MaxPayload

InRange(len) == len >= 1 /\ len <= 1 + MaxPayload

Done(type, payload) == [stage |-> "done", msg |-> [type |-> type, payload |-> payload]]

\* A field is complete: what recvMessage() does next.
NextField(r, buf) ==
  CASE r.stage = "length" ->
         IF InRange(NumberOf(buf)) THEN Field("type", 1, NumberOf(buf), 0)
         ELSE [stage |-> "error"]
    [] r.stage = "type" ->
         IF r.len = 1 THEN Done(buf[1], <<>>)
         ELSE Field("payload", r.len - 1, r.len, buf[1])
    [] r.stage = "payload" -> Done(r.type, buf)

InRecv(e) == rx[e].stage \in {"length", "type", "payload"}

\* recv() returns some of the bytes that are asked for.
RecvSome(e) ==
  /\ InRecv(e)
  /\ \E k \in 1..(rx[e].need - Len(rx[e].buf)) :
       /\ k <= Len(wire[Peer(e)])
       /\ LET buf == rx[e].buf \o SubSeq(wire[Peer(e)], 1, k)
              r == IF Len(buf) < rx[e].need THEN [rx[e] EXCEPT !.buf = buf]
                   ELSE NextField(rx[e], buf)
          IN  /\ rx' = [rx EXCEPT ![e] = r]
              /\ got' = IF r.stage = "done" THEN [got EXCEPT ![Peer(e)] = Append(@, r.msg)]
                        ELSE got
       /\ wire' = [wire EXCEPT ![Peer(e)] = SubSeq(@, k + 1, Len(@))]
  /\ UNCHANGED <<todo, isOpen, sent>>

\* recv() returns 0, at the end of a message or in the middle.
RecvEof(e) ==
  /\ InRecv(e) /\ wire[Peer(e)] = <<>> /\ Peer(e) \notin isOpen
  /\ rx' = [rx EXCEPT ![e] = [stage |-> "eof"]]
  /\ UNCHANGED <<todo, wire, isOpen, sent, got>>

Received(e) == rx[e].stage = "done"
RecvFailed(e) == rx[e].stage \in {"eof", "error"}

\* Is there anything that recv() would return at once?
Readable(e) == wire[Peer(e)] # <<>> \/ Peer(e) \notin isOpen

StreamInit ==
  /\ todo = [e \in Ends |-> <<>>]
  /\ wire = [e \in Ends |-> <<>>]
  /\ rx = [e \in Ends |-> Idle]
  /\ isOpen = Ends
  /\ sent = [e \in Ends |-> <<>>]
  /\ got = [e \in Ends |-> <<>>]

=============================================================================
