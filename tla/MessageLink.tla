----------------------------- MODULE MessageLink -----------------------------
(***************************************************************************)
(* What sendMessage() and recvMessage() of lab 2 promise: of the messages  *)
(* one end has sent, the other one receives the first, the second, and so  *)
(* on, each once and as it was sent.  The last ones may never come, when   *)
(* an end is gone.                                                         *)
(***************************************************************************)
EXTENDS Naturals, Sequences

CONSTANTS Ends, Messages

VARIABLES
  sent,         \* messages an end has sent
  got           \* those of them its peer has received

vars == <<sent, got>>

Init ==
  /\ sent = [e \in Ends |-> <<>>]
  /\ got = [e \in Ends |-> <<>>]

Send(e) ==
  /\ \E m \in Messages : sent' = [sent EXCEPT ![e] = Append(@, m)]
  /\ UNCHANGED got

Deliver(e) ==
  /\ Len(got[e]) < Len(sent[e])
  /\ got' = [got EXCEPT ![e] = Append(@, sent[e][Len(@) + 1])]
  /\ UNCHANGED sent

Next == \E e \in Ends : Send(e) \/ Deliver(e)

Spec == Init /\ [][Next]_vars

=============================================================================
