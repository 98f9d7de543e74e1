------------------------------ MODULE PoolQueue ------------------------------
(***************************************************************************)
(* What the accept loop and the pool of threads of labs 3 to 5 promise     *)
(* together: connections are handed out in the order they were accepted,   *)
(* each to one free worker, and a descriptor is not handed out again       *)
(* before the worker that has it lets it go.                               *)
(***************************************************************************)
EXTENDS Sequences

CONSTANTS
  Workers,  \* the pool's threads
  Fds,      \* descriptor numbers accept() may return
  None      \* no descriptor

VARIABLES
  waiting,  \* accepted connections nobody serves yet
  serving   \* the connection each worker serves

InUse(f) == \/ \E i \in DOMAIN waiting : waiting[i] = f
            \/ \E w \in Workers : serving[w] = f

Init ==
  /\ waiting = <<>>
  /\ serving = [w \in Workers |-> None]

Arrive(f) ==
  /\ ~ InUse(f)
  /\ waiting' = Append(waiting, f)
  /\ UNCHANGED serving

Take(w) ==
  /\ serving[w] = None /\ waiting # <<>>
  /\ serving' = [serving EXCEPT ![w] = Head(waiting)]
  /\ waiting' = Tail(waiting)

Finish(w) ==
  /\ serving[w] # None
  /\ serving' = [serving EXCEPT ![w] = None]
  /\ UNCHANGED waiting

\* The process dies, its connections with it.
Die ==
  /\ waiting' = <<>>
  /\ serving' = [w \in Workers |-> None]

Next ==
  \/ \E f \in Fds : Arrive(f)
  \/ \E w \in Workers : Take(w) \/ Finish(w)
  \/ Die

Spec == Init /\ [][Next]_<<waiting, serving>>

=============================================================================
