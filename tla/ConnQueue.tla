------------------------------ MODULE ConnQueue ------------------------------
(***************************************************************************)
(* How an accepted connection reaches a worker: g_queue, g_queue_mutex and *)
(* g_queue_cond of lab 5 (5/server.cpp), call by call.  Lab 4 has the same *)
(* code and lab 3 the same in its SocketQueue.  ChatServer takes all of a  *)
(* worker's part for one step; this module is why it may.                  *)
(***************************************************************************)
EXTENDS Naturals, Sequences, FiniteSets

CONSTANTS
  Workers,  \* the pool's threads
  Main,     \* the thread that accepts
  Fds,      \* descriptor numbers accept() may return
  None      \* no descriptor, no thread

Threads == Workers \cup {Main}

ASSUME ThreadsAssumption ==
  /\ IsFiniteSet(Workers)
  /\ Main \notin Workers
  /\ None \notin Threads \cup Fds

VARIABLES
  pc, fd,    \* stage of each thread, the descriptor in its hands
  queue,     \* g_queue
  lock,      \* who holds g_queue_mutex
  sleeping   \* who waits on g_queue_cond

vars == <<pc, fd, queue, lock, sleeping>>

Goto(t, stage) == pc' = [pc EXCEPT ![t] = stage]

\* Mutant: the mutex is not taken.
NoLock(t) == lock' = t

\* pthread_mutex_lock(): comes back when nobody else holds the mutex.
Lock(t) == lock = None /\ lock' = t

\* pthread_mutex_unlock().
Unlock(t) == lock' = None

-----------------------------------------------------------------------------
(* The main thread. *)

\* accept() returns a descriptor that is not open.
Accept(f) ==
  /\ pc[Main] = "accept"
  /\ \A t \in Threads : fd[t] # f
  /\ \A i \in DOMAIN queue : queue[i] # f
  /\ fd' = [fd EXCEPT ![Main] = f]
  /\ Goto(Main, "lock")
  /\ UNCHANGED <<queue, lock, sleeping>>

MainLock ==
  /\ pc[Main] = "lock" /\ Lock(Main)
  /\ Goto(Main, "push")
  /\ UNCHANGED <<fd, queue, sleeping>>

\* Mutant: the latest connection is served first.
PushFront(f) == queue' = <<f>> \o queue

PushBack(f) == queue' = Append(queue, f)

Push ==
  /\ pc[Main] = "push"
  /\ PushBack(fd[Main])
  /\ fd' = [fd EXCEPT ![Main] = None]
  /\ Goto(Main, "signal")
  /\ UNCHANGED <<lock, sleeping>>

\* Mutants: no signal at all; a signal only when the queue was empty before.
NoSignal == UNCHANGED sleeping
SignalFirst ==
  \/ Len(queue) = 1 /\ \E w \in sleeping : sleeping' = sleeping \ {w}
  \/ (Len(queue) > 1 \/ sleeping = {}) /\ UNCHANGED sleeping

\* pthread_cond_signal() wakes one of the threads that wait, if there is one.
WakeOne ==
  \/ \E w \in sleeping : sleeping' = sleeping \ {w}
  \/ sleeping = {} /\ UNCHANGED sleeping

Signal ==
  /\ pc[Main] = "signal"
  /\ WakeOne
  /\ Goto(Main, "unlock")
  /\ UNCHANGED <<fd, queue, lock>>

MainUnlock ==
  /\ pc[Main] = "unlock" /\ Unlock(Main)
  /\ Goto(Main, "accept")
  /\ UNCHANGED <<fd, queue, sleeping>>

-----------------------------------------------------------------------------
(* A worker. *)

WorkerLock(w) ==
  /\ pc[w] = "lock" /\ Lock(w)
  /\ Goto(w, "test")
  /\ UNCHANGED <<fd, queue, sleeping>>

\* while (g_queue.empty())
Test(w) ==
  /\ pc[w] = "test"
  /\ Goto(w, IF queue = <<>> THEN "wait" ELSE "pop")
  /\ UNCHANGED <<fd, queue, lock, sleeping>>

\* pthread_cond_wait() goes to sleep and gives the mutex away in one step ...
Wait(w) ==
  /\ pc[w] = "wait"
  /\ sleeping' = sleeping \cup {w}
  /\ Unlock(w)
  /\ Goto(w, "waiting")
  /\ UNCHANGED <<fd, queue>>

\* ... wakes up when it is signalled, or for no reason ...
SpuriousWakeup(w) ==
  /\ w \in sleeping
  /\ sleeping' = sleeping \ {w}
  /\ UNCHANGED <<pc, fd, queue, lock>>

\* ... and comes back with the mutex.
WakeUp(w) ==
  /\ pc[w] = "waiting" /\ w \notin sleeping /\ Lock(w)
  /\ Goto(w, "test")
  /\ UNCHANGED <<fd, queue, sleeping>>

Pop(w) ==
  /\ pc[w] = "pop"
  /\ fd' = [fd EXCEPT ![w] = Head(queue)]
  /\ queue' = Tail(queue)
  /\ Goto(w, "unlock")
  /\ UNCHANGED <<lock, sleeping>>

WorkerUnlock(w) ==
  /\ pc[w] = "unlock" /\ Unlock(w)
  /\ Goto(w, "serve")
  /\ UNCHANGED <<fd, queue, sleeping>>

\* The session is over: the socket is closed, the loop starts again.
CloseFd(w) ==
  /\ pc[w] = "serve"
  /\ fd' = [fd EXCEPT ![w] = None]
  /\ Goto(w, "lock")
  /\ UNCHANGED <<queue, lock, sleeping>>

-----------------------------------------------------------------------------
Init ==
  /\ pc = [t \in Threads |-> IF t = Main THEN "accept" ELSE "lock"]
  /\ fd = [t \in Threads |-> None]
  /\ queue = <<>>
  /\ lock = None
  /\ sleeping = {}

MainStep == MainLock \/ Push \/ Signal \/ MainUnlock

\* What a worker does to get a connection.
FetchStep(w) ==
  WorkerLock(w) \/ Test(w) \/ Wait(w) \/ WakeUp(w) \/ Pop(w) \/ WorkerUnlock(w)

Next ==
  \/ \E f \in Fds : Accept(f)
  \/ MainStep
  \/ \E w \in Workers : FetchStep(w) \/ SpuriousWakeup(w) \/ CloseFd(w)

Spec == Init /\ [][Next]_vars

\* Threads that can go on do.  Clients may stay for ever, new ones need not come, and
\* nothing is assumed about who gets the mutex.
FairSpec ==
  /\ Spec
  /\ WF_vars(MainStep)
  /\ \A w \in Workers : WF_vars(FetchStep(w))

-----------------------------------------------------------------------------
MainStages == {"accept", "lock", "push", "signal", "unlock"}
WorkerStages == {"lock", "test", "wait", "waiting", "pop", "unlock", "serve"}
HasLock(t) == pc[t] \in {"push", "signal", "test", "wait", "pop", "unlock"}

\* The variables have their types, the mutex is held by the thread that is between
\* lock and unlock, and only a worker inside pthread_cond_wait() sleeps.
TypeOK ==
  /\ pc \in [Threads -> MainStages \cup WorkerStages]
  /\ pc[Main] \in MainStages
  /\ \A w \in Workers : pc[w] \in WorkerStages
  /\ fd \in [Threads -> Fds \cup {None}]
  /\ queue \in Seq(Fds)
  /\ lock \in Threads \cup {None}
  /\ \A t \in Threads : HasLock(t) <=> lock = t
  /\ sleeping \subseteq {w \in Workers : pc[w] = "waiting"}

\* A worker on its way to the queue: it will test it before it sleeps.
Awake == {w \in Workers : pc[w] \in {"lock", "test", "pop"}
                            \/ (pc[w] = "waiting" /\ w \notin sleeping)}

\* No wakeup is lost: as long as a worker sleeps, there are enough others awake to take
\* all that is queued, one more while main() has pushed and not yet signalled.
NoLostWakeup ==
  sleeping # {} =>
    Len(queue) <= Cardinality(Awake) + (IF pc[Main] = "signal" THEN 1 ELSE 0)

\* A queued connection does not wait while a worker serves nobody: it is taken, or all
\* workers get busy, whoever wins the mutex.
Queued(f) == \E i \in DOMAIN queue : queue[i] = f
Idle(w) == fd[w] = None

IdleWorkerServes ==
  \A f \in Fds :
    Queued(f) /\ (\E w \in Workers : Idle(w)) ~> ~ Queued(f) \/ ~ \E w \in Workers : Idle(w)

\* Accept, queue and condition variable together hand out connections in order.
Handoff == INSTANCE PoolQueue
  WITH waiting <- IF fd[Main] = None THEN queue ELSE Append(queue, fd[Main]),
       serving <- [w \in Workers |-> fd[w]]
ImplementsPool == Handoff!Spec

=============================================================================
