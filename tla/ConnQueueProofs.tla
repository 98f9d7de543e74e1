--------------------------- MODULE ConnQueueProofs ---------------------------
(***************************************************************************)
(* Proofs about ConnQueue, for every pool and every set of descriptors:    *)
(* no wakeup is lost, and the whole is the queue PoolQueue promises.       *)
(***************************************************************************)
EXTENDS ConnQueue, FiniteSetTheorems, SequenceTheorems, TLAPS

USE ThreadsAssumption DEF Threads

\* Who has a descriptor in its hands, and what a worker found out about the queue
\* while it has the mutex.
Holding ==
  /\ fd[Main] # None <=> pc[Main] \in {"lock", "push"}
  /\ \A w \in Workers : fd[w] # None <=> pc[w] \in {"unlock", "serve"}
  /\ \A w \in Workers : pc[w] = "pop" => queue # <<>>
  /\ \A w \in Workers : pc[w] = "wait" => queue = <<>>

\* The inductive invariant.
IInv == TypeOK /\ Holding /\ NoLostWakeup

-----------------------------------------------------------------------------
(* Types, and what the threads hold. *)

\* Every step keeps the types: one case per action.
LEMMA TypeStep ==
  ASSUME TypeOK, Holding, Next
  PROVE  TypeOK'
<1> USE DEF TypeOK, Goto, HasLock, MainStages, WorkerStages
<1>1. ASSUME NEW f \in Fds, Accept(f) PROVE TypeOK'
  BY <1>1 DEF Accept
<1>2. CASE MainLock
  BY <1>2 DEF MainLock, Lock
<1>3. CASE Push
  <2>1. fd[Main] \in Fds
    BY <1>3 DEF Push, Holding
  <2>2. queue' \in Seq(Fds)
    BY <1>3, <2>1, AppendProperties DEF Push, PushBack
  <2> QED
    BY <1>3, <2>2 DEF Push
<1>4. CASE Signal
  BY <1>4 DEF Signal, WakeOne
<1>5. CASE MainUnlock
  BY <1>5 DEF MainUnlock, Unlock
<1>6. ASSUME NEW w \in Workers, FetchStep(w) PROVE TypeOK'
  <2>1. CASE WorkerLock(w)
    BY <2>1 DEF WorkerLock, Lock
  <2>2. CASE Test(w)
    BY <2>2 DEF Test
  <2>3. CASE Wait(w)
    BY <2>3 DEF Wait, Unlock
  <2>4. CASE WakeUp(w)
    BY <2>4 DEF WakeUp, Lock
  <2>5. CASE Pop(w)
    <3>1. queue # <<>>
      BY <2>5 DEF Pop, Holding
    <3>2. Head(queue) \in Fds /\ Tail(queue) \in Seq(Fds)
      BY <3>1, HeadTailProperties
    <3> QED
      BY <2>5, <3>2 DEF Pop
  <2>6. CASE WorkerUnlock(w)
    BY <2>6 DEF WorkerUnlock, Unlock
  <2> QED
    BY <1>6, <2>1, <2>2, <2>3, <2>4, <2>5, <2>6 DEF FetchStep
<1>7. ASSUME NEW w \in Workers, SpuriousWakeup(w) PROVE TypeOK'
  BY <1>7 DEF SpuriousWakeup
<1>8. ASSUME NEW w \in Workers, CloseFd(w) PROVE TypeOK'
  BY <1>8 DEF CloseFd
<1> QED
  BY <1>1, <1>2, <1>3, <1>4, <1>5, <1>6, <1>7, <1>8 DEF Next, MainStep

\* Every step keeps what the threads hold: nobody but the holder of the mutex changes
\* the queue, so what it tested stays true.
LEMMA HoldingStep ==
  ASSUME TypeOK, Holding, Next
  PROVE  Holding'
<1> USE DEF TypeOK, Holding, Goto, HasLock
<1>1. ASSUME NEW f \in Fds, Accept(f) PROVE Holding'
  BY <1>1 DEF Accept
<1>2. CASE MainLock
  BY <1>2 DEF MainLock, Lock
<1>3. CASE Push
  <2>1. \A w \in Workers : pc[w] \notin {"pop", "wait"}
    BY <1>3 DEF Push
  <2> QED
    BY <1>3, <2>1 DEF Push
<1>4. CASE Signal
  BY <1>4 DEF Signal
<1>5. CASE MainUnlock
  BY <1>5 DEF MainUnlock
<1>6. ASSUME NEW w \in Workers, FetchStep(w) PROVE Holding'
  <2>1. CASE WorkerLock(w)
    BY <2>1 DEF WorkerLock
  <2>2. CASE Test(w)
    BY <2>2 DEF Test
  <2>3. CASE Wait(w)
    BY <2>3 DEF Wait
  <2>4. CASE WakeUp(w)
    BY <2>4 DEF WakeUp
  <2>5. CASE Pop(w)
    <3>1. \A v \in Workers : v # w => pc[v] \notin {"pop", "wait"}
      BY <2>5 DEF Pop
    <3>2. Head(queue) \in Fds
      BY <2>5, HeadTailProperties DEF Pop
    <3> QED
      BY <2>5, <3>1, <3>2 DEF Pop
  <2>6. CASE WorkerUnlock(w)
    BY <2>6 DEF WorkerUnlock
  <2> QED
    BY <1>6, <2>1, <2>2, <2>3, <2>4, <2>5, <2>6 DEF FetchStep
<1>7. ASSUME NEW w \in Workers, SpuriousWakeup(w) PROVE Holding'
  BY <1>7 DEF SpuriousWakeup
<1>8. ASSUME NEW w \in Workers, CloseFd(w) PROVE Holding'
  BY <1>8 DEF CloseFd
<1> QED
  BY <1>1, <1>2, <1>3, <1>4, <1>5, <1>6, <1>7, <1>8 DEF Next, MainStep

-----------------------------------------------------------------------------
(* Wakeups. *)

\* main() counts as one more worker awake between push and signal.
Pending == IF pc[Main] = "signal" THEN 1 ELSE 0

\* The workers awake are a finite set.
LEMMA AwakeFinite ==
  /\ Awake \subseteq Workers /\ IsFiniteSet(Awake) /\ Cardinality(Awake) \in Nat
  /\ Pending \in Nat
  BY FS_Subset, FS_CardinalityType DEF Awake, Pending

\* No wakeup gets lost when the queue is left alone and nobody falls asleep.
LEMMA NobodySleeps ==
  ASSUME TypeOK, NoLostWakeup, UNCHANGED queue, sleeping' \subseteq sleeping,
         Awake \subseteq Awake', pc[Main] = "signal" => pc'[Main] = "signal"
  PROVE  NoLostWakeup'
<1>1. IsFiniteSet(Awake') /\ Cardinality(Awake') \in Nat /\ Pending' \in Nat
  <2>1. Awake' \subseteq Workers
    BY DEF Awake
  <2> QED
    BY <2>1, FS_Subset, FS_CardinalityType DEF Pending
<1>2. Cardinality(Awake) <= Cardinality(Awake')
  BY <1>1, FS_Subset
<1>3. Pending <= Pending'
  BY DEF Pending
<1>4. Len(queue) \in Nat /\ Len(queue') = Len(queue)
  BY LenProperties DEF TypeOK
<1> QED
  BY <1>1, <1>2, <1>3, <1>4, AwakeFinite DEF NoLostWakeup, Pending

\* No wakeup is lost while the queue is empty.
LEMMA NothingQueued ==
  ASSUME queue' = <<>>
  PROVE  NoLostWakeup'
<1>1. Cardinality(Awake') \in Nat /\ Pending' \in Nat
  <2>1. Awake' \subseteq Workers
    BY DEF Awake
  <2> QED
    BY <2>1, FS_Subset, FS_CardinalityType DEF Pending
<1>2. Len(queue') = 0
  OBVIOUS
<1> QED
  BY <1>1, <1>2 DEF NoLostWakeup, Pending

\* Every step keeps enough workers awake.
LEMMA WakeupStep ==
  ASSUME TypeOK, Holding, NoLostWakeup, Next
  PROVE  NoLostWakeup'
<1> USE DEF TypeOK, Goto
<1>0. Len(queue) \in Nat
  BY LenProperties
<1>1. ASSUME NEW f \in Fds, Accept(f) PROVE NoLostWakeup'
  BY <1>1, NobodySleeps DEF Accept, Awake
<1>2. CASE MainLock
  BY <1>2, NobodySleeps DEF MainLock, Awake
<1>3. CASE Push
  <2>1. Len(queue') = Len(queue) + 1
    <3>1. fd[Main] \in Fds
      BY <1>3 DEF Push, Holding
    <3> QED
      BY <1>3, <3>1, AppendProperties DEF Push, PushBack
  <2>2. Awake' = Awake /\ UNCHANGED sleeping /\ Pending = 0 /\ Pending' = 1
    BY <1>3 DEF Push, Awake, Pending
  <2> QED
    BY <1>0, <2>1, <2>2, AwakeFinite DEF NoLostWakeup, Pending
<1>4. CASE Signal
  <2>1. CASE sleeping = {}
    BY <1>4, <2>1 DEF Signal, WakeOne, NoLostWakeup
  <2>2. ASSUME NEW w \in sleeping, sleeping' = sleeping \ {w}
        PROVE  NoLostWakeup'
    <3>1. w \notin Awake /\ Awake' = Awake \cup {w}
      BY <1>4, <2>2 DEF Signal, Awake
    <3>2. Cardinality(Awake') = Cardinality(Awake) + 1
      BY <3>1, AwakeFinite, FS_AddElement
    <3>3. UNCHANGED queue /\ Pending = 1 /\ Pending' = 0
      BY <1>4 DEF Signal, Pending
    <3> QED
      BY <1>0, <3>2, <3>3, AwakeFinite DEF NoLostWakeup, Pending
  <2> QED
    BY <1>4, <2>1, <2>2 DEF Signal, WakeOne
<1>5. CASE MainUnlock
  BY <1>5, NobodySleeps DEF MainUnlock, Awake
<1>6. ASSUME NEW w \in Workers, FetchStep(w) PROVE NoLostWakeup'
  <2>1. CASE WorkerLock(w)
    BY <2>1, NobodySleeps DEF WorkerLock, Awake
  <2>2. CASE Test(w)
    <3>1. CASE queue = <<>>
      BY <2>2, <3>1, NothingQueued DEF Test
    <3>2. CASE queue # <<>>
      BY <2>2, <3>2, NobodySleeps DEF Test, Awake
    <3> QED
      BY <3>1, <3>2
  <2>3. CASE Wait(w)
    BY <2>3, NothingQueued DEF Wait, Holding
  <2>4. CASE WakeUp(w)
    BY <2>4, NobodySleeps DEF WakeUp, Awake
  <2>5. CASE Pop(w)
    <3>1. Len(queue') = Len(queue) - 1
      BY <2>5, HeadTailProperties DEF Pop, Holding
    <3>2. w \in Awake /\ Awake' = Awake \ {w} /\ UNCHANGED sleeping /\ Pending' = Pending
      BY <2>5 DEF Pop, Awake, Pending
    <3>3. Cardinality(Awake') = Cardinality(Awake) - 1
      BY <3>2, AwakeFinite, FS_RemoveElement
    <3> QED
      BY <1>0, <3>1, <3>2, <3>3, AwakeFinite DEF NoLostWakeup, Pending
  <2>6. CASE WorkerUnlock(w)
    BY <2>6, NobodySleeps DEF WorkerUnlock, Awake
  <2> QED
    BY <1>6, <2>1, <2>2, <2>3, <2>4, <2>5, <2>6 DEF FetchStep
<1>7. ASSUME NEW w \in Workers, SpuriousWakeup(w) PROVE NoLostWakeup'
  BY <1>7, NobodySleeps DEF SpuriousWakeup, Awake
<1>8. ASSUME NEW w \in Workers, CloseFd(w) PROVE NoLostWakeup'
  BY <1>8, NobodySleeps DEF CloseFd, Awake
<1> QED
  BY <1>1, <1>2, <1>3, <1>4, <1>5, <1>6, <1>7, <1>8 DEF Next, MainStep

-----------------------------------------------------------------------------
(* The invariant. *)

\* It holds when the process starts, and every step keeps it.
LEMMA InitIInv == Init => IInv
<1> SUFFICES ASSUME Init PROVE IInv
  OBVIOUS
<1>1. queue \in Seq(Fds)
  BY EmptySeq DEF Init
<1>2. TypeOK
  BY <1>1 DEF Init, TypeOK, HasLock, MainStages, WorkerStages
<1>3. Holding
  BY DEF Init, Holding
<1>4. NoLostWakeup
  BY DEF Init, NoLostWakeup
<1> QED
  BY <1>2, <1>3, <1>4 DEF IInv

\* The invariant is inductive.
LEMMA StepIInv == IInv /\ [Next]_vars => IInv'
<1> SUFFICES ASSUME IInv, [Next]_vars PROVE IInv'
  OBVIOUS
<1>1. CASE Next
  BY <1>1, TypeStep, HoldingStep, WakeupStep DEF IInv
<1>2. CASE UNCHANGED vars
  BY <1>2 DEF vars, IInv, TypeOK, Holding, NoLostWakeup, HasLock, Awake
<1> QED
  BY <1>1, <1>2

\* Types, descriptors in hand and wakeups are an invariant together.
THEOREM Invariance == Spec => []IInv
  BY InitIInv, StepIInv, PTL DEF Spec

\* Every thread is at a stage of its own with a descriptor of its own kind, and the mutex
\* is held by the one thread that is inside a section it protects.
THEOREM TypeCorrect == Spec => []TypeOK
<1>1. IInv => TypeOK
  BY DEF IInv
<1> QED
  BY <1>1, Invariance, PTL

\* Signalling once for each push is enough, with any number of workers and however often
\* they wake up for no reason: nobody sleeps over a connection he would have to take.
THEOREM NoWakeupLost == Spec => []NoLostWakeup
<1>1. IInv => NoLostWakeup
  BY DEF IInv
<1> QED
  BY <1>1, Invariance, PTL

-----------------------------------------------------------------------------
(* The refinement. *)

\* Every step of the threads is a step of the promised queue, or none.
LEMMA StepHandoff ==
  ASSUME TypeOK, Holding, [Next]_vars
  PROVE  [Handoff!Next]_<<IF fd[Main] = None THEN queue ELSE Append(queue, fd[Main]),
                          [w \in Workers |-> fd[w]]>>
<1> DEFINE waiting == IF fd[Main] = None THEN queue ELSE Append(queue, fd[Main])
           serving == [w \in Workers |-> fd[w]]
<1> USE DEF TypeOK, Holding, Goto
<1>0. \A w \in Workers : serving[w] = fd[w]
  OBVIOUS
<1>1. ASSUME NEW f \in Fds, Accept(f)
      PROVE  Handoff!Arrive(f)
  <2>1. waiting = queue /\ waiting' = Append(queue, f) /\ serving' = serving
    BY <1>1 DEF Accept
  <2>2. ~ Handoff!InUse(f)
    BY <1>1, <2>1 DEF Accept, Handoff!InUse
  <2> QED
    BY <2>1, <2>2 DEF Handoff!Arrive
<1>2. CASE Push
  <2>1. waiting' = waiting /\ serving' = serving
    BY <1>2 DEF Push, PushBack
  <2> QED
    BY <2>1
<1>3. ASSUME NEW w \in Workers, Pop(w)
      PROVE  Handoff!Take(w)
  <2>1. fd[w] = None /\ queue # <<>> /\ queue' = Tail(queue) /\ fd'[Main] = fd[Main]
    BY <1>3 DEF Pop
  <2>2. serving' = [serving EXCEPT ![w] = Head(queue)]
    BY <1>3 DEF Pop
  <2>3. waiting # <<>> /\ Head(waiting) = Head(queue) /\ waiting' = Tail(waiting)
    <3>1. CASE fd[Main] = None
      BY <2>1, <3>1
    <3>2. CASE fd[Main] # None
      <4>1. /\ Append(queue, fd[Main]) # <<>>
            /\ Head(Append(queue, fd[Main])) = Head(queue)
            /\ Tail(Append(queue, fd[Main])) = Append(Tail(queue), fd[Main])
        BY <2>1, <3>2
      <4> QED
        BY <2>1, <3>2, <4>1
    <3> QED
      BY <3>1, <3>2
  <2> HIDE DEF waiting, serving
  <2>4. serving[w] = None
    BY <2>1 DEF serving
  <2> QED
    BY <2>2, <2>3, <2>4 DEF Handoff!Take, waiting, serving
<1>4. ASSUME NEW w \in Workers, CloseFd(w)
      PROVE  Handoff!Finish(w)
  <2>1. fd[w] # None /\ serving' = [serving EXCEPT ![w] = None] /\ waiting' = waiting
    BY <1>4 DEF CloseFd
  <2> QED
    BY <2>1 DEF Handoff!Finish
<1>5. CASE UNCHANGED <<fd, queue>>
  BY <1>5
<1>6. CASE MainLock \/ Signal \/ MainUnlock
  BY <1>5, <1>6 DEF MainLock, Signal, MainUnlock
<1>7. ASSUME NEW w \in Workers, FetchStep(w), ~ Pop(w)
      PROVE  UNCHANGED <<fd, queue>>
  BY <1>7 DEF FetchStep, WorkerLock, Test, Wait, WakeUp, WorkerUnlock
<1>8. ASSUME NEW w \in Workers, SpuriousWakeup(w)
      PROVE  UNCHANGED <<fd, queue>>
  BY <1>8 DEF SpuriousWakeup
<1>9. CASE UNCHANGED vars
  BY <1>5, <1>9 DEF vars
<1> HIDE DEF waiting, serving
<1> QED
  BY <1>1, <1>2, <1>3, <1>4, <1>5, <1>6, <1>7, <1>8, <1>9
     DEF Next, MainStep, Handoff!Next, waiting, serving

\* Accept loop, mutex and condition variable hand out connections in the order they
\* came, each to one free worker: the detailed queue implements the promised one.
THEOREM PoolImplemented == Spec => ImplementsPool
<1>1. Init => Handoff!Init
  BY DEF Init, Handoff!Init
<1>2. IInv /\ [Next]_vars
        => [Handoff!Next]_<<IF fd[Main] = None THEN queue ELSE Append(queue, fd[Main]),
                            [w \in Workers |-> fd[w]]>>
  BY StepHandoff DEF IInv
<1> QED
  BY <1>1, <1>2, Invariance, PTL DEF Spec, ImplementsPool, Handoff!Spec

=============================================================================
