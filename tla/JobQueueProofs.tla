--------------------------- MODULE JobQueueProofs ---------------------------
(***************************************************************************)
(* The safety of threads/hdr/Queue.h for any number of threads, any items  *)
(* and any maxsize_: IInv is inductive, and JobQueue implements            *)
(* ClosableQueue.                                                          *)
(***************************************************************************)
EXTENDS JobQueue, SequenceTheorems, TLAPS

USE MaxSizeAssumption, NoItemAssumption, NoThreadAssumption

(* Every state of the queue is well typed.                                 *)
THEOREM TypeCorrect == Spec => []TypeOK
<1>1. Init => TypeOK
  BY EmptySeq DEF Init, TypeOK, Labels
<1>2. TypeOK /\ [Next]_vars => TypeOK'
  <2> SUFFICES ASSUME TypeOK, [Next]_vars PROVE TypeOK'
    OBVIOUS
  <2> USE DEF TypeOK, Labels, Go, Lock, Unlock
  <2>1. ASSUME NEW t \in Threads, Call(t) PROVE TypeOK'
    BY <2>1 DEF Call, CallEnqueue, CallDequeue, CallDone
  <2>2. ASSUME NEW t \in Threads, SpuriousWakeup(t) PROVE TypeOK'
    BY <2>2 DEF SpuriousWakeup
  <2>3. ASSUME NEW t \in Threads, Step(t) PROVE TypeOK'
    <3>1. CASE AcquireForEnqueue(t) BY <3>1 DEF AcquireForEnqueue
    <3>2. CASE AcquireForDequeue(t) BY <3>2 DEF AcquireForDequeue
    <3>3. CASE AcquireForDone(t) BY <3>3 DEF AcquireForDone
    <3>4. CASE EnqueueBody(t)
      <4>1. item[t] \in Items BY <3>4 DEF EnqueueBody
      <4>2. queue' \in Seq(Items)
        BY <3>4, <4>1, AppendProperties DEF EnqueueBody
      <4> QED BY <3>4, <4>2 DEF EnqueueBody
    <3>5. CASE Take(t) BY <3>5, HeadTailProperties DEF Take
    <3>6. CASE FindEmpty(t) BY <3>6 DEF FindEmpty
    <3>7. CASE GiveUp(t) BY <3>7 DEF GiveUp
    <3>8. CASE DecideToWait(t) BY <3>8 DEF DecideToWait
    <3>9. CASE CondWait(t) BY <3>9 DEF CondWait
    <3>10. CASE DoneBody(t) BY <3>10 DEF DoneBody
    <3>11. CASE Signal(t) BY <3>11 DEF Signal, Waiting
    <3>12. CASE Broadcast(t) BY <3>12 DEF Broadcast, Waiting
    <3> QED BY <2>3, <3>1, <3>2, <3>3, <3>4, <3>5, <3>6, <3>7, <3>8, <3>9,
               <3>10, <3>11, <3>12 DEF Step
  <2>4. CASE UNCHANGED vars BY <2>4 DEF vars
  <2> QED BY <2>1, <2>2, <2>3, <2>4 DEF Next
<1> QED BY <1>1, <1>2, PTL DEF Spec
-----------------------------------------------------------------------------
(* Every step keeps the mutex and the places of the threads in agreement.  *)
LEMMA LockHeldStep ==
  ASSUME TypeOK, LockHeld, [Next]_vars
  PROVE  LockHeld'
<1> USE DEF TypeOK, Labels, Critical, Go, Lock, Unlock, Waiting, LockHeld
<1>1. ASSUME NEW t \in Threads, Call(t) PROVE LockHeld'
  BY <1>1 DEF Call, CallEnqueue, CallDequeue, CallDone
<1>2. ASSUME NEW t \in Threads, SpuriousWakeup(t) PROVE LockHeld'
  BY <1>2 DEF SpuriousWakeup
<1>3. ASSUME NEW t \in Threads, Step(t) PROVE LockHeld'
  <2>1. CASE AcquireForEnqueue(t) BY <2>1 DEF AcquireForEnqueue
  <2>2. CASE AcquireForDequeue(t) BY <2>2 DEF AcquireForDequeue
  <2>3. CASE AcquireForDone(t) BY <2>3 DEF AcquireForDone
  <2>4. CASE EnqueueBody(t) BY <2>4 DEF EnqueueBody
  <2>5. CASE Take(t) BY <2>5 DEF Take
  <2>6. CASE FindEmpty(t) BY <2>6 DEF FindEmpty
  <2>7. CASE GiveUp(t) BY <2>7 DEF GiveUp
  <2>8. CASE DecideToWait(t) BY <2>8 DEF DecideToWait
  <2>9. CASE CondWait(t) BY <2>9 DEF CondWait
  <2>10. CASE DoneBody(t) BY <2>10 DEF DoneBody
  <2>11. CASE Signal(t) BY <2>11 DEF Signal
  <2>12. CASE Broadcast(t) BY <2>12 DEF Broadcast
  <2> QED BY <1>3, <2>1, <2>2, <2>3, <2>4, <2>5, <2>6, <2>7, <2>8, <2>9, <2>10, <2>11, <2>12 DEF Step
<1>4. CASE UNCHANGED vars BY <1>4 DEF vars
<1> QED BY <1>1, <1>2, <1>3, <1>4 DEF Next

(* Every step of one thread respects what another found out under the lock.*)
LEMMA FreshTestsStep ==
  ASSUME TypeOK, LockHeld, FreshTests, [Next]_vars
  PROVE  FreshTests'
<1> USE DEF TypeOK, Labels, Critical, Go, Lock, Unlock, Waiting, FreshTests
<1>1. ASSUME NEW t \in Threads, Call(t) PROVE FreshTests'
  BY <1>1 DEF Call, CallEnqueue, CallDequeue, CallDone
<1>2. ASSUME NEW t \in Threads, SpuriousWakeup(t) PROVE FreshTests'
  BY <1>2 DEF SpuriousWakeup
<1>3. ASSUME NEW t \in Threads, Step(t) PROVE FreshTests'
  <2>1. CASE AcquireForEnqueue(t) BY <2>1 DEF AcquireForEnqueue
  <2>2. CASE AcquireForDequeue(t) BY <2>2 DEF AcquireForDequeue
  <2>3. CASE AcquireForDone(t) BY <2>3 DEF AcquireForDone
  <2>4. CASE EnqueueBody(t)
    <3>1. \A u \in Threads : pc[u] \in Critical => u = t
      BY <2>4 DEF EnqueueBody, LockHeld
    <3>2. \A u \in Threads : u # t => pc'[u] = pc[u]
      BY <2>4 DEF EnqueueBody
    <3>3. pc'[t] \notin {"deqDone", "deqWait"}
      BY <2>4 DEF EnqueueBody
    <3> QED BY <3>1, <3>2, <3>3
  <2>5. CASE Take(t) BY <2>5 DEF Take
  <2>6. CASE FindEmpty(t) BY <2>6 DEF FindEmpty
  <2>7. CASE GiveUp(t) BY <2>7 DEF GiveUp
  <2>8. CASE DecideToWait(t) BY <2>8 DEF DecideToWait
  <2>9. CASE CondWait(t) BY <2>9 DEF CondWait
  <2>10. CASE DoneBody(t)
    <3>1. \A u \in Threads : pc[u] \in Critical => u = t
      BY <2>10 DEF DoneBody, LockHeld
    <3>2. \A u \in Threads : u # t => pc'[u] = pc[u]
      BY <2>10 DEF DoneBody
    <3>3. pc'[t] \notin {"deqDone", "deqWait"}
      BY <2>10 DEF DoneBody
    <3> QED BY <3>1, <3>2, <3>3
  <2>11. CASE Signal(t) BY <2>11 DEF Signal
  <2>12. CASE Broadcast(t) BY <2>12 DEF Broadcast
  <2> QED BY <1>3, <2>1, <2>2, <2>3, <2>4, <2>5, <2>6, <2>7, <2>8, <2>9, <2>10, <2>11, <2>12 DEF Step
<1>4. CASE UNCHANGED vars BY <1>4 DEF vars
<1> QED BY <1>1, <1>2, <1>3, <1>4 DEF Next

(* No step leaves an item to sleeping threads only.                        *)
LEMMA NoSleepOverItemStep ==
  ASSUME TypeOK, LockHeld, FreshTests, NoSleepOverItem, [Next]_vars
  PROVE  NoSleepOverItem'
<1> USE DEF TypeOK, Labels, Critical, Go, Lock, Unlock, Waiting, NoSleepOverItem
<1>1. ASSUME NEW t \in Threads, Call(t) PROVE NoSleepOverItem'
  BY <1>1 DEF Call, CallEnqueue, CallDequeue, CallDone
<1>2. ASSUME NEW t \in Threads, SpuriousWakeup(t) PROVE NoSleepOverItem'
  BY <1>2 DEF SpuriousWakeup
<1>3. ASSUME NEW t \in Threads, Step(t) PROVE NoSleepOverItem'
  <2>1. CASE AcquireForEnqueue(t) BY <2>1 DEF AcquireForEnqueue
  <2>2. CASE AcquireForDequeue(t) BY <2>2 DEF AcquireForDequeue
  <2>3. CASE AcquireForDone(t) BY <2>3 DEF AcquireForDone
  <2>4. CASE EnqueueBody(t) BY <2>4 DEF EnqueueBody
  <2>5. CASE Take(t) BY <2>5 DEF Take
  <2>6. CASE FindEmpty(t) BY <2>6 DEF FindEmpty
  <2>7. CASE GiveUp(t) BY <2>7 DEF GiveUp
  <2>8. CASE DecideToWait(t) BY <2>8 DEF DecideToWait
  <2>9. CASE CondWait(t) BY <2>9 DEF CondWait, FreshTests
  <2>10. CASE DoneBody(t) BY <2>10 DEF DoneBody
  <2>11. CASE Signal(t) BY <2>11 DEF Signal
  <2>12. CASE Broadcast(t) BY <2>12 DEF Broadcast
  <2> QED BY <1>3, <2>1, <2>2, <2>3, <2>4, <2>5, <2>6, <2>7, <2>8, <2>9, <2>10, <2>11, <2>12 DEF Step
<1>4. CASE UNCHANGED vars BY <1>4 DEF vars
<1> QED BY <1>1, <1>2, <1>3, <1>4 DEF Next

(* No step puts a thread to sleep that done() will not wake.               *)
LEMMA NoSleepThroughDoneStep ==
  ASSUME TypeOK, LockHeld, FreshTests, NoSleepThroughDone, [Next]_vars
  PROVE  NoSleepThroughDone'
<1> USE DEF TypeOK, Labels, Critical, Go, Lock, Unlock, Waiting, NoSleepThroughDone
<1>1. ASSUME NEW t \in Threads, Call(t) PROVE NoSleepThroughDone'
  BY <1>1 DEF Call, CallEnqueue, CallDequeue, CallDone
<1>2. ASSUME NEW t \in Threads, SpuriousWakeup(t) PROVE NoSleepThroughDone'
  BY <1>2 DEF SpuriousWakeup
<1>3. ASSUME NEW t \in Threads, Step(t) PROVE NoSleepThroughDone'
  <2>1. CASE AcquireForEnqueue(t) BY <2>1 DEF AcquireForEnqueue
  <2>2. CASE AcquireForDequeue(t) BY <2>2 DEF AcquireForDequeue
  <2>3. CASE AcquireForDone(t) BY <2>3 DEF AcquireForDone
  <2>4. CASE EnqueueBody(t) BY <2>4 DEF EnqueueBody
  <2>5. CASE Take(t) BY <2>5 DEF Take
  <2>6. CASE FindEmpty(t) BY <2>6 DEF FindEmpty
  <2>7. CASE GiveUp(t) BY <2>7 DEF GiveUp
  <2>8. CASE DecideToWait(t) BY <2>8 DEF DecideToWait
  <2>9. CASE CondWait(t) BY <2>9 DEF CondWait, FreshTests
  <2>10. CASE DoneBody(t) BY <2>10 DEF DoneBody
  <2>11. CASE Signal(t) BY <2>11 DEF Signal
  <2>12. CASE Broadcast(t) BY <2>12 DEF Broadcast
  <2> QED BY <1>3, <2>1, <2>2, <2>3, <2>4, <2>5, <2>6, <2>7, <2>8, <2>9, <2>10, <2>11, <2>12 DEF Step
<1>4. CASE UNCHANGED vars BY <1>4 DEF vars
<1> QED BY <1>1, <1>2, <1>3, <1>4 DEF Next

(* No step lets the queue grow beyond one item more than maxsize_.         *)
LEMMA CapacityStep ==
  ASSUME TypeOK, Capacity, [Next]_vars
  PROVE  Capacity'
<1> USE DEF TypeOK, Labels, Critical, Go, Lock, Unlock, Waiting, Capacity
<1>1. ASSUME NEW t \in Threads, Call(t) PROVE Capacity'
  BY <1>1 DEF Call, CallEnqueue, CallDequeue, CallDone
<1>2. ASSUME NEW t \in Threads, SpuriousWakeup(t) PROVE Capacity'
  BY <1>2 DEF SpuriousWakeup
<1>3. ASSUME NEW t \in Threads, Step(t) PROVE Capacity'
  <2>1. CASE AcquireForEnqueue(t) BY <2>1 DEF AcquireForEnqueue
  <2>2. CASE AcquireForDequeue(t) BY <2>2 DEF AcquireForDequeue
  <2>3. CASE AcquireForDone(t) BY <2>3 DEF AcquireForDone
  <2>4. CASE EnqueueBody(t) BY <2>4 DEF EnqueueBody
  <2>5. CASE Take(t) BY <2>5 DEF Take
  <2>6. CASE FindEmpty(t) BY <2>6 DEF FindEmpty
  <2>7. CASE GiveUp(t) BY <2>7 DEF GiveUp
  <2>8. CASE DecideToWait(t) BY <2>8 DEF DecideToWait
  <2>9. CASE CondWait(t) BY <2>9 DEF CondWait
  <2>10. CASE DoneBody(t) BY <2>10 DEF DoneBody
  <2>11. CASE Signal(t) BY <2>11 DEF Signal
  <2>12. CASE Broadcast(t) BY <2>12 DEF Broadcast
  <2> QED BY <1>3, <2>1, <2>2, <2>3, <2>4, <2>5, <2>6, <2>7, <2>8, <2>9, <2>10, <2>11, <2>12 DEF Step
<1>4. CASE UNCHANGED vars BY <1>4 DEF vars
<1> QED BY <1>1, <1>2, <1>3, <1>4 DEF Next

(* The inductive invariant of the queue: no thread ever sleeps over an     *)
(* item or through done(), and the mutex is held just where it should be.  *)
THEOREM QueueSafe == Spec => []IInv
<1>1. Init => IInv
  <2> SUFFICES ASSUME Init PROVE IInv
    OBVIOUS
  <2>1. TypeOK
    BY EmptySeq DEF Init, TypeOK, Labels
  <2>2. Capacity
    BY EmptySeq DEF Init, Capacity
  <2>3. LockHeld /\ FreshTests /\ NoSleepOverItem /\ NoSleepThroughDone
    BY DEF Init, LockHeld, FreshTests, NoSleepOverItem, NoSleepThroughDone,
           Critical, Waiting
  <2> QED BY <2>1, <2>2, <2>3 DEF IInv
<1>2. TypeOK' /\ IInv /\ [Next]_vars => IInv'
  BY LockHeldStep, FreshTestsStep, NoSleepOverItemStep,
     NoSleepThroughDoneStep, CapacityStep DEF IInv
<1> QED BY <1>1, <1>2, TypeCorrect, PTL DEF Spec

(* Each part of it, as the runs check it.                                  *)
COROLLARY NeverSleepsOverItem == Spec => []NoSleepOverItem
<1>1. IInv => NoSleepOverItem
  BY DEF IInv
<1> QED BY <1>1, QueueSafe, PTL

(* Nor does anybody sleep once the queue was closed.                       *)
COROLLARY NeverSleepsThroughDone == Spec => []NoSleepThroughDone
<1>1. IInv => NoSleepThroughDone
  BY DEF IInv
<1> QED BY <1>1, QueueSafe, PTL

(* enqueue drops what does not fit.                                        *)
COROLLARY NeverOverCapacity == Spec => []Capacity
<1>1. IInv => Capacity
  BY DEF IInv
<1> QED BY <1>1, QueueSafe, PTL
-----------------------------------------------------------------------------
(* What a step of one thread does to the abstract call it is in.           *)
LEMMA CallChanges ==
  ASSUME TypeOK, NEW t \in Threads, NEW l \in Labels, NEW m \in Labels,
         Go(t, l, m)
  PROVE  /\ call[t] = CallOf(l)
         /\ call' = [call EXCEPT ![t] = CallOf(m)]
BY DEF TypeOK, Go, call

(* Every start of a call is one of the abstract queue.                     *)
LEMMA CallRefines ==
  ASSUME TypeOK, NEW t \in Threads, Call(t)
  PROVE  Abstract!Start(t)
<1> USE DEF Abstract!Start, Abstract!Progress, Labels, CallOf
<1>1. ASSUME NEW x \in Items, CallEnqueue(t, x) PROVE Abstract!Start(t)
  BY <1>1, CallChanges DEF CallEnqueue
<1>2. CASE CallDequeue(t)
  BY <1>2, CallChanges DEF CallDequeue
<1>3. CASE CallDone(t)
  BY <1>3, CallChanges DEF CallDone
<1> QED BY <1>1, <1>2, <1>3 DEF Call

(* A step that stays within one call is invisible to the abstract queue.   *)
LEMMA InvisibleStep ==
  ASSUME TypeOK, NEW t \in Threads, NEW l \in Labels, NEW m \in Labels,
         Go(t, l, m), CallOf(l) = CallOf(m), UNCHANGED <<queue, done, item>>
  PROVE  UNCHANGED Abstract!vars
BY CallChanges DEF Abstract!vars, TypeOK, call

(* Every step inside a method is the effect of the call, its return, or    *)
(* invisible.                                                              *)
LEMMA StepRefines ==
  ASSUME IInv, NEW t \in Threads, Step(t)
  PROVE  [Abstract!Next]_(Abstract!vars)
<1> USE DEF IInv, Labels
<1>1. CASE AcquireForEnqueue(t) \/ AcquireForDone(t) \/ AcquireForDequeue(t)
  BY <1>1, InvisibleStep DEF AcquireForEnqueue, AcquireForDone,
     AcquireForDequeue, CallOf
<1>2. CASE FindEmpty(t) \/ DecideToWait(t) \/ CondWait(t)
  BY <1>2, InvisibleStep DEF FindEmpty, DecideToWait, CondWait, CallOf
<1>3. CASE EnqueueBody(t)
  <2>1. Abstract!Enqueue(t)
    BY <1>3, CallChanges
    DEF EnqueueBody, Abstract!Enqueue, Abstract!Progress, CallOf
  <2> QED BY <2>1 DEF Abstract!Next
<1>4. CASE Take(t)
  <2>1. Abstract!Dequeue(t)
    BY <1>4, CallChanges
    DEF Take, Abstract!Dequeue, Abstract!Progress, CallOf
  <2> QED BY <2>1 DEF Abstract!Next
<1>5. CASE GiveUp(t)
  <2>1. queue = <<>>
    BY <1>5 DEF GiveUp, Go, FreshTests
  <2>2. Abstract!Dequeue(t)
    BY <1>5, <2>1, CallChanges
    DEF GiveUp, Abstract!Dequeue, Abstract!Progress, CallOf
  <2> QED BY <2>2 DEF Abstract!Next
<1>6. CASE DoneBody(t)
  <2>1. Abstract!Done(t)
    BY <1>6, CallChanges
    DEF DoneBody, Abstract!Done, Abstract!Progress, CallOf
  <2> QED BY <2>1 DEF Abstract!Next
<1>7. CASE Signal(t) \/ Broadcast(t)
  <2>1. call[t] = "returning" /\ call' = [call EXCEPT ![t] = "none"]
    <3>1. CASE Signal(t)
      BY <3>1 DEF Signal, Waiting, TypeOK, call, CallOf
    <3>2. CASE Broadcast(t)
      BY <3>2 DEF Broadcast, Waiting, TypeOK, call, CallOf
    <3> QED BY <1>7, <3>1, <3>2
  <2>2. Abstract!Return(t)
    BY <1>7, <2>1 DEF Signal, Broadcast, Abstract!Return, Abstract!Progress
  <2> QED BY <2>2 DEF Abstract!Next
<1> QED BY <1>1, <1>2, <1>3, <1>4, <1>5, <1>6, <1>7 DEF Step

(* Queue.h implements the closable FIFO: every call takes effect in one    *)
(* indivisible step between its start and its return.                      *)
THEOREM QueueLinearizable == Spec => Linearizable
<1>1. Init => Abstract!Init
  BY DEF Init, Abstract!Init, call, CallOf
<1>2. IInv /\ [Next]_vars => [Abstract!Next]_(Abstract!vars)
  <2> SUFFICES ASSUME IInv, [Next]_vars PROVE [Abstract!Next]_(Abstract!vars)
    OBVIOUS
  <2>1. ASSUME NEW t \in Threads, Call(t) PROVE Abstract!Next
    BY <2>1, CallRefines DEF Abstract!Next, IInv
  <2>2. ASSUME NEW t \in Threads, Step(t)
        PROVE  [Abstract!Next]_(Abstract!vars)
    BY <2>2, StepRefines
  <2>3. ASSUME NEW t \in Threads, SpuriousWakeup(t)
        PROVE  UNCHANGED Abstract!vars
    BY <2>3, InvisibleStep DEF SpuriousWakeup, CallOf, IInv, Labels
  <2>4. CASE UNCHANGED vars
    BY <2>4 DEF vars, Abstract!vars, call
  <2> QED BY <2>1, <2>2, <2>3, <2>4 DEF Next
<1> QED BY <1>1, <1>2, QueueSafe, PTL DEF Spec, Linearizable, Abstract!Spec
=============================================================================
