-------------------------- MODULE ThreadPoolProofs --------------------------
(***************************************************************************)
(* The destruction of threads/hdr/ThreadPool.h is safe for any number of   *)
(* workers and any jobs: the pool is one client of the queue of            *)
(* threads/hdr/Queue.h, whose theorems are taken from JobQueueProofs, and  *)
(* IInv is inductive.                                                      *)
(***************************************************************************)
EXTENDS ThreadPool, SequenceTheorems, FiniteSetTheorems, TLAPS

QP == INSTANCE JobQueueProofs

USE HowManyAssumption, JobAssumption, ThreadAssumption, BlocksAssumption

(* The constants the pool gives its queue are as the queue assumes them.   *)
LEMMA QueueConstants ==
  /\ MaxSize \in Nat /\ MaxSize >= 1
  /\ NoItem \notin Items
  /\ NoThread \notin Threads
BY DEF MaxSize, Items, Threads

(* The owner is a thread of its own.                                       *)
LEMMA OwnerNotWorker ==
  /\ Owner \in Threads /\ Owner \notin Workers
  /\ Workers \subseteq Threads
  /\ \A t \in Threads : t \in Workers \/ t = Owner
BY DEF Owner, Workers, Threads

(* Each step of the pool is a step of its queue or leaves the queue alone. *)
LEMMA QueueStepOfPool ==
  ASSUME PoolTypeOK, [Next]_vars
  PROVE  [Q!Next]_(Q!vars)
<1> USE OwnerNotWorker DEF vars, queueVars, Q!vars
<1>1. CASE StartWorker \/ BeginJoin \/ Join \/ Terminated
  BY <1>1 DEF StartWorker, BeginJoin, Join, Terminated
<1>2. CASE Destroy
  BY <1>2 DEF Destroy, Q!Next, Q!Call
<1>3. ASSUME NEW j \in Items, AddJob(j) PROVE Q!Next
  BY <1>3 DEF AddJob, Q!Next, Q!Call
<1>4. ASSUME NEW w \in Workers, NEW j \in Items, JobAddsJob(w, j) PROVE Q!Next
  BY <1>4 DEF JobAddsJob, Q!Next, Q!Call
<1>5. ASSUME NEW w \in Workers, PoolTaskStep(w) PROVE [Q!Next]_(Q!vars)
  <2>1. CASE AskForJob(w)
    BY <2>1 DEF AskForJob, Q!Next, Q!Call
  <2>2. CASE JobBlocked(w)
    <3>1. pjob[w] \in Items
      BY <2>2 DEF JobBlocked, Move, PoolTypeOK, Items
    <3> QED BY <2>2, <3>1 DEF JobBlocked, Q!Next, Q!Call
  <2>3. CASE LeaveLoop(w) \/ SkipNull(w) \/ StartJob(w) \/ JobGoesOn(w)
             \/ Requeued(w) \/ JobFinished(w) \/ JobError(w)
    BY <2>3 DEF LeaveLoop, SkipNull, StartJob, JobGoesOn, Requeued,
                JobFinished, JobError
  <2> QED BY <1>5, <2>1, <2>2, <2>3 DEF PoolTaskStep, RunReturns
<1>6. ASSUME NEW t \in Threads, QueueStep(t) PROVE Q!Next
  BY <1>6 DEF QueueStep, Q!Next
<1>7. ASSUME NEW t \in Threads, SpuriousWakeup(t) PROVE Q!Next
  BY <1>7 DEF SpuriousWakeup, Q!Next
<1>8. CASE UNCHANGED vars
  BY <1>8
<1> QED BY <1>1, <1>2, <1>3, <1>4, <1>5, <1>6, <1>7, <1>8 DEF Next

(* The types are kept.                                                     *)
LEMMA TypeStep ==
  ASSUME PoolTypeOK, [Next]_vars
  PROVE  PoolTypeOK'
<1> USE DEF PoolTypeOK, Move, Lives, Places, Fates
<1>1. CASE StartWorker
  BY <1>1 DEF StartWorker, Workers
<1>2. CASE BeginJoin \/ Join \/ Destroy \/ Terminated
  BY <1>2 DEF BeginJoin, Join, Destroy, Terminated, Workers, vars
<1>3. ASSUME NEW j \in Items, AddJob(j) PROVE PoolTypeOK'
  BY <1>3 DEF AddJob
<1>4. ASSUME NEW w \in Workers, NEW j \in Items, JobAddsJob(w, j) PROVE PoolTypeOK'
  BY <1>4 DEF JobAddsJob
<1>5. ASSUME NEW w \in Workers, PoolTaskStep(w) PROVE PoolTypeOK'
  <2>1. CASE AskForJob(w) BY <2>1 DEF AskForJob
  <2>2. CASE LeaveLoop(w) BY <2>2 DEF LeaveLoop
  <2>3. CASE SkipNull(w) BY <2>3 DEF SkipNull
  <2>4. CASE StartJob(w) BY <2>4 DEF StartJob
  <2>5. CASE JobGoesOn(w) BY <2>5 DEF JobGoesOn
  <2>6. CASE Requeued(w) BY <2>6 DEF Requeued
  <2>7. CASE JobFinished(w) BY <2>7 DEF JobFinished
  <2>8. CASE JobError(w) BY <2>8 DEF JobError
  <2>9. CASE JobBlocked(w) BY <2>9 DEF JobBlocked
  <2> QED BY <1>5, <2>1, <2>2, <2>3, <2>4, <2>5, <2>6, <2>7, <2>8, <2>9
          DEF PoolTaskStep, RunReturns
<1>6. ASSUME NEW t \in Threads, QueueStep(t) \/ SpuriousWakeup(t) PROVE PoolTypeOK'
  BY <1>6 DEF QueueStep, SpuriousWakeup
<1>7. CASE UNCHANGED vars
  BY <1>7 DEF vars
<1> QED BY <1>1, <1>2, <1>3, <1>4, <1>5, <1>6, <1>7 DEF Next

(* The pool is a client of the queue, so the queue is safe in it.          *)
LEMMA SameQueue ==
  /\ Q!Init <=> QP!Init
  /\ Q!vars = QP!vars
  /\ Q!Next <=> QP!Next
  /\ Q!IInv <=> QP!IInv
<1>1. Q!Init <=> QP!Init
  BY DEF Q!Init, QP!Init
<1>2. Q!vars = QP!vars
  BY DEF Q!vars, QP!vars
<1>3. Q!Next <=> QP!Next
  BY DEF Q!Next, QP!Next, Q!Call, QP!Call, Q!Step, QP!Step,
     Q!SpuriousWakeup, QP!SpuriousWakeup, Q!CallEnqueue, QP!CallEnqueue,
     Q!CallDequeue, QP!CallDequeue, Q!CallDone, QP!CallDone,
     Q!AcquireForEnqueue, QP!AcquireForEnqueue,
     Q!AcquireForDequeue, QP!AcquireForDequeue,
     Q!AcquireForDone, QP!AcquireForDone, Q!EnqueueBody, QP!EnqueueBody,
     Q!Take, QP!Take, Q!FindEmpty, QP!FindEmpty, Q!GiveUp, QP!GiveUp,
     Q!DecideToWait, QP!DecideToWait, Q!CondWait, QP!CondWait,
     Q!DoneBody, QP!DoneBody, Q!Signal, QP!Signal,
     Q!Broadcast, QP!Broadcast, Q!Go, QP!Go, Q!Lock, QP!Lock,
     Q!Unlock, QP!Unlock, Q!Waiting, QP!Waiting
<1>4. Q!IInv <=> QP!IInv
  BY DEF Q!IInv, QP!IInv, Q!TypeOK, QP!TypeOK, Q!LockHeld, QP!LockHeld,
     Q!FreshTests, QP!FreshTests, Q!NoSleepOverItem, QP!NoSleepOverItem,
     Q!NoSleepThroughDone, QP!NoSleepThroughDone, Q!Capacity, QP!Capacity,
     Q!Labels, QP!Labels, Q!Critical, QP!Critical, Q!Waiting, QP!Waiting
<1> QED BY <1>1, <1>2, <1>3, <1>4

(* Every state of the pool is well typed, and its queue is safe.           *)
THEOREM PoolQueueSafe == Spec => [](TypeOK /\ Q!IInv)
<1>1. Init => QP!Init
  BY SameQueue DEF Init
<1>2. Init => PoolTypeOK
  BY DEF Init, PoolTypeOK, Lives, Places, Fates, Workers
<1>3. PoolTypeOK /\ [Next]_vars => [QP!Next]_(QP!vars)
  BY QueueStepOfPool, SameQueue DEF Q!vars, QP!vars
<1>4. PoolTypeOK /\ [Next]_vars => PoolTypeOK'
  BY TypeStep
<1>5. PoolTypeOK /\ Q!IInv => TypeOK
  BY DEF TypeOK, Q!IInv
<1>6. QP!Spec => []QP!IInv
  BY QP!QueueSafe, QueueConstants
<1>7. QP!IInv => Q!IInv
  BY SameQueue
<1> QED BY <1>1, <1>2, <1>3, <1>4, <1>5, <1>6, <1>7, PTL DEF Spec, QP!Spec
-----------------------------------------------------------------------------
(* How the places of the threads in the queue change when the queue moves: *)
(* a thread stays inside the method it is in, or returns from it.          *)
Successor ==
  {<<"enqLock", "enqIn">>, <<"enqIn", "signal">>, <<"deqLock", "deqTest">>,
   <<"wake", "deqTest">>, <<"deqTest", "signal">>, <<"deqTest", "deqDone">>,
   <<"deqDone", "signal">>, <<"deqDone", "deqWait">>,
   <<"deqWait", "waiting">>, <<"waiting", "wake">>,
   <<"doneLock", "doneIn">>, <<"doneIn", "broadcast">>,
   <<"signal", "idle">>, <<"broadcast", "idle">>}

(* A thread moves inside the queue along the code of its methods only, and *)
(* moves alone.                                                            *)
LEMMA QueueMoves ==
  ASSUME Q!TypeOK, NEW t \in Threads, Q!Step(t) \/ Q!SpuriousWakeup(t)
  PROVE  /\ \A u \in Threads :
              pc'[u] = pc[u] \/ <<pc[u], pc'[u]>> \in Successor
         /\ DOMAIN pc' = Threads
<1> USE DEF Q!TypeOK, Q!Labels, Successor, Q!Go, Q!Waiting
<1>1. CASE Q!AcquireForEnqueue(t) BY <1>1 DEF Q!AcquireForEnqueue
<1>2. CASE Q!AcquireForDequeue(t) BY <1>2 DEF Q!AcquireForDequeue
<1>3. CASE Q!AcquireForDone(t) BY <1>3 DEF Q!AcquireForDone
<1>4. CASE Q!EnqueueBody(t) BY <1>4 DEF Q!EnqueueBody
<1>5. CASE Q!Take(t) BY <1>5 DEF Q!Take
<1>6. CASE Q!FindEmpty(t) BY <1>6 DEF Q!FindEmpty
<1>7. CASE Q!GiveUp(t) BY <1>7 DEF Q!GiveUp
<1>8. CASE Q!DecideToWait(t) BY <1>8 DEF Q!DecideToWait
<1>9. CASE Q!CondWait(t) BY <1>9 DEF Q!CondWait
<1>10. CASE Q!DoneBody(t) BY <1>10 DEF Q!DoneBody
<1>11. CASE Q!Signal(t) BY <1>11 DEF Q!Signal
<1>12. CASE Q!Broadcast(t) BY <1>12 DEF Q!Broadcast
<1>13. CASE Q!SpuriousWakeup(t) BY <1>13 DEF Q!SpuriousWakeup
<1> QED BY <1>1, <1>2, <1>3, <1>4, <1>5, <1>6, <1>7, <1>8, <1>9, <1>10, <1>11, <1>12, <1>13 DEF Q!Step

(* The item of a thread changes only where it stores or takes one.         *)
LEMMA ItemMoves ==
  ASSUME Q!TypeOK, NEW t \in Threads, Q!Step(t) \/ Q!SpuriousWakeup(t),
         NEW u \in Threads, pc[u] \notin {"enqIn", "deqTest"}
  PROVE  item'[u] = item[u]
<1> USE DEF Q!TypeOK, Q!Go
<1>1. CASE Q!AcquireForEnqueue(t) BY <1>1 DEF Q!AcquireForEnqueue
<1>2. CASE Q!AcquireForDequeue(t) BY <1>2 DEF Q!AcquireForDequeue
<1>3. CASE Q!AcquireForDone(t) BY <1>3 DEF Q!AcquireForDone
<1>4. CASE Q!EnqueueBody(t) BY <1>4 DEF Q!EnqueueBody
<1>5. CASE Q!Take(t) BY <1>5 DEF Q!Take
<1>6. CASE Q!FindEmpty(t) BY <1>6 DEF Q!FindEmpty
<1>7. CASE Q!GiveUp(t) BY <1>7 DEF Q!GiveUp
<1>8. CASE Q!DecideToWait(t) BY <1>8 DEF Q!DecideToWait
<1>9. CASE Q!CondWait(t) BY <1>9 DEF Q!CondWait
<1>10. CASE Q!DoneBody(t) BY <1>10 DEF Q!DoneBody
<1>11. CASE Q!Signal(t) BY <1>11 DEF Q!Signal
<1>12. CASE Q!Broadcast(t) BY <1>12 DEF Q!Broadcast
<1>13. CASE Q!SpuriousWakeup(t) BY <1>13 DEF Q!SpuriousWakeup
<1> QED BY <1>1, <1>2, <1>3, <1>4, <1>5, <1>6, <1>7, <1>8, <1>9, <1>10, <1>11, <1>12, <1>13 DEF Q!Step

(* A queue that is closed and empty stays so, ...                          *)
LEMMA ClosedStaysEmpty ==
  ASSUME Q!TypeOK, NEW t \in Threads, Q!Step(t) \/ Q!SpuriousWakeup(t),
         done, queue = <<>>
  PROVE  done' /\ queue' = <<>>
<1> USE DEF Q!TypeOK
<1>1. CASE Q!AcquireForEnqueue(t) BY <1>1 DEF Q!AcquireForEnqueue
<1>2. CASE Q!AcquireForDequeue(t) BY <1>2 DEF Q!AcquireForDequeue
<1>3. CASE Q!AcquireForDone(t) BY <1>3 DEF Q!AcquireForDone
<1>4. CASE Q!EnqueueBody(t) BY <1>4 DEF Q!EnqueueBody
<1>5. CASE Q!Take(t) BY <1>5 DEF Q!Take
<1>6. CASE Q!FindEmpty(t) BY <1>6 DEF Q!FindEmpty
<1>7. CASE Q!GiveUp(t) BY <1>7 DEF Q!GiveUp
<1>8. CASE Q!DecideToWait(t) BY <1>8 DEF Q!DecideToWait
<1>9. CASE Q!CondWait(t) BY <1>9 DEF Q!CondWait
<1>10. CASE Q!DoneBody(t) BY <1>10 DEF Q!DoneBody
<1>11. CASE Q!Signal(t) BY <1>11 DEF Q!Signal
<1>12. CASE Q!Broadcast(t) BY <1>12 DEF Q!Broadcast
<1>13. CASE Q!SpuriousWakeup(t) BY <1>13 DEF Q!SpuriousWakeup
<1> QED BY <1>1, <1>2, <1>3, <1>4, <1>5, <1>6, <1>7, <1>8, <1>9, <1>10, <1>11, <1>12, <1>13 DEF Q!Step

(* ... and a dequeue that comes back without an item found it so.          *)
LEMMA EmptyHandedReturn ==
  ASSUME Q!IInv, NEW t \in Threads, Q!Step(t) \/ Q!SpuriousWakeup(t),
         NEW u \in Threads, pc[u] \in {"deqTest", "deqDone"},
         pc'[u] = "signal", item'[u] = NoItem
  PROVE  done' /\ queue' = <<>>
<1> USE QueueConstants DEF Q!IInv, Q!TypeOK, Q!Labels, Q!Go
<1>1. CASE Q!Take(t)
  <2>1. Head(queue) \in Items
    BY <1>1, HeadTailProperties DEF Q!Take
  <2> QED BY <1>1, <2>1 DEF Q!Take
<1>2. CASE Q!GiveUp(t)
  BY <1>2 DEF Q!GiveUp, Q!FreshTests
<1>3. u = t
  BY DEF Q!Step, Q!SpuriousWakeup, Q!Signal, Q!Broadcast, Q!Waiting,
         Q!AcquireForEnqueue, Q!AcquireForDequeue, Q!AcquireForDone,
         Q!EnqueueBody, Q!Take, Q!FindEmpty, Q!GiveUp, Q!DecideToWait,
         Q!CondWait, Q!DoneBody
<1>4. Q!Take(t) \/ Q!GiveUp(t)
  BY <1>3 DEF Q!Step, Q!SpuriousWakeup, Q!Signal, Q!Broadcast, Q!Waiting,
         Q!AcquireForEnqueue, Q!AcquireForDequeue, Q!AcquireForDone,
         Q!EnqueueBody, Q!FindEmpty, Q!DecideToWait,
         Q!CondWait, Q!DoneBody
<1> QED BY <1>1, <1>2, <1>4
-----------------------------------------------------------------------------
(* Every step keeps the owner and the workers inside the methods of the    *)
(* queue that their own place in the code admits.                          *)
LEMMA OwnerPlaceStep ==
  ASSUME TypeOK, OwnerPlace, WorkerPlace, [Next]_vars
  PROVE  OwnerPlace'
<1> USE OwnerNotWorker, QueueConstants
    DEF vars, queueVars, Q!Go, Q!TypeOK, Move, Back, TypeOK, PoolTypeOK,
        OwnerPlace
<1>1. CASE StartWorker BY <1>1 DEF StartWorker
<1>2. CASE BeginJoin BY <1>2 DEF BeginJoin
<1>3. CASE Join BY <1>3 DEF Join
<1>4. CASE Destroy BY <1>4 DEF Destroy, Q!CallDone
<1>5. ASSUME NEW j \in Items, AddJob(j) PROVE OwnerPlace'
  BY <1>5 DEF AddJob, Q!CallEnqueue
<1>6. ASSUME NEW w \in Workers, NEW j \in Items, JobAddsJob(w, j)
      PROVE  OwnerPlace'
  BY <1>6 DEF JobAddsJob, Q!CallEnqueue
<1>7. ASSUME NEW w \in Workers, PoolTaskStep(w) PROVE OwnerPlace'
  <2>1. CASE AskForJob(w) BY <2>1 DEF AskForJob, Q!CallDequeue
  <2>2. CASE LeaveLoop(w) BY <2>2 DEF LeaveLoop
  <2>3. CASE SkipNull(w) BY <2>3 DEF SkipNull
  <2>4. CASE StartJob(w) BY <2>4 DEF StartJob
  <2>5. CASE JobGoesOn(w) BY <2>5 DEF JobGoesOn
  <2>6. CASE Requeued(w) BY <2>6 DEF Requeued
  <2>7. CASE JobFinished(w) BY <2>7 DEF JobFinished
  <2>8. CASE JobError(w) BY <2>8 DEF JobError
  <2>9. CASE JobBlocked(w) BY <2>9 DEF JobBlocked, Q!CallEnqueue
  <2> QED BY <1>7, <2>1, <2>2, <2>3, <2>4, <2>5, <2>6, <2>7, <2>8, <2>9
          DEF PoolTaskStep, RunReturns
<1>8. ASSUME NEW t \in Threads, QueueStep(t) \/ SpuriousWakeup(t)
      PROVE  OwnerPlace'
  BY <1>8, QueueMoves DEF QueueStep, SpuriousWakeup, Successor
<1>9. CASE UNCHANGED vars BY <1>9
<1> QED BY <1>1, <1>2, <1>3, <1>4, <1>5, <1>6, <1>7, <1>8, <1>9
        DEF Next, Terminated

(* Workers stay where their place in PoolTask::run allows.                 *)
LEMMA WorkerPlaceStep ==
  ASSUME TypeOK, OwnerPlace, WorkerPlace, [Next]_vars
  PROVE  WorkerPlace'
<1> USE OwnerNotWorker, QueueConstants
    DEF vars, queueVars, Q!Go, Q!TypeOK, Move, Back, TypeOK, PoolTypeOK,
        WorkerPlace
<1>1. CASE StartWorker BY <1>1 DEF StartWorker
<1>2. CASE BeginJoin BY <1>2 DEF BeginJoin
<1>3. CASE Join BY <1>3 DEF Join
<1>4. CASE Destroy BY <1>4 DEF Destroy, Q!CallDone
<1>5. ASSUME NEW j \in Items, AddJob(j) PROVE WorkerPlace'
  BY <1>5 DEF AddJob, Q!CallEnqueue
<1>6. ASSUME NEW w \in Workers, NEW j \in Items, JobAddsJob(w, j)
      PROVE  WorkerPlace'
  BY <1>6 DEF JobAddsJob, Q!CallEnqueue
<1>7. ASSUME NEW w \in Workers, PoolTaskStep(w) PROVE WorkerPlace'
  <2>1. CASE AskForJob(w) BY <2>1 DEF AskForJob, Q!CallDequeue
  <2>2. CASE LeaveLoop(w) BY <2>2 DEF LeaveLoop
  <2>3. CASE SkipNull(w) BY <2>3 DEF SkipNull
  <2>4. CASE StartJob(w) BY <2>4 DEF StartJob
  <2>5. CASE JobGoesOn(w) BY <2>5 DEF JobGoesOn
  <2>6. CASE Requeued(w) BY <2>6 DEF Requeued
  <2>7. CASE JobFinished(w) BY <2>7 DEF JobFinished
  <2>8. CASE JobError(w) BY <2>8 DEF JobError
  <2>9. CASE JobBlocked(w) BY <2>9 DEF JobBlocked, Q!CallEnqueue
  <2> QED BY <1>7, <2>1, <2>2, <2>3, <2>4, <2>5, <2>6, <2>7, <2>8, <2>9
          DEF PoolTaskStep, RunReturns
<1>8. ASSUME NEW t \in Threads, QueueStep(t) \/ SpuriousWakeup(t)
      PROVE  WorkerPlace'
  BY <1>8, QueueMoves DEF QueueStep, SpuriousWakeup, Successor
<1>9. CASE UNCHANGED vars BY <1>9
<1> QED BY <1>1, <1>2, <1>3, <1>4, <1>5, <1>6, <1>7, <1>8, <1>9
        DEF Next, Terminated

(* Once a worker has left, the queue stays closed and empty.               *)
LEMMA LeaveStep ==
  ASSUME TypeOK, WorkerPlace, EmptyHanded, WorkersLeaveDrained, [Next]_vars
  PROVE  WorkersLeaveDrained'
<1> USE OwnerNotWorker, QueueConstants
    DEF vars, queueVars, Q!Go, Q!TypeOK, Move, Back, TypeOK, PoolTypeOK,
        WorkersLeaveDrained, EmptyHanded
<1>1. CASE StartWorker BY <1>1 DEF StartWorker
<1>2. CASE BeginJoin BY <1>2 DEF BeginJoin
<1>3. CASE Join BY <1>3 DEF Join
<1>4. CASE Destroy BY <1>4 DEF Destroy, Q!CallDone
<1>5. ASSUME NEW j \in Items, AddJob(j) PROVE WorkersLeaveDrained'
  BY <1>5 DEF AddJob, Q!CallEnqueue
<1>6. ASSUME NEW w \in Workers, NEW j \in Items, JobAddsJob(w, j)
      PROVE  WorkersLeaveDrained'
  BY <1>6 DEF JobAddsJob, Q!CallEnqueue
<1>7. ASSUME NEW w \in Workers, PoolTaskStep(w) PROVE WorkersLeaveDrained'
  <2>1. CASE AskForJob(w) BY <2>1 DEF AskForJob, Q!CallDequeue
  <2>2. CASE LeaveLoop(w) BY <2>2 DEF LeaveLoop
  <2>3. CASE SkipNull(w) BY <2>3 DEF SkipNull
  <2>4. CASE StartJob(w) BY <2>4 DEF StartJob
  <2>5. CASE JobGoesOn(w) BY <2>5 DEF JobGoesOn
  <2>6. CASE Requeued(w) BY <2>6 DEF Requeued
  <2>7. CASE JobFinished(w) BY <2>7 DEF JobFinished
  <2>8. CASE JobError(w) BY <2>8 DEF JobError
  <2>9. CASE JobBlocked(w) BY <2>9 DEF JobBlocked, Q!CallEnqueue
  <2> QED BY <1>7, <2>1, <2>2, <2>3, <2>4, <2>5, <2>6, <2>7, <2>8, <2>9
          DEF PoolTaskStep, RunReturns
<1>8. ASSUME NEW t \in Threads, QueueStep(t) \/ SpuriousWakeup(t)
      PROVE  WorkersLeaveDrained'
  BY <1>8, ClosedStaysEmpty DEF QueueStep, SpuriousWakeup
<1>9. CASE UNCHANGED vars BY <1>9
<1> QED BY <1>1, <1>2, <1>3, <1>4, <1>5, <1>6, <1>7, <1>8, <1>9
        DEF Next, Terminated

(* A worker comes back empty-handed only from a closed, empty queue.       *)
LEMMA EmptyHandedStep ==
  ASSUME TypeOK, Q!IInv, WorkerPlace, EmptyHanded, [Next]_vars
  PROVE  EmptyHanded'
<1> USE OwnerNotWorker, QueueConstants
    DEF vars, queueVars, Q!Go, Q!TypeOK, Move, Back, TypeOK, PoolTypeOK,
        EmptyHanded
<1>1. CASE StartWorker BY <1>1 DEF StartWorker
<1>2. CASE BeginJoin BY <1>2 DEF BeginJoin
<1>3. CASE Join BY <1>3 DEF Join
<1>4. CASE Destroy BY <1>4 DEF Destroy, Q!CallDone
<1>5. ASSUME NEW j \in Items, AddJob(j) PROVE EmptyHanded'
  BY <1>5 DEF AddJob, Q!CallEnqueue
<1>6. ASSUME NEW w \in Workers, NEW j \in Items, JobAddsJob(w, j)
      PROVE  EmptyHanded'
  BY <1>6 DEF JobAddsJob, Q!CallEnqueue
<1>7. ASSUME NEW w \in Workers, PoolTaskStep(w) PROVE EmptyHanded'
  <2>1. CASE AskForJob(w) BY <2>1 DEF AskForJob, Q!CallDequeue
  <2>2. CASE LeaveLoop(w) BY <2>2 DEF LeaveLoop
  <2>3. CASE SkipNull(w) BY <2>3 DEF SkipNull
  <2>4. CASE StartJob(w) BY <2>4 DEF StartJob
  <2>5. CASE JobGoesOn(w) BY <2>5 DEF JobGoesOn
  <2>6. CASE Requeued(w) BY <2>6 DEF Requeued
  <2>7. CASE JobFinished(w) BY <2>7 DEF JobFinished
  <2>8. CASE JobError(w) BY <2>8 DEF JobError
  <2>9. CASE JobBlocked(w) BY <2>9 DEF JobBlocked, Q!CallEnqueue
  <2> QED BY <1>7, <2>1, <2>2, <2>3, <2>4, <2>5, <2>6, <2>7, <2>8, <2>9
          DEF PoolTaskStep, RunReturns
<1>8. ASSUME NEW t \in Threads, QueueStep(t) \/ SpuriousWakeup(t)
      PROVE  EmptyHanded'
  <2> SUFFICES ASSUME NEW w \in Workers, at'[w] = "dequeuing",
                      pc'[w] \in {"signal", "idle"}, item'[w] = NoItem
               PROVE  done' /\ queue' = <<>>
    OBVIOUS
  <2>1. Q!Step(t) \/ Q!SpuriousWakeup(t)
    BY <1>8 DEF QueueStep, SpuriousWakeup
  <2>2. at[w] = "dequeuing"
    BY <1>8 DEF QueueStep, SpuriousWakeup
  <2>3. \/ pc[w] \in {"signal", "idle"}
        \/ pc[w] \in {"deqTest", "deqDone"} /\ pc'[w] = "signal"
    BY <2>1, <2>2, QueueMoves DEF Successor, WorkerPlace
  <2>4. CASE pc[w] \in {"signal", "idle"}
    <3>1. item[w] = NoItem
      BY <2>1, <2>4, ItemMoves
    <3> QED BY <2>1, <2>2, <2>4, <3>1, ClosedStaysEmpty
  <2>5. CASE pc[w] \in {"deqTest", "deqDone"} /\ pc'[w] = "signal"
    BY <2>1, <2>5, EmptyHandedReturn
  <2> QED BY <2>3, <2>4, <2>5
<1>9. CASE UNCHANGED vars BY <1>9
<1> QED BY <1>1, <1>2, <1>3, <1>4, <1>5, <1>6, <1>7, <1>8, <1>9
        DEF Next, Terminated

(* The destructor has joined just the workers it has passed.               *)
LEMMA JoinedStep ==
  ASSUME TypeOK, JoinedSoFar, [Next]_vars
  PROVE  JoinedSoFar'
<1> USE OwnerNotWorker, QueueConstants
    DEF vars, queueVars, Q!Go, Q!TypeOK, Move, Back, TypeOK, PoolTypeOK,
        JoinedSoFar, Workers
<1>1. CASE StartWorker BY <1>1 DEF StartWorker
<1>2. CASE BeginJoin BY <1>2 DEF BeginJoin
<1>3. CASE Join BY <1>3 DEF Join
<1>4. CASE Destroy BY <1>4 DEF Destroy, Q!CallDone
<1>5. ASSUME NEW j \in Items, AddJob(j) PROVE JoinedSoFar'
  BY <1>5 DEF AddJob, Q!CallEnqueue
<1>6. ASSUME NEW w \in Workers, NEW j \in Items, JobAddsJob(w, j)
      PROVE  JoinedSoFar'
  BY <1>6 DEF JobAddsJob, Q!CallEnqueue
<1>7. ASSUME NEW w \in Workers, PoolTaskStep(w) PROVE JoinedSoFar'
  <2>1. CASE AskForJob(w) BY <2>1 DEF AskForJob, Q!CallDequeue
  <2>2. CASE LeaveLoop(w) BY <2>2 DEF LeaveLoop
  <2>3. CASE SkipNull(w) BY <2>3 DEF SkipNull
  <2>4. CASE StartJob(w) BY <2>4 DEF StartJob
  <2>5. CASE JobGoesOn(w) BY <2>5 DEF JobGoesOn
  <2>6. CASE Requeued(w) BY <2>6 DEF Requeued
  <2>7. CASE JobFinished(w) BY <2>7 DEF JobFinished
  <2>8. CASE JobError(w) BY <2>8 DEF JobError
  <2>9. CASE JobBlocked(w) BY <2>9 DEF JobBlocked, Q!CallEnqueue
  <2> QED BY <1>7, <2>1, <2>2, <2>3, <2>4, <2>5, <2>6, <2>7, <2>8, <2>9
          DEF PoolTaskStep, RunReturns
<1>8. ASSUME NEW t \in Threads, QueueStep(t) \/ SpuriousWakeup(t)
      PROVE  JoinedSoFar'
  BY <1>8 DEF QueueStep, SpuriousWakeup
<1>9. CASE UNCHANGED vars BY <1>9
<1> QED BY <1>1, <1>2, <1>3, <1>4, <1>5, <1>6, <1>7, <1>8, <1>9
        DEF Next, Terminated
-----------------------------------------------------------------------------
(* The inductive invariant of the pool.                                    *)
THEOREM PoolSafe == Spec => []IInv
<1>1. Init => IInv
  <2> SUFFICES ASSUME Init PROVE IInv
    OBVIOUS
  <2>1. Q!TypeOK
    BY EmptySeq DEF Init, Q!Init, Q!TypeOK, Q!Labels
  <2>2. TypeOK
    BY <2>1 DEF Init, TypeOK, PoolTypeOK, Lives, Places, Fates, Workers
  <2> QED
    BY <2>2, OwnerNotWorker
    DEF Init, Q!Init, IInv, OwnerPlace, WorkerPlace, EmptyHanded,
        WorkersLeaveDrained, JoinedSoFar
<1>2. IInv /\ Q!IInv /\ TypeOK' /\ [Next]_vars => IInv'
  BY OwnerPlaceStep, WorkerPlaceStep, EmptyHandedStep, LeaveStep, JoinedStep
  DEF IInv
<1> QED BY <1>1, <1>2, PoolQueueSafe, PTL DEF Spec

(* No worker leaves before the queue is closed and empty.                  *)
THEOREM NoEarlyLeave == Spec => []WorkersLeaveDrained
<1>1. IInv => WorkersLeaveDrained
  BY DEF IInv
<1> QED BY <1>1, PoolSafe, PTL

(* When the destructor has returned nothing uses the queue any more.       *)
THEOREM NoUseAfterDestroy == Spec => []DestroyedIsUnused
<1>1. IInv /\ Q!IInv => DestroyedIsUnused
  <2> SUFFICES ASSUME IInv, Q!IInv, life = "destroyed"
               PROVE  /\ \A t \in Threads : pc[t] = "idle"
                      /\ \A w \in Workers : at[w] = "exited"
                      /\ owner = NoThread
    BY DEF DestroyedIsUnused
  <2>1. \A w \in Workers : at[w] = "exited"
    BY DEF IInv, JoinedSoFar
  <2>2. \A t \in Threads : pc[t] = "idle"
    BY <2>1, OwnerNotWorker DEF IInv, WorkerPlace, OwnerPlace
  <2>3. owner = NoThread
    BY <2>2 DEF Q!IInv, Q!LockHeld, Q!Critical, Q!TypeOK
  <2> QED BY <2>1, <2>2, <2>3
<1> QED BY <1>1, PoolSafe, PoolQueueSafe, PTL
-----------------------------------------------------------------------------
(* No job is run twice or lost: PlaceInv is inductive, on top of what is   *)
(* proved above, and gives JobInOnePlace.  The queue drops an item also    *)
(* when it is over its capacity, so the jobs must not be more than         *)
(* maxsize_ holds.                                                         *)

(* As many jobs as the default capacity of the queue, 2^31 - 1.            *)
FewJobs == IsFiniteSet(Jobs) /\ Cardinality(Jobs) <= MaxSize

Tracked(x) == AtMostOnce(x) /\ FateTells(x)

(* The steps of the queue that neither store nor take an item.             *)
QuietStep(t) ==
  /\ Q!Step(t) \/ Q!SpuriousWakeup(t)
  /\ ~Q!EnqueueBody(t) /\ ~Q!Take(t)
-----------------------------------------------------------------------------
(* They leave the items alone, and let no dequeue come back with one.      *)
LEMMA QuietMoves ==
  ASSUME Q!TypeOK, NEW t \in Threads, QuietStep(t)
  PROVE  /\ queue' = queue /\ item' = item /\ (done => done')
         /\ \A u \in Threads :
              \/ pc'[u] = pc[u]
              \/ /\ <<pc[u], pc'[u]>> \in Successor
                 /\ pc[u] # "enqIn"
                 /\ ~(pc[u] = "deqTest" /\ pc'[u] = "signal")
<1> USE DEF Q!TypeOK, Q!Labels, Successor, Q!Go, Q!Waiting, QuietStep
<1>1. CASE Q!AcquireForEnqueue(t) BY <1>1 DEF Q!AcquireForEnqueue
<1>2. CASE Q!AcquireForDequeue(t) BY <1>2 DEF Q!AcquireForDequeue
<1>3. CASE Q!AcquireForDone(t) BY <1>3 DEF Q!AcquireForDone
<1>4. CASE Q!FindEmpty(t) BY <1>4 DEF Q!FindEmpty
<1>5. CASE Q!GiveUp(t) BY <1>5 DEF Q!GiveUp
<1>6. CASE Q!DecideToWait(t) BY <1>6 DEF Q!DecideToWait
<1>7. CASE Q!CondWait(t) BY <1>7 DEF Q!CondWait
<1>8. CASE Q!DoneBody(t) BY <1>8 DEF Q!DoneBody
<1>9. CASE Q!Signal(t) BY <1>9 DEF Q!Signal
<1>10. CASE Q!Broadcast(t) BY <1>10 DEF Q!Broadcast
<1>11. CASE Q!SpuriousWakeup(t) BY <1>11 DEF Q!SpuriousWakeup
<1> QED BY <1>1, <1>2, <1>3, <1>4, <1>5, <1>6, <1>7, <1>8, <1>9, <1>10, <1>11
        DEF Q!Step

(* An item that does not move, and whose fate stays alike, stays tracked.  *)
LEMMA Unmoved ==
  ASSUME NEW x \in Items, Tracked(x), queue' = queue, done => done',
         fate'[x] \in {"new", "finished", "failed"} =>
           fate[x] \in {"new", "finished", "failed"},
         fate'[x] \in {"added", "spawned", "started"} =>
           fate[x] \in {"added", "spawned", "started"},
         \A t \in Threads : Carries(t, x)' <=> Carries(t, x)
  PROVE  Tracked(x)'
BY DEF Tracked, AtMostOnce, FateTells, Somewhere

(* An item that was nowhere, given to a thread with its fate set.          *)
LEMMA Given ==
  ASSUME NEW x \in Items, Tracked(x), queue' = queue,
         fate[x] = "new", fate'[x] \in {"added", "spawned"},
         NEW t \in Threads, Carries(t, x)',
         \A u \in Threads \ {t} : Carries(u, x)' <=> Carries(u, x)
  PROVE  Tracked(x)'
BY DEF Tracked, AtMostOnce, FateTells, Somewhere

(* An item that its only holder lets go of, and that is over or null.      *)
LEMMA LetGo ==
  ASSUME NEW x \in Items, Tracked(x), queue' = queue,
         x \in Jobs => fate'[x] \in {"finished", "failed"},
         NEW t \in Threads, Carries(t, x), ~Carries(t, x)',
         \A u \in Threads \ {t} : Carries(u, x)' <=> Carries(u, x)
  PROVE  Tracked(x)'
BY DEF Tracked, AtMostOnce, FateTells, Somewhere

(* An item that its holder stores in the queue, and one it drops there ... *)
LEMMA Stored ==
  ASSUME NEW x \in Items, Tracked(x), queue \in Seq(Items),
         queue' = Append(queue, x), done' = done, fate' = fate,
         NEW t \in Threads, Carries(t, x), ~Carries(t, x)',
         \A u \in Threads \ {t} : Carries(u, x)' <=> Carries(u, x)
  PROVE  Tracked(x)'
<1>1. /\ Len(queue) \in Nat /\ Len(queue') = Len(queue) + 1
      /\ \A i \in 1 .. Len(queue) : queue'[i] = queue[i]
      /\ queue'[Len(queue) + 1] = x
  BY AppendProperties
<1>2. \A i \in 1 .. Len(queue') : i \in 1 .. Len(queue) \/ i = Len(queue) + 1
  BY <1>1
<1>3. \A i \in 1 .. Len(queue) : queue[i] # x
  BY DEF Tracked, AtMostOnce
<1>4. \A u \in Threads : ~Carries(u, x)'
  BY DEF Tracked, AtMostOnce
<1>5. \A i \in 1 .. Len(queue') : queue'[i] = x => i = Len(queue) + 1
  BY <1>1, <1>2, <1>3
<1>6. AtMostOnce(x)'
  BY <1>4, <1>5 DEF AtMostOnce
<1>7. Somewhere(x) /\ Somewhere(x)'
  BY <1>1 DEF Somewhere
<1>8. FateTells(x)'
  BY <1>7 DEF Tracked, FateTells
<1> QED BY <1>6, <1>8 DEF Tracked

(* (the queue is closed) ...                                               *)
LEMMA Dropped ==
  ASSUME NEW x \in Items, Tracked(x), queue' = queue, fate' = fate, done',
         NEW t \in Threads, Carries(t, x), ~Carries(t, x)',
         \A u \in Threads \ {t} : Carries(u, x)' <=> Carries(u, x)
  PROVE  Tracked(x)'
BY DEF Tracked, AtMostOnce, FateTells, Somewhere

(* ... leave the other items where they are, ...                           *)
LEMMA OtherStored ==
  ASSUME NEW x \in Items, Tracked(x), queue \in Seq(Items),
         NEW y \in Items, y # x,
         queue' = Append(queue, y), done' = done, fate' = fate,
         \A u \in Threads : Carries(u, x)' <=> Carries(u, x)
  PROVE  Tracked(x)'
<1>1. /\ Len(queue) \in Nat /\ Len(queue') = Len(queue) + 1
      /\ \A i \in 1 .. Len(queue) : queue'[i] = queue[i]
      /\ queue'[Len(queue) + 1] = y
  BY AppendProperties
<1>2. \A i \in 1 .. Len(queue') : queue'[i] = x =>
        i \in 1 .. Len(queue) /\ queue[i] = x
  BY <1>1
<1>3. \A i \in 1 .. Len(queue) : i \in 1 .. Len(queue') /\ queue'[i] = queue[i]
  BY <1>1
<1>4. AtMostOnce(x)'
  BY <1>2 DEF Tracked, AtMostOnce
<1>5. Somewhere(x)' <=> Somewhere(x)
  BY <1>2, <1>3 DEF Somewhere
<1> QED BY <1>4, <1>5 DEF Tracked, FateTells

(* ... and so with the head of the queue, which a thread takes:            *)
LEMMA Shifted ==
  ASSUME queue \in Seq(Items), queue # <<>>, queue' = Tail(queue)
  PROVE  /\ Len(queue) \in Nat /\ 1 \in 1 .. Len(queue)
         /\ Head(queue) = queue[1] /\ Head(queue) \in Items
         /\ \A i \in 1 .. Len(queue') :
              i + 1 \in 1 .. Len(queue) /\ queue'[i] = queue[i + 1]
         /\ \A i \in 1 .. Len(queue) :
              i # 1 => i - 1 \in 1 .. Len(queue') /\ queue[i] = queue'[i - 1]
<1>1. /\ Len(queue) \in Nat /\ Len(queue) # 0
      /\ Head(queue) = queue[1]
      /\ Head(queue) \in Items
      /\ Len(queue') = Len(queue) - 1
      /\ \A i \in 1 .. Len(queue') : queue'[i] = queue[i + 1]
  BY HeadTailProperties, EmptySeq
<1>2. \A i \in 1 .. Len(queue) : i # 1 => i - 1 \in 1 .. Len(queue')
  BY <1>1
<1>3. \A i \in 1 .. Len(queue) : i # 1 => queue[i] = queue'[i - 1]
  <2> SUFFICES ASSUME NEW i \in 1 .. Len(queue), i # 1
               PROVE  queue[i] = queue'[i - 1]
    OBVIOUS
  <2>1. queue'[i - 1] = queue[(i - 1) + 1]
    BY <1>1, <1>2
  <2> QED BY <2>1
<1> QED BY <1>1, <1>2, <1>3

(* the thread has it from then on, ...                                     *)
LEMMA Taken ==
  ASSUME NEW x \in Items, Tracked(x), queue \in Seq(Items), queue # <<>>,
         x = Head(queue), queue' = Tail(queue), done' = done, fate' = fate,
         NEW t \in Threads, Carries(t, x)',
         \A u \in Threads \ {t} : Carries(u, x)' <=> Carries(u, x)
  PROVE  Tracked(x)'
<1>1. \A u \in Threads : ~Carries(u, x)
  BY Shifted DEF Tracked, AtMostOnce
<1>2. \A i \in 1 .. Len(queue) : queue[i] = x => i = 1
  BY Shifted DEF Tracked, AtMostOnce
<1>3. \A i \in 1 .. Len(queue') : queue'[i] # x
  BY <1>2, Shifted
<1>4. AtMostOnce(x)'
  BY <1>1, <1>3 DEF AtMostOnce
<1>5. Somewhere(x) /\ Somewhere(x)'
  BY Shifted DEF Somewhere
<1> QED BY <1>4, <1>5 DEF Tracked, FateTells

(* and the items behind it move up.                                        *)
LEMMA OtherTaken ==
  ASSUME NEW x \in Items, Tracked(x), queue \in Seq(Items), queue # <<>>,
         x # Head(queue), queue' = Tail(queue), done' = done, fate' = fate,
         \A u \in Threads : Carries(u, x)' <=> Carries(u, x)
  PROVE  Tracked(x)'
<1>1. \A i \in 1 .. Len(queue) : queue[i] = x => i # 1
  BY Shifted
<1>2. AtMostOnce(x)'
  <2>1. ASSUME NEW i \in 1 .. Len(queue'), NEW k \in 1 .. Len(queue'),
               queue'[i] = x, queue'[k] = x
        PROVE  i = k
    <3>1. i + 1 = k + 1
      BY <2>1, Shifted DEF Tracked, AtMostOnce
    <3> QED BY <3>1
  <2>2. \A u \in Threads, i \in 1 .. Len(queue') :
          ~(Carries(u, x)' /\ queue'[i] = x)
    BY Shifted DEF Tracked, AtMostOnce
  <2> QED BY <2>1, <2>2 DEF Tracked, AtMostOnce
<1>3. Somewhere(x)' <=> Somewhere(x)
  BY <1>1, Shifted DEF Somewhere
<1> QED BY <1>2, <1>3 DEF Tracked, FateTells

(* A queue of distinct items, one of which a thread still has, has room.   *)
LEMMA RoomForAll ==
  ASSUME FewJobs, queue \in Seq(Items), \A x \in Items : AtMostOnce(x),
         NEW t \in Threads, NEW y \in Items, Carries(t, y)
  PROVE  ~(Len(queue) > MaxSize)
<1> DEFINE S == 1 .. Len(queue)
           T == Items \ {y}
<1>1. Len(queue) \in Nat /\ queue \in [S -> Items]
  BY LenProperties
<1>2. \A i \in S : queue[i] \in T
  BY <1>1 DEF AtMostOnce
<1>3. \A i, k \in S : queue[i] = queue[k] => i = k
  BY <1>1 DEF AtMostOnce
<1>4. queue \in Injection(S, T)
  BY <1>1, <1>2, <1>3 DEF Injection, IsInjective
<1>5. IsFiniteSet(T) /\ Cardinality(T) = Cardinality(Jobs)
  <2>1. /\ IsFiniteSet(Items)
        /\ Cardinality(Items) = Cardinality(Jobs) + 1
    BY FS_AddElement DEF FewJobs, Items
  <2>2. Cardinality(Jobs) \in Nat
    BY FS_CardinalityType DEF FewJobs
  <2>3. /\ IsFiniteSet(Items \ {y})
        /\ Cardinality(Items \ {y}) = Cardinality(Items) - 1
    BY <2>1, FS_RemoveElement, Zenon
  <2> QED BY <2>1, <2>2, <2>3
<1>6. Cardinality(S) <= Cardinality(T)
  BY <1>4, <1>5, FS_Injection
<1>7. Cardinality(S) = Len(queue)
  <2>1. 1 \in Int /\ Len(queue) \in Int
    BY <1>1
  <2>2. Cardinality(1 .. Len(queue)) =
          IF 1 > Len(queue) THEN 0 ELSE Len(queue) - 1 + 1
    BY <2>1, FS_Interval, Zenon
  <2> QED BY <1>1, <2>2
<1> QED
  BY <1>1, <1>5, <1>6, <1>7, FS_CardinalityType, QueueConstants DEF FewJobs
-----------------------------------------------------------------------------
(* What a worker has in its hands fits where it is in its code.            *)
LEMMA HandsFullStep ==
  ASSUME TypeOK, WorkerPlace, HandsFull, \A x \in Items : Tracked(x), [Next]_vars
  PROVE  HandsFull'
<1> USE OwnerNotWorker, QueueConstants
    DEF vars, queueVars, Q!Go, Q!TypeOK, Move, Back, TypeOK, PoolTypeOK,
        HandsFull
<1>1. CASE StartWorker BY <1>1 DEF StartWorker
<1>2. CASE BeginJoin BY <1>2 DEF BeginJoin
<1>3. CASE Join BY <1>3 DEF Join
<1>4. CASE Destroy BY <1>4 DEF Destroy, Q!CallDone
<1>5. ASSUME NEW j \in Items, AddJob(j) PROVE HandsFull'
  BY <1>5 DEF AddJob, Q!CallEnqueue
<1>6. ASSUME NEW w \in Workers, NEW j \in Items, JobAddsJob(w, j)
      PROVE  HandsFull'
  <2>1. \A t \in Threads : ~Carries(t, j)
    BY <1>6 DEF JobAddsJob, Tracked, FateTells, Somewhere
  <2>2. pjob[w] # j
    BY <2>1 DEF Carries
  <2> QED BY <1>6, <2>2 DEF JobAddsJob, Q!CallEnqueue
<1>7. ASSUME NEW w \in Workers, PoolTaskStep(w) PROVE HandsFull'
  <2>1. CASE AskForJob(w) BY <2>1 DEF AskForJob, Q!CallDequeue
  <2>2. CASE LeaveLoop(w) BY <2>2 DEF LeaveLoop
  <2>3. CASE SkipNull(w) BY <2>3 DEF SkipNull
  <2>4. CASE StartJob(w) BY <2>4 DEF StartJob
  <2>5. CASE JobGoesOn(w) BY <2>5 DEF JobGoesOn
  <2>6. CASE Requeued(w) BY <2>6 DEF Requeued
  <2>7. CASE JobFinished(w) BY <2>7 DEF JobFinished
  <2>8. CASE JobError(w) BY <2>8 DEF JobError
  <2>9. CASE JobBlocked(w) BY <2>9 DEF JobBlocked, Q!CallEnqueue
  <2> QED BY <1>7, <2>1, <2>2, <2>3, <2>4, <2>5, <2>6, <2>7, <2>8, <2>9
          DEF PoolTaskStep, RunReturns
<1>8. ASSUME NEW t \in Threads, QueueStep(t) \/ SpuriousWakeup(t)
      PROVE  HandsFull'
  <2> USE DEF QueueStep, SpuriousWakeup
  <2>1. CASE Q!EnqueueBody(t)
    BY <1>8, <2>1 DEF Q!EnqueueBody, WorkerPlace
  <2>2. CASE Q!Take(t)
    BY <1>8, <2>2 DEF Q!Take, WorkerPlace
  <2>3. CASE QuietStep(t)
    BY <1>8, <2>3, QuietMoves DEF Successor
  <2> QED BY <1>8, <2>1, <2>2, <2>3 DEF QuietStep
<1>9. CASE UNCHANGED vars BY <1>9
<1> QED BY <1>1, <1>2, <1>3, <1>4, <1>5, <1>6, <1>7, <1>8, <1>9
        DEF Next, Terminated

(* A step of the queue moves the items as they should.                     *)
LEMMA TrackedQueueStep ==
  ASSUME TypeOK, OwnerPlace, WorkerPlace, HandsFull, FewJobs,
         \A x \in Items : Tracked(x),
         NEW t \in Threads, QueueStep(t) \/ SpuriousWakeup(t), NEW x \in Items
  PROVE  Tracked(x)'
<1> USE OwnerNotWorker, QueueConstants
    DEF Q!Go, Q!TypeOK, TypeOK, PoolTypeOK, QueueStep, SpuriousWakeup
<1>1. CASE QuietStep(t)
  <2>1. \A u \in Threads : Carries(u, x)' <=> Carries(u, x)
    BY <1>1, QuietMoves DEF Carries, Successor, WorkerPlace, HandsFull
  <2> QED BY <1>1, <2>1, QuietMoves, Unmoved
<1>2. CASE Q!EnqueueBody(t)
  <2> USE <1>2 DEF Q!EnqueueBody
  <2>1. \A u \in Threads \ {t} : Carries(u, x)' <=> Carries(u, x)
    BY DEF Carries
  <2>2. item[t] \in Items /\ Carries(t, item[t])
    BY DEF Carries
  <2>3. CASE item[t] = x
    <3>1. Carries(t, x) /\ ~Carries(t, x)'
      BY <2>3 DEF Carries, WorkerPlace, HandsFull
    <3>2. CASE done
      BY <2>1, <3>1, <3>2, Dropped
    <3>3. CASE ~done
      <4>1. queue' = Append(queue, x)
        BY <2>2, <2>3, <3>3, RoomForAll DEF Tracked
      <4> QED BY <2>1, <3>1, <4>1, Stored
    <3> QED BY <3>2, <3>3
  <2>4. CASE item[t] # x
    <3>1. Carries(t, x)' <=> Carries(t, x)
      BY <2>4 DEF Carries, WorkerPlace, HandsFull
    <3>2. CASE done
      BY <2>1, <3>1, <3>2, Unmoved
    <3>3. CASE ~done
      <4>1. queue' = Append(queue, item[t])
        BY <2>2, <3>3, RoomForAll DEF Tracked
      <4> QED BY <2>1, <2>2, <2>4, <3>1, <4>1, OtherStored
    <3> QED BY <3>2, <3>3
  <2> QED BY <2>3, <2>4
<1>3. CASE Q!Take(t)
  <2> USE <1>3 DEF Q!Take
  <2>1. \A u \in Threads \ {t} : Carries(u, x)' <=> Carries(u, x)
    BY DEF Carries
  <2>2. t \in Workers /\ at[t] = "dequeuing"
    BY DEF OwnerPlace, WorkerPlace, Lives, Places
  <2>3. CASE x = Head(queue)
    <3>1. Carries(t, x)'
      BY <2>2, <2>3 DEF Carries
    <3> QED BY <2>1, <2>3, <3>1, Taken
  <2>4. CASE x # Head(queue)
    <3>1. Carries(t, x)' <=> Carries(t, x)
      BY <2>2, <2>4 DEF Carries, HandsFull
    <3> QED BY <2>1, <2>4, <3>1, OtherTaken
  <2> QED BY <2>3, <2>4
<1> QED BY <1>1, <1>2, <1>3 DEF QuietStep

(* So does a step of a worker in its loop ...                              *)
LEMMA TrackedTaskStep ==
  ASSUME TypeOK, WorkerPlace, HandsFull, \A x \in Items : Tracked(x),
         NEW w \in Workers, PoolTaskStep(w), NEW x \in Items
  PROVE  Tracked(x)'
<1> USE OwnerNotWorker, QueueConstants
    DEF queueVars, Q!Go, Q!TypeOK, Move, Back, TypeOK, PoolTypeOK
<1> w \in Threads
  OBVIOUS
<1>1. ASSUME UNCHANGED <<queue, done, fate>>,
             \A t \in Threads : Carries(t, x)' <=> Carries(t, x)
      PROVE  Tracked(x)'
  BY <1>1, Unmoved
<1>2. CASE AskForJob(w)
  <2>1. \A t \in Threads : Carries(t, x)' <=> Carries(t, x)
    BY <1>2 DEF AskForJob, Q!CallDequeue, Carries, WorkerPlace, HandsFull, Items
  <2> QED BY <1>1, <1>2, <2>1 DEF AskForJob, Q!CallDequeue
<1>3. CASE LeaveLoop(w)
  <2>1. \A t \in Threads : Carries(t, x)' <=> Carries(t, x)
    BY <1>3 DEF LeaveLoop, Carries
  <2> QED BY <1>1, <1>3, <2>1 DEF LeaveLoop
<1>4. CASE SkipNull(w)
  <2>1. \A t \in Threads \ {w} : Carries(t, x)' <=> Carries(t, x)
    BY <1>4 DEF SkipNull, Carries
  <2>2. CASE x = NullJob
    <3>1. Carries(w, x) /\ ~Carries(w, x)'
      BY <1>4, <2>2 DEF SkipNull, Carries, HandsFull
    <3> QED BY <1>4, <2>1, <2>2, <3>1, LetGo DEF SkipNull
  <2>3. CASE x # NullJob
    <3>1. Carries(w, x)' <=> Carries(w, x)
      BY <1>4, <2>3 DEF SkipNull, Carries
    <3> QED BY <1>1, <1>4, <2>1, <3>1 DEF SkipNull
  <2> QED BY <2>2, <2>3
<1>5. CASE StartJob(w)
  <2>1. \A t \in Threads : Carries(t, x)' <=> Carries(t, x)
    BY <1>5 DEF StartJob, Carries, HandsFull, Items
  <2>2. CASE x = item[w]
    <3>1. Somewhere(x)
      BY <1>5, <2>2 DEF StartJob, Somewhere, Carries
    <3>2. fate[x] \in {"added", "spawned", "started"}
      BY <3>1 DEF Tracked, FateTells, Fates
    <3>3. fate'[x] = "started"
      BY <1>5, <2>2 DEF StartJob
    <3> QED BY <1>5, <2>1, <3>2, <3>3, Unmoved DEF StartJob
  <2>3. CASE x # item[w]
    <3>1. fate'[x] = fate[x]
      BY <1>5, <2>3 DEF StartJob
    <3> QED BY <1>5, <2>1, <3>1, Unmoved DEF StartJob
  <2> QED BY <2>2, <2>3
<1>6. CASE JobGoesOn(w)
  <2>1. \A t \in Threads : Carries(t, x)' <=> Carries(t, x)
    BY <1>6 DEF JobGoesOn, Carries
  <2> QED BY <1>1, <1>6, <2>1 DEF JobGoesOn
<1>7. CASE Requeued(w)
  <2>1. \A t \in Threads : Carries(t, x)' <=> Carries(t, x)
    BY <1>7 DEF Requeued, Carries
  <2> QED BY <1>1, <1>7, <2>1 DEF Requeued
<1>8. CASE JobFinished(w) \/ JobError(w)
  <2>1. \A t \in Threads \ {w} : Carries(t, x)' <=> Carries(t, x)
    BY <1>8 DEF JobFinished, JobError, Carries
  <2>2. CASE x = pjob[w]
    <3>1. Carries(w, x) /\ ~Carries(w, x)'
      BY <1>8, <2>2 DEF JobFinished, JobError, Carries, WorkerPlace, Items
    <3>2. fate'[x] \in {"finished", "failed"}
      BY <1>8, <2>2 DEF JobFinished, JobError
    <3> QED BY <1>8, <2>1, <3>1, <3>2, LetGo DEF JobFinished, JobError
  <2>3. CASE x # pjob[w]
    <3>1. Carries(w, x)' <=> Carries(w, x)
      BY <1>8, <2>3 DEF JobFinished, JobError, Carries, Items
    <3>2. fate'[x] = fate[x]
      BY <1>8, <2>3 DEF JobFinished, JobError
    <3> QED BY <1>8, <2>1, <3>1, <3>2, Unmoved DEF JobFinished, JobError
  <2> QED BY <2>2, <2>3
<1>9. CASE JobBlocked(w)
  <2>1. \A t \in Threads : Carries(t, x)' <=> Carries(t, x)
    BY <1>9 DEF JobBlocked, Q!CallEnqueue, Carries, Items
  <2> QED BY <1>1, <1>9, <2>1 DEF JobBlocked, Q!CallEnqueue
<1> QED BY <1>2, <1>3, <1>4, <1>5, <1>6, <1>7, <1>8, <1>9
        DEF PoolTaskStep, RunReturns

(* ... and an addJob, by the owner or by a job.                            *)
LEMMA TrackedAdd ==
  ASSUME TypeOK, WorkerPlace, HandsFull, \A x \in Items : Tracked(x),
         NEW j \in Items,
         AddJob(j) \/ \E w \in Workers : JobAddsJob(w, j),
         NEW x \in Items
  PROVE  Tracked(x)'
<1> USE OwnerNotWorker, QueueConstants
    DEF Q!Go, Q!TypeOK, Q!CallEnqueue, Move, TypeOK, PoolTypeOK
<1>1. ASSUME NEW t \in Threads, Q!CallEnqueue(t, j), fate[j] = "new",
             \E f \in {"added", "spawned"} : fate' = [fate EXCEPT ![j] = f],
             pjob' = pjob,
             \A w \in Workers : at'[w] = at[w] \/
               (w = t /\ at[w] = "job" /\ at'[w] = "adding"),
             t \in Workers => at[t] = "job"
      PROVE  Tracked(x)'
  <2>1. \A u \in Threads \ {t} : Carries(u, x)' <=> Carries(u, x)
    BY <1>1 DEF Carries
  <2>2. CASE x = j
    <3>1. Carries(t, x)'
      BY <1>1, <2>2 DEF Carries
    <3>2. fate'[x] \in {"added", "spawned"}
      BY <1>1, <2>2
    <3> QED BY <1>1, <2>1, <2>2, <3>1, <3>2, Given
  <2>3. CASE x # j
    <3>1. Carries(t, x)' <=> Carries(t, x)
      BY <1>1, <2>3 DEF Carries
    <3>2. fate'[x] = fate[x]
      BY <1>1, <2>3
    <3> QED BY <1>1, <2>1, <3>1, <3>2, Unmoved
  <2> QED BY <2>2, <2>3
<1>2. CASE AddJob(j)
  BY <1>1, <1>2 DEF AddJob
<1>3. ASSUME NEW w \in Workers, JobAddsJob(w, j) PROVE Tracked(x)'
  BY <1>1, <1>3 DEF JobAddsJob
<1> QED BY <1>2, <1>3

(* Every step of the pool keeps track of every item.                       *)
LEMMA TrackedStep ==
  ASSUME TypeOK, OwnerPlace, WorkerPlace, HandsFull, FewJobs,
         \A x \in Items : Tracked(x), [Next]_vars, NEW x \in Items
  PROVE  Tracked(x)'
<1> USE OwnerNotWorker, QueueConstants
    DEF vars, queueVars, Q!Go, Q!TypeOK, Move, Back, TypeOK, PoolTypeOK
<1>1. CASE StartWorker \/ BeginJoin \/ Join \/ Destroy \/ UNCHANGED vars
  <2>1. UNCHANGED <<queue, done, fate>>
    BY <1>1 DEF StartWorker, BeginJoin, Join, Destroy, Q!CallDone
  <2>2. \A t \in Threads : Carries(t, x)' <=> Carries(t, x)
    BY <1>1 DEF StartWorker, BeginJoin, Join, Destroy, Q!CallDone, Carries
  <2> QED BY <2>1, <2>2, Unmoved
<1>2. ASSUME NEW j \in Items, AddJob(j) PROVE Tracked(x)'
  BY <1>2, TrackedAdd
<1>3. ASSUME NEW w \in Workers, NEW j \in Items, JobAddsJob(w, j)
      PROVE  Tracked(x)'
  BY <1>3, TrackedAdd
<1>4. ASSUME NEW w \in Workers, PoolTaskStep(w) PROVE Tracked(x)'
  BY <1>4, TrackedTaskStep
<1>5. ASSUME NEW t \in Threads, QueueStep(t) \/ SpuriousWakeup(t)
      PROVE  Tracked(x)'
  BY <1>5, TrackedQueueStep
<1> QED BY <1>1, <1>2, <1>3, <1>4, <1>5 DEF Next, Terminated
-----------------------------------------------------------------------------
(* At any time each item is with one thread or in the queue, or gone.      *)
THEOREM PlaceHolds ==
  ASSUME FewJobs
  PROVE  Spec => []PlaceInv
<1>1. Init => PlaceInv
  <2> SUFFICES ASSUME Init PROVE PlaceInv
    OBVIOUS
  <2>1. \A t \in Threads, x \in Items : ~Carries(t, x)
    BY DEF Init, Q!Init, Carries, Items
  <2>2. \A i \in 1 .. Len(queue) : FALSE
    BY DEF Init, Q!Init
  <2> QED BY <2>1, <2>2
    DEF Init, PlaceInv, HandsFull, AtMostOnce, FateTells, Somewhere
<1>2. IInv /\ PlaceInv /\ [Next]_vars => PlaceInv'
  BY HandsFullStep, TrackedStep DEF IInv, PlaceInv, Tracked
<1> QED BY <1>1, <1>2, PoolSafe, PTL DEF Spec

(* A set of equal elements has one element, or none.                       *)
LEMMA OneOrNone ==
  ASSUME NEW S, \A a, b \in S : a = b
  PROVE  /\ S = {} => Cardinality(S) = 0
         /\ S # {} => Cardinality(S) = 1
<1>1. CASE S = {}
  BY <1>1, FS_EmptySet
<1>2. CASE S # {}
  <2>1. PICK a \in S : TRUE
    BY <1>2
  <2>2. S = {a}
    BY <2>1
  <2> QED BY <2>2, FS_Singleton
<1> QED BY <1>1, <1>2

(* The four places of a job, as sets.                                      *)
LEMMA Places4 ==
  ASSUME TypeOK, WorkerPlace, HandsFull, NEW j \in Jobs, AtMostOnce(j)
  PROVE  Copies(j) = IF Somewhere(j) THEN 1 ELSE 0
<1> DEFINE A == BeingQueued(j)
           B == InQueue(j)
           C == JustTaken(j)
           D == RunBy(j)
<1> USE OwnerNotWorker DEF BeingQueued, InQueue, JustTaken, RunBy
<1>1. /\ \A t \in A : t \in Threads /\ Carries(t, j)
      /\ \A t \in C : t \in Threads /\ Carries(t, j)
      /\ \A t \in D : t \in Threads /\ Carries(t, j)
  BY DEF Carries
<1>2. \A t \in Threads : Carries(t, j) => t \in A \/ t \in C \/ t \in D
  BY DEF Carries
<1>3. /\ \A a, b \in A : a = b
      /\ \A a, b \in B : a = b
      /\ \A a, b \in C : a = b
      /\ \A a, b \in D : a = b
  BY <1>1 DEF AtMostOnce
<1>4. /\ A # {} => B = {} /\ C = {} /\ D = {}
      /\ B # {} => C = {} /\ D = {}
      /\ C # {} => D = {}
  <2>1. \A t \in Threads : ~(t \in A /\ t \in C)
    OBVIOUS
  <2>2. \A t \in Workers : ~(t \in A /\ t \in D)
    BY DEF WorkerPlace, HandsFull, TypeOK, PoolTypeOK, Places
  <2>3. \A t \in Workers : ~(t \in C /\ t \in D)
    BY DEF HandsFull
  <2>4. A = {} \/ B = {}
    BY <1>1 DEF AtMostOnce
  <2>5. (B = {} \/ C = {}) /\ (B = {} \/ D = {})
    BY <1>1 DEF AtMostOnce
  <2>6. (A = {} \/ C = {}) /\ (A = {} \/ D = {}) /\ (C = {} \/ D = {})
    BY <1>1, <2>1, <2>2, <2>3 DEF AtMostOnce
  <2> QED BY <2>4, <2>5, <2>6
<1>5. Somewhere(j) <=> A # {} \/ B # {} \/ C # {} \/ D # {}
  BY <1>1, <1>2 DEF Somewhere
<1> HIDE DEF A, B, C, D
<1>6. /\ Cardinality(A) = IF A = {} THEN 0 ELSE 1
      /\ Cardinality(B) = IF B = {} THEN 0 ELSE 1
      /\ Cardinality(C) = IF C = {} THEN 0 ELSE 1
      /\ Cardinality(D) = IF D = {} THEN 0 ELSE 1
  BY <1>3, OneOrNone
<1>7. Cardinality(A) + Cardinality(B) + Cardinality(C) + Cardinality(D)
        = IF Somewhere(j) THEN 1 ELSE 0
  BY <1>4, <1>5, <1>6
<1> QED BY <1>7 DEF A, B, C, D, Copies

(* No job is run by two workers at once, again after it ended, or lost     *)
(* while the pool lives, for any number of workers.                        *)
THEOREM JobsInOnePlace ==
  ASSUME FewJobs
  PROVE  Spec => []JobInOnePlace
<1>1. IInv /\ PlaceInv => JobInOnePlace
  <2> SUFFICES ASSUME IInv, PlaceInv, NEW j \in Jobs
               PROVE  /\ fate[j] \in {"new", "finished", "failed"} => Copies(j) = 0
                      /\ fate[j] \in {"added", "spawned", "started"} =>
                           Copies(j) = 1 \/ (Copies(j) = 0 /\ done)
    BY DEF JobInOnePlace
  <2>1. j \in Items /\ AtMostOnce(j) /\ FateTells(j)
    BY DEF PlaceInv, Items
  <2>2. Copies(j) = IF Somewhere(j) THEN 1 ELSE 0
    BY <2>1, Places4 DEF IInv, PlaceInv
  <2> QED BY <2>1, <2>2 DEF FateTells
<1> QED BY <1>1, PoolSafe, PlaceHolds, PTL
=============================================================================
