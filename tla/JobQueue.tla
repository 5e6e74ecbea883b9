------------------------------ MODULE JobQueue ------------------------------
(***************************************************************************)
(* threads/hdr/Queue.h: the blocking queue that ThreadPool hands jobs      *)
(* through.  One mutex (cv_mutex_) protects done_ and queue_; one condition*)
(* variable (cv_) is where dequeue() sleeps.  Every operation unlocks      *)
(* first and signals afterwards, so other threads run between the two.     *)
(*                                                                         *)
(* A thread is at one place in the code, pc[t]:                            *)
(*   idle                             not in a method of the queue         *)
(*   enqLock  enqIn                   enqueue, before and inside the lock  *)
(*   deqLock  deqTest deqDone deqWait dequeue: before the lock, at the     *)
(*                                    while test, at the done_ test, at    *)
(*                                    pthread_cond_wait                    *)
(*   waiting  wake                    asleep on cv_; woken, wants the lock *)
(*   doneLock doneIn                  done, before and inside the lock     *)
(*   signal   broadcast               unlocked, before the call on cv_     *)
(* What a thread does while it holds the mutex and that no other thread    *)
(* can observe before the unlock is one step together with the unlock.     *)
(***************************************************************************)
EXTENDS Naturals, Sequences

CONSTANTS
  Threads,   \* the threads that share the queue
  Items,     \* what can be queued (UseCntPtr<Job> in the thread pool)
  MaxSize,   \* maxsize_
  NoItem,    \* the event variable of a caller that holds no item
  NoThread   \* the mutex is free

(* Line 32 asserts maxsize_ >= 1.                                          *)
ASSUME MaxSizeAssumption == MaxSize \in Nat /\ MaxSize >= 1
ASSUME NoItemAssumption == NoItem \notin Items
ASSUME NoThreadAssumption == NoThread \notin Threads

VARIABLES
  queue,     \* queue_
  done,      \* done_
  owner,     \* the holder of cv_mutex_
  pc,        \* where each thread is, see above
  item       \* each thread's event: argument of enqueue, result of dequeue

vars == <<queue, done, owner, pc, item>>

Labels == {"idle", "enqLock", "enqIn", "deqLock", "deqTest", "deqDone",
           "deqWait", "waiting", "wake", "doneLock", "doneIn", "signal",
           "broadcast"}

(* The places where a thread holds cv_mutex_.                              *)
Critical == {"enqIn", "deqTest", "deqDone", "deqWait", "doneIn"}

Waiting == {t \in Threads : pc[t] = "waiting"}

Init ==
  /\ queue = <<>>
  /\ done = FALSE
  /\ owner = NoThread
  /\ pc = [t \in Threads |-> "idle"]
  /\ item = [t \in Threads |-> NoItem]

Go(t, from, to) ==
  /\ pc[t] = from
  /\ pc' = [pc EXCEPT ![t] = to]

Lock(t) ==
  /\ owner = NoThread
  /\ owner' = t

Unlock(t) ==
  /\ owner = t
  /\ owner' = NoThread
-----------------------------------------------------------------------------
(* The three methods are called.                                           *)
CallEnqueue(t, x) ==
  /\ Go(t, "idle", "enqLock")
  /\ item' = [item EXCEPT ![t] = x]
  /\ UNCHANGED <<queue, done, owner>>

CallDequeue(t) ==
  /\ Go(t, "idle", "deqLock")
  /\ item' = [item EXCEPT ![t] = NoItem]
  /\ UNCHANGED <<queue, done, owner>>

CallDone(t) ==
  /\ Go(t, "idle", "doneLock")
  /\ UNCHANGED <<queue, done, owner, item>>
-----------------------------------------------------------------------------
(* pthread_mutex_lock, in enqueue, in dequeue and, after a wake-up, inside *)
(* pthread_cond_wait, which returns to the test of the while loop.         *)
AcquireForEnqueue(t) ==
  /\ Go(t, "enqLock", "enqIn")
  /\ Lock(t)
  /\ UNCHANGED <<queue, done, item>>

AcquireForDequeue(t) ==
  /\ Go(t, "deqLock", "deqTest") \/ Go(t, "wake", "deqTest")
  /\ Lock(t)
  /\ UNCHANGED <<queue, done, item>>

(* Mutant: done() sets the flag without holding the mutex.                 *)
AcquireForDone_NoLock(t) ==
  /\ Go(t, "doneLock", "broadcast")
  /\ done' = TRUE
  /\ UNCHANGED <<queue, owner, item>>

AcquireForDone(t) ==
  /\ Go(t, "doneLock", "doneIn")
  /\ Lock(t)
  /\ UNCHANGED <<queue, done, item>>

(* Mutant: the argument is cleared before it is stored.                    *)
EnqueueBody_ClearFirst(t) ==
  /\ Go(t, "enqIn", "signal")
  /\ item' = [item EXCEPT ![t] = NoItem]
  /\ queue' = IF done \/ Len(queue) > MaxSize
              THEN queue ELSE Append(queue, item'[t])
  /\ Unlock(t)
  /\ UNCHANGED done

(* Mutant: nobody is told of the new item.                                 *)
EnqueueBody_NoSignal(t) ==
  /\ Go(t, "enqIn", "idle")
  /\ queue' = IF done \/ Len(queue) > MaxSize
              THEN queue ELSE Append(queue, item[t])
  /\ Unlock(t)
  /\ item' = [item EXCEPT ![t] = NoItem]
  /\ UNCHANGED done

(* The rest of enqueue up to the unlock: the item is dropped when the      *)
(* queue is done, and when it holds more than maxsize_ items (the test is  *)
(* queue_.size() <= maxsize_, so maxsize_ + 1 items fit).  The argument is *)
(* of no use any more.                                                     *)
EnqueueBody(t) ==
  /\ Go(t, "enqIn", "signal")
  /\ queue' = IF done \/ Len(queue) > MaxSize
              THEN queue ELSE Append(queue, item[t])
  /\ Unlock(t)
  /\ item' = [item EXCEPT ![t] = NoItem]
  /\ UNCHANGED done

(* Mutant: the newest item is handed out first.                            *)
Take_Newest(t) ==
  /\ Go(t, "deqTest", "signal")
  /\ queue # <<>>
  /\ item' = [item EXCEPT ![t] = queue[Len(queue)]]
  /\ queue' = SubSeq(queue, 1, Len(queue) - 1)
  /\ Unlock(t)
  /\ UNCHANGED done

(* dequeue finds an item, takes it and unlocks.                            *)
Take(t) ==
  /\ Go(t, "deqTest", "signal")
  /\ queue # <<>>
  /\ item' = [item EXCEPT ![t] = Head(queue)]
  /\ queue' = Tail(queue)
  /\ Unlock(t)
  /\ UNCHANGED done

(* Mutant: done_ is tested before the queue is known to be empty.          *)
FindEmpty_TestDoneFirst(t) ==
  /\ Go(t, "deqTest", "deqDone")
  /\ queue = <<>> \/ done
  /\ UNCHANGED <<queue, done, owner, item>>

(* dequeue finds the queue empty and enters the body of its loop ...       *)
FindEmpty(t) ==
  /\ Go(t, "deqTest", "deqDone")
  /\ queue = <<>>
  /\ UNCHANGED <<queue, done, owner, item>>

(* ... where it returns false if the queue is done ...                     *)
GiveUp(t) ==
  /\ Go(t, "deqDone", "signal")
  /\ done
  /\ Unlock(t)
  /\ UNCHANGED <<queue, done, item>>

(* ... and otherwise goes to pthread_cond_wait,                            *)
DecideToWait(t) ==
  /\ Go(t, "deqDone", "deqWait")
  /\ ~done
  /\ UNCHANGED <<queue, done, owner, item>>

(* Mutant: the mutex stays locked while the thread sleeps.                 *)
CondWait_KeepLock(t) ==
  /\ Go(t, "deqWait", "waiting")
  /\ UNCHANGED <<queue, done, owner, item>>

(* which releases the mutex and falls asleep in one step.                  *)
CondWait(t) ==
  /\ Go(t, "deqWait", "waiting")
  /\ Unlock(t)
  /\ UNCHANGED <<queue, done, item>>

(* pthread_cond_wait may return without a signal.                          *)
SpuriousWakeup(t) ==
  /\ Go(t, "waiting", "wake")
  /\ UNCHANGED <<queue, done, owner, item>>

DoneBody(t) ==
  /\ Go(t, "doneIn", "broadcast")
  /\ done' = TRUE
  /\ Unlock(t)
  /\ UNCHANGED <<queue, item>>
-----------------------------------------------------------------------------
(* pthread_cond_signal: some sleeping thread, if there is one, is woken;   *)
(* the method returns to its caller.                                       *)
Signal(t) ==
  /\ pc[t] = "signal"
  /\ IF Waiting = {}
     THEN pc' = [pc EXCEPT ![t] = "idle"]
     ELSE \E w \in Waiting :
            pc' = [pc EXCEPT ![t] = "idle", ![w] = "wake"]
  /\ UNCHANGED <<queue, done, owner, item>>

(* Mutant: done() wakes one sleeper instead of all of them.                *)
Broadcast_WakeOne(t) ==
  /\ pc[t] = "broadcast"
  /\ IF Waiting = {}
     THEN pc' = [pc EXCEPT ![t] = "idle"]
     ELSE \E w \in Waiting :
            pc' = [pc EXCEPT ![t] = "idle", ![w] = "wake"]
  /\ UNCHANGED <<queue, done, owner, item>>

(* pthread_cond_broadcast: every sleeping thread is woken.                 *)
Broadcast(t) ==
  /\ pc[t] = "broadcast"
  /\ pc' = [u \in Threads |->
              IF u = t THEN "idle"
              ELSE IF u \in Waiting THEN "wake" ELSE pc[u]]
  /\ UNCHANGED <<queue, done, owner, item>>
-----------------------------------------------------------------------------
(* A thread that is inside a method does its next step.                    *)
Step(t) ==
  \/ AcquireForEnqueue(t)
  \/ AcquireForDequeue(t)
  \/ AcquireForDone(t)
  \/ EnqueueBody(t)
  \/ Take(t)
  \/ FindEmpty(t)
  \/ GiveUp(t)
  \/ DecideToWait(t)
  \/ CondWait(t)
  \/ DoneBody(t)
  \/ Signal(t)
  \/ Broadcast(t)

(* The most general client: any thread calls any method at any time.       *)
Call(t) ==
  \/ \E x \in Items : CallEnqueue(t, x)
  \/ CallDequeue(t)
  \/ CallDone(t)

Next == \E t \in Threads : Call(t) \/ Step(t) \/ SpuriousWakeup(t)

Spec == Init /\ [][Next]_vars
-----------------------------------------------------------------------------
(* The types; a thread that is about to store an item has one.            *)
TypeOK ==
  /\ queue \in Seq(Items)
  /\ done \in BOOLEAN
  /\ owner \in Threads \cup {NoThread}
  /\ pc \in [Threads -> Labels]
  /\ item \in [Threads -> Items \cup {NoItem}]
  /\ \A t \in Threads : pc[t] \in {"enqLock", "enqIn"} => item[t] \in Items

(* The mutex is held by exactly the thread that is between its lock and    *)
(* its unlock, on every path: the early returns of enqueue and dequeue     *)
(* unlock too, and pthread_cond_wait gives the mutex up.                   *)
LockHeld == \A t \in Threads : pc[t] \in Critical <=> owner = t

(* What dequeue found out under the mutex is still true when it acts on    *)
(* it: it reports the end, or falls asleep, only if the queue is empty,    *)
(* and falls asleep only if the queue is not done.                         *)
FreshTests ==
  \A t \in Threads :
    /\ pc[t] \in {"deqDone", "deqWait"} => queue = <<>>
    /\ pc[t] = "deqWait" => ~done

(* No thread sleeps over an item: while the queue holds an item and a      *)
(* thread sleeps in dequeue, another one is on its way to signal or to     *)
(* test the queue again.                                                   *)
NoSleepOverItem ==
  queue # <<>> /\ Waiting # {} =>
    \E t \in Threads : pc[t] \in {"signal", "wake", "deqTest"}

(* No thread sleeps through done(): while the queue is done and a thread   *)
(* sleeps in dequeue, the broadcast that wakes all sleepers is still to    *)
(* come.                                                                   *)
NoSleepThroughDone ==
  done /\ Waiting # {} => \E t \in Threads : pc[t] = "broadcast"

(* The queue never holds more than one item over maxsize_, however many    *)
(* threads enqueue at once.                                                *)
Capacity == Len(queue) <= MaxSize + 1

(* The conjunction that is inductive.                                      *)
IInv ==
  /\ TypeOK
  /\ LockHeld
  /\ FreshTests
  /\ NoSleepOverItem
  /\ NoSleepThroughDone
  /\ Capacity
-----------------------------------------------------------------------------
(* Refinement: which call of ClosableQueue a thread is in.                 *)
CallOf(l) ==
  CASE l = "idle" -> "none"
    [] l \in {"enqLock", "enqIn"} -> "enqueue"
    [] l \in {"deqLock", "deqTest", "deqDone", "deqWait", "waiting", "wake"}
         -> "dequeue"
    [] l \in {"doneLock", "doneIn"} -> "done"
    [] OTHER -> "returning"

call == [t \in Threads |-> CallOf(pc[t])]

Abstract == INSTANCE ClosableQueue
              WITH queue <- queue, done <- done, call <- call, item <- item

(* The queue is linearizable: with locks, sleeps, signals and spurious     *)
(* wake-ups hidden, every call of Queue.h takes effect in one step of the  *)
(* closable FIFO.                                                          *)
Linearizable == Abstract!Spec
=============================================================================
