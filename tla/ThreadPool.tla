----------------------------- MODULE ThreadPool -----------------------------
(***************************************************************************)
(* threads/hdr/ThreadPool.h on top of threads/hdr/Queue.h: an owner thread *)
(* constructs the pool, adds jobs and destroys the pool; HowMany worker    *)
(* threads run PoolTask::run, which takes jobs from the queue, runs them,  *)
(* and queues them again when they return Job::Blocked.  A job may add     *)
(* further jobs to the pool while it runs.                                 *)
(***************************************************************************)
EXTENDS Naturals, Sequences, FiniteSets

CONSTANTS
  HowMany,    \* howmany_, the number of workers
  Jobs,       \* the jobs; each Job object is added to the pool at most once
  NullJob,    \* a null Job pointer, which addJob accepts
  NoItem, NoThread,
  MaxBlocks   \* bound: how often one job returns Job::Blocked

ASSUME HowManyAssumption == HowMany \in Nat /\ HowMany # 0
ASSUME JobAssumption == NullJob \notin Jobs /\ NoItem \notin Jobs \cup {NullJob}
ASSUME ThreadAssumption == NoThread \notin 0 .. HowMany
ASSUME BlocksAssumption == MaxBlocks \in Nat

Owner == 0
Workers == 1 .. HowMany
Threads == 0 .. HowMany
Items == Jobs \cup {NullJob}

(* The queue has the default maxsize_ of Queue(), the largest int.         *)
MaxSize == 2147483647

VARIABLES
  queue, done, owner, pc, item,   \* the job queue, see JobQueue
  life,     \* the pool: constructor, in use, destructor
  next,     \* the worker that the constructor or destructor is about
  at,       \* per worker: where it is in PoolTask::run
  pjob,     \* per worker: the job it runs
  fate,     \* history, per job: what has become of it
  blocks    \* history, per job: how often it has returned Blocked

queueVars == <<queue, done, owner, pc, item>>
vars == <<queueVars, life, next, at, pjob, fate, blocks>>

Q == INSTANCE JobQueue
       WITH queue <- queue, done <- done, owner <- owner, pc <- pc, item <- item

Lives == {"constructing", "usable", "closing", "joining", "destroyed"}
Places == {"unborn", "loop", "dequeuing", "job", "adding", "requeuing",
           "exited"}
Fates == {"new", "added", "spawned", "started", "finished", "failed"}

Init ==
  /\ Q!Init
  /\ life = "constructing"
  /\ next = 1
  /\ at = [w \in Workers |-> "unborn"]
  /\ pjob = [w \in Workers |-> NoItem]
  /\ fate = [j \in Items |-> "new"]
  /\ blocks = [j \in Jobs |-> 0]

Move(w, from, to) ==
  /\ at[w] = from
  /\ at' = [at EXCEPT ![w] = to]

(* The thread has returned from the method of the queue it called last.    *)
Back(t) == pc[t] = "idle"
-----------------------------------------------------------------------------
(* Mutant: the constructor's loop counter runs past the last worker.       *)
StartWorker_PastTheLast ==
  /\ life = "constructing"
  /\ Move(next, "unborn", "loop")
  /\ next' = next + 1
  /\ life' = IF next = HowMany THEN "usable" ELSE life
  /\ UNCHANGED <<queueVars, pjob, fate, blocks>>

(* The constructor starts the workers one by one; those that exist already *)
(* run meanwhile.                                                          *)
StartWorker ==
  /\ life = "constructing"
  /\ Move(next, "unborn", "loop")
  /\ next' = IF next = HowMany THEN next ELSE next + 1
  /\ life' = IF next = HowMany THEN "usable" ELSE life
  /\ UNCHANGED <<queueVars, pjob, fate, blocks>>

(* addJob by the owner of the pool.                                        *)
AddJob(j) ==
  /\ life = "usable"
  /\ fate[j] = "new"
  /\ fate' = [fate EXCEPT ![j] = "added"]
  /\ Q!CallEnqueue(Owner, j)
  /\ UNCHANGED <<life, next, at, pjob, blocks>>

(* Mutant: the destructor does not close the queue.                        *)
Destroy_NoDone ==
  /\ life = "usable"
  /\ Back(Owner)
  /\ life' = "closing"
  /\ UNCHANGED <<queueVars, next, at, pjob, fate, blocks>>

(* The destructor: done() on the queue, ...                                *)
Destroy ==
  /\ life = "usable"
  /\ life' = "closing"
  /\ Q!CallDone(Owner)
  /\ UNCHANGED <<next, at, pjob, fate, blocks>>

(* ... then a join of each worker in turn.                                 *)
BeginJoin ==
  /\ life = "closing"
  /\ Back(Owner)
  /\ life' = "joining"
  /\ next' = 1
  /\ UNCHANGED <<queueVars, at, pjob, fate, blocks>>

(* Mutant: the destructor joins all workers but the last.                  *)
Join_NotTheLast ==
  /\ life = "joining"
  /\ at[next] = "exited" \/ next = HowMany
  /\ next' = IF next = HowMany THEN next ELSE next + 1
  /\ life' = IF next = HowMany THEN "destroyed" ELSE life
  /\ UNCHANGED <<queueVars, at, pjob, fate, blocks>>

(* pthread_join returns once the worker has exited; after the last one the *)
(* members of the pool, the queue among them, are destroyed.               *)
Join ==
  /\ life = "joining"
  /\ at[next] = "exited"
  /\ next' = IF next = HowMany THEN next ELSE next + 1
  /\ life' = IF next = HowMany THEN "destroyed" ELSE life
  /\ UNCHANGED <<queueVars, at, pjob, fate, blocks>>
-----------------------------------------------------------------------------
(* PoolTask::run.  while (jobqueue_.dequeue(pjob)) ...                     *)
AskForJob(w) ==
  /\ Move(w, "loop", "dequeuing")
  /\ Q!CallDequeue(w)
  /\ UNCHANGED <<life, next, pjob, fate, blocks>>

(* ... dequeue returned false: run, and the thread with it, ends ...       *)
LeaveLoop(w) ==
  /\ Back(w)
  /\ item[w] = NoItem
  /\ Move(w, "dequeuing", "exited")
  /\ UNCHANGED <<queueVars, life, next, pjob, fate, blocks>>

(* ... a null pointer is skipped ...                                       *)
SkipNull(w) ==
  /\ Back(w)
  /\ item[w] = NullJob
  /\ Move(w, "dequeuing", "loop")
  /\ UNCHANGED <<queueVars, life, next, pjob, fate, blocks>>

(* ... any other job is run.                                               *)
StartJob(w) ==
  /\ Back(w)
  /\ item[w] \in Jobs
  /\ Move(w, "dequeuing", "job")
  /\ pjob' = [pjob EXCEPT ![w] = item[w]]
  /\ fate' = [fate EXCEPT ![item[w]] = "started"]
  /\ UNCHANGED <<queueVars, life, next, blocks>>

(* The job that w runs calls addJob itself, and goes on when it is back.   *)
JobAddsJob(w, j) ==
  /\ Move(w, "job", "adding")
  /\ fate[j] = "new"
  /\ fate' = [fate EXCEPT ![j] = "spawned"]
  /\ Q!CallEnqueue(w, j)
  /\ UNCHANGED <<life, next, pjob, blocks>>

JobGoesOn(w) ==
  /\ Back(w)
  /\ Move(w, "adding", "job")
  /\ UNCHANGED <<queueVars, life, next, pjob, fate, blocks>>

JobFinished(w) ==
  /\ Move(w, "job", "loop")
  /\ fate' = [fate EXCEPT ![pjob[w]] = "finished"]
  /\ pjob' = [pjob EXCEPT ![w] = NoItem]
  /\ UNCHANGED <<queueVars, life, next, blocks>>

JobError(w) ==
  /\ Move(w, "job", "loop")
  /\ fate' = [fate EXCEPT ![pjob[w]] = "failed"]
  /\ pjob' = [pjob EXCEPT ![w] = NoItem]
  /\ UNCHANGED <<queueVars, life, next, blocks>>

(* Mutant: a finished job falls through into the case of a blocked one.    *)
JobFinished_FallThrough(w) ==
  /\ Move(w, "job", "requeuing")
  /\ fate' = [fate EXCEPT ![pjob[w]] = "finished"]
  /\ pjob' = [pjob EXCEPT ![w] = NoItem]
  /\ Q!CallEnqueue(w, pjob[w])
  /\ UNCHANGED <<life, next, blocks>>

(* Mutant: a blocked job is treated like a failed one.                     *)
JobBlocked_NotRequeued(w) ==
  /\ Move(w, "job", "loop")
  /\ blocks[pjob[w]] < MaxBlocks
  /\ blocks' = [blocks EXCEPT ![pjob[w]] = @ + 1]
  /\ pjob' = [pjob EXCEPT ![w] = NoItem]
  /\ UNCHANGED <<queueVars, life, next, fate>>

(* Mutant: the job is queued again while its run still goes on.            *)
JobBlocked_StillRunning(w) ==
  /\ Move(w, "job", "adding")
  /\ blocks[pjob[w]] < MaxBlocks
  /\ blocks' = [blocks EXCEPT ![pjob[w]] = @ + 1]
  /\ Q!CallEnqueue(w, pjob[w])
  /\ UNCHANGED <<life, next, pjob, fate>>

(* A job that returned Blocked is queued again.                            *)
JobBlocked(w) ==
  /\ Move(w, "job", "requeuing")
  /\ blocks[pjob[w]] < MaxBlocks
  /\ blocks' = [blocks EXCEPT ![pjob[w]] = @ + 1]
  /\ pjob' = [pjob EXCEPT ![w] = NoItem]
  /\ Q!CallEnqueue(w, pjob[w])
  /\ UNCHANGED <<life, next, fate>>

Requeued(w) ==
  /\ Back(w)
  /\ Move(w, "requeuing", "loop")
  /\ UNCHANGED <<queueVars, life, next, pjob, fate, blocks>>
-----------------------------------------------------------------------------
RunReturns(w) == JobFinished(w) \/ JobError(w) \/ JobBlocked(w)

PoolTaskStep(w) ==
  \/ AskForJob(w) \/ LeaveLoop(w) \/ SkipNull(w) \/ StartJob(w)
  \/ JobGoesOn(w) \/ Requeued(w) \/ RunReturns(w)

QueueStep(t) == Q!Step(t) /\ UNCHANGED <<life, next, at, pjob, fate, blocks>>

SpuriousWakeup(t) ==
  Q!SpuriousWakeup(t) /\ UNCHANGED <<life, next, at, pjob, fate, blocks>>

(* The owner's program is over when the pool is gone.                      *)
Terminated == life = "destroyed" /\ UNCHANGED vars

Next ==
  \/ StartWorker \/ Destroy \/ BeginJoin \/ Join
  \/ \E j \in Items : AddJob(j)
  \/ \E w \in Workers : PoolTaskStep(w) \/ \E j \in Items : JobAddsJob(w, j)
  \/ \E t \in Threads : QueueStep(t) \/ SpuriousWakeup(t)
  \/ Terminated

Spec == Init /\ [][Next]_vars

(* Every thread is scheduled, and Job::run returns.  Nobody has to add a   *)
(* job, to destroy the pool, or to wake up spuriously.                     *)
Fairness ==
  /\ WF_vars(StartWorker) /\ WF_vars(BeginJoin) /\ WF_vars(Join)
  /\ \A w \in Workers : WF_vars(PoolTaskStep(w))
  /\ \A t \in Threads : WF_vars(QueueStep(t))

FairSpec == Spec /\ Fairness
-----------------------------------------------------------------------------
(* The types; a worker that runs a job has one.                            *)
PoolTypeOK ==
  /\ life \in Lives
  /\ next \in Workers
  /\ at \in [Workers -> Places]
  /\ pjob \in [Workers -> Jobs \cup {NoItem}]
  /\ \A w \in Workers : at[w] \in {"job", "adding"} => pjob[w] \in Jobs
  /\ fate \in [Items -> Fates]
  /\ blocks \in [Jobs -> 0 .. MaxBlocks]

TypeOK == Q!TypeOK /\ PoolTypeOK

(* The places where a job can be.                                          *)
BeingQueued(j) == {t \in Threads : pc[t] \in {"enqLock", "enqIn"} /\ item[t] = j}
InQueue(j) == {i \in 1 .. Len(queue) : queue[i] = j}
JustTaken(j) == {w \in Workers : /\ at[w] = "dequeuing"
                                 /\ pc[w] \in {"signal", "idle"}
                                 /\ item[w] = j}
RunBy(j) == {w \in Workers : pjob[w] = j}

Copies(j) == Cardinality(BeingQueued(j)) + Cardinality(InQueue(j))
              + Cardinality(JustTaken(j)) + Cardinality(RunBy(j))

(* A job that has not ended is in one place, so no job is run by two       *)
(* workers at once and none is run again after it ended; a job can only    *)
(* vanish (enqueue drops it) when the pool is being destroyed.             *)
JobInOnePlace ==
  \A j \in Jobs :
    /\ fate[j] \in {"new", "finished", "failed"} => Copies(j) = 0
    /\ fate[j] \in {"added", "spawned", "started"} =>
         Copies(j) = 1 \/ (Copies(j) = 0 /\ done)

(* When the destructor has returned no thread is inside a method of the    *)
(* queue, which no longer exists, and the mutex was free when destroyed.   *)
DestroyedIsUnused ==
  life = "destroyed" =>
    /\ \A t \in Threads : pc[t] = "idle"
    /\ \A w \in Workers : at[w] = "exited"
    /\ owner = NoThread

(* No worker leaves before the queue is closed and empty, also when others *)
(* are about to queue a blocked job again: that job is dropped.            *)
WorkersLeaveDrained ==
  \A w \in Workers : at[w] = "exited" => done /\ queue = <<>>

-----------------------------------------------------------------------------
(* The inductive invariant behind DestroyedIsUnused and                    *)
(* WorkersLeaveDrained: which methods of the queue a thread can be in at   *)
(* each place of its own code, ...                                         *)
OwnerPlace ==
  /\ life \in {"constructing", "joining", "destroyed"} => pc[Owner] = "idle"
  /\ life = "usable" => pc[Owner] \in {"idle", "enqLock", "enqIn", "signal"}
  /\ life = "closing" =>
       pc[Owner] \in {"idle", "doneLock", "doneIn", "broadcast"}

WorkerPlace ==
  \A w \in Workers :
    /\ at[w] \in {"unborn", "loop", "job", "exited"} => pc[w] = "idle"
    /\ at[w] = "dequeuing" =>
         pc[w] \in {"idle", "deqLock", "deqTest", "deqDone", "deqWait",
                    "waiting", "wake", "signal"}
    /\ at[w] \in {"adding", "requeuing"} =>
         pc[w] \in {"idle", "enqLock", "enqIn", "signal"}

(* ... that a dequeue that came back empty means a closed, empty queue, ...*)
EmptyHanded ==
  \A w \in Workers :
    at[w] = "dequeuing" /\ pc[w] \in {"signal", "idle"} /\ item[w] = NoItem
      => done /\ queue = <<>>

(* ... and that the workers are joined in their order.                     *)
JoinedSoFar ==
  /\ life = "joining" => \A w \in 1 .. next - 1 : at[w] = "exited"
  /\ life = "destroyed" => \A w \in Workers : at[w] = "exited"

IInv ==
  /\ TypeOK
  /\ OwnerPlace
  /\ WorkerPlace
  /\ EmptyHanded
  /\ WorkersLeaveDrained
  /\ JoinedSoFar

(* The inductive invariant behind JobInOnePlace, without counting: the     *)
(* item that a thread has in its hands, outside the queue, ...             *)
Carries(t, x) ==
  \/ pc[t] \in {"enqLock", "enqIn"} /\ item[t] = x
  \/ t \in Workers /\ at[t] = "dequeuing" /\ pc[t] \in {"signal", "idle"}
       /\ item[t] = x
  \/ t \in Workers /\ pjob[t] = x

Somewhere(x) ==
  \/ \E t \in Threads : Carries(t, x)
  \/ \E i \in 1 .. Len(queue) : queue[i] = x

(* ... no item is twice among the threads and the queue, ...               *)
AtMostOnce(x) ==
  /\ \A t, u \in Threads : Carries(t, x) /\ Carries(u, x) => t = u
  /\ \A i, k \in 1 .. Len(queue) : queue[i] = x /\ queue[k] = x => i = k
  /\ \A t \in Threads, i \in 1 .. Len(queue) : ~(Carries(t, x) /\ queue[i] = x)

(* ... its fate tells whether it is there at all, ...                      *)
FateTells(x) ==
  /\ fate[x] \in {"new", "finished", "failed"} => ~Somewhere(x)
  /\ x \in Jobs /\ fate[x] \in {"added", "spawned", "started"} =>
       Somewhere(x) \/ done

(* ... a worker has no item while it waits for one, and does not queue the *)
(* job that it runs.                                                       *)
HandsFull ==
  \A w \in Workers :
    /\ at[w] \notin {"job", "adding"} => pjob[w] = NoItem
    /\ at[w] = "dequeuing" /\ pc[w] \notin {"signal", "idle"} =>
         item[w] = NoItem
    /\ at[w] = "adding" /\ pc[w] \in {"enqLock", "enqIn"} =>
         item[w] # pjob[w]

PlaceInv == HandsFull /\ \A x \in Items : AtMostOnce(x) /\ FateTells(x)
-----------------------------------------------------------------------------
(* No endless storm of spurious wake-ups.                                  *)
FewSpuriousWakeups == <>[][\A t \in Threads : ~Q!SpuriousWakeup(t)]_vars

(* The destructor returns: no worker sleeps through done(), none waits     *)
(* for another, and each comes to its end.                                 *)
DestructorReturns ==
  FewSpuriousWakeups => (life = "closing" ~> life = "destroyed")

(* Every job that the owner added is run eventually.                       *)
AddedJobsRun ==
  FewSpuriousWakeups => \A j \in Jobs : fate[j] = "added" ~> fate[j] # "added"

(* A job that is run ends, however often it blocks, unless the pool is     *)
(* destroyed in between.                                                   *)
StartedJobsEnd ==
  FewSpuriousWakeups =>
    \A j \in Jobs : fate[j] = "started" ~> fate[j] # "started" \/ done
=============================================================================
