--------------------------- MODULE ClosableQueue ---------------------------
(***************************************************************************)
(* What threads/hdr/Queue.h promises its callers, without mutex, condition *)
(* variable or wake-ups: a FIFO that can be closed with done().  A call    *)
(* starts, takes effect in ONE indivisible step at some moment before it   *)
(* returns, and returns.  JobQueue is shown to implement this module, so   *)
(* the mutex and the waiting loop make the queue linearizable.             *)
(***************************************************************************)
EXTENDS Naturals, Sequences

CONSTANTS
  Threads,   \* the threads that share the queue
  Items,     \* what can be queued
  MaxSize,   \* maxsize_
  NoItem     \* the event variable of a caller that holds no item

VARIABLES
  queue,     \* the items, oldest first
  done,      \* done() took effect
  call,      \* per thread: the call in progress and whether it took effect
  item       \* per thread: the argument of enqueue, the result of dequeue

vars == <<queue, done, call, item>>

Calls == {"none", "enqueue", "dequeue", "done", "returning"}

Init ==
  /\ queue = <<>>
  /\ done = FALSE
  /\ call = [t \in Threads |-> "none"]
  /\ item = [t \in Threads |-> NoItem]

Progress(t, from, to) ==
  /\ call[t] = from
  /\ call' = [call EXCEPT ![t] = to]

(* A thread calls enqueue(x), dequeue(event) or done().                    *)
Start(t) ==
  /\ \/ /\ Progress(t, "none", "enqueue")
        /\ \E x \in Items : item' = [item EXCEPT ![t] = x]
     \/ /\ Progress(t, "none", "dequeue")
        /\ item' = [item EXCEPT ![t] = NoItem]
     \/ /\ Progress(t, "none", "done")
        /\ UNCHANGED item
  /\ UNCHANGED <<queue, done>>

(* enqueue: the item goes to the end; it is dropped without notice once    *)
(* the queue is closed, and when it already holds more than MaxSize items. *)
Enqueue(t) ==
  /\ Progress(t, "enqueue", "returning")
  /\ queue' = IF done \/ Len(queue) > MaxSize
              THEN queue ELSE Append(queue, item[t])
  /\ item' = [item EXCEPT ![t] = NoItem]
  /\ UNCHANGED done

(* dequeue: takes the oldest item, or reports the end of a closed queue    *)
(* that has been drained.  It has no effect while there is neither.        *)
Dequeue(t) ==
  /\ Progress(t, "dequeue", "returning")
  /\ \/ /\ queue # <<>>
        /\ item' = [item EXCEPT ![t] = Head(queue)]
        /\ queue' = Tail(queue)
     \/ /\ queue = <<>>
        /\ done
        /\ UNCHANGED <<queue, item>>
  /\ UNCHANGED done

Done(t) ==
  /\ Progress(t, "done", "returning")
  /\ done' = TRUE
  /\ UNCHANGED <<queue, item>>

Return(t) ==
  /\ Progress(t, "returning", "none")
  /\ UNCHANGED <<queue, done, item>>

Next ==
  \E t \in Threads :
    Start(t) \/ Enqueue(t) \/ Dequeue(t) \/ Done(t) \/ Return(t)

Spec == Init /\ [][Next]_vars
=============================================================================
