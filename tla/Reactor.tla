------------------------------ MODULE Reactor ------------------------------
(***************************************************************************)
(* reactors/src/IterativeReactor.cpp: one thread multiplexes end points    *)
(* with select() or with epoll_wait(), as `mode` says, and calls the       *)
(* handlers the program registered for them and for timers.  A handler is  *)
(* the program's own code: while it runs it may call the reactor back -    *)
(* register and unregister handlers, schedule and cancel timers, remove    *)
(* other end points, end the loop - and then returns a status that makes   *)
(* the reactor keep or remove the end point.                               *)
(*                                                                         *)
(* What the reactor guarantees depends on what the handlers dare to do, so *)
(* the constant Liberties names the calls that reach outside the end point *)
(* a handler was called for:                                               *)
(*   "remove"      removing another end point                              *)
(*   "unregister"  unregistering a single handler from inside a handler    *)
(*   "close"       closing the own end point behind the reactor's back     *)
(*   "cancel"      canceling a timer that is not waiting                   *)
(*                                                                         *)
(* Time is abstract: timers are queued in the order of their expiry, and   *)
(* when select() times out some of them, from the front, have expired.     *)
(***************************************************************************)
EXTENDS Integers, Sequences, FiniteSets, SequencesExt

CONSTANTS
  EndPoints,     \* the EndPoint objects; accept() creates fresh ones
  Listeners,     \* those that are open when the program starts
  MaxFd,         \* the process can open the file descriptors 0 .. MaxFd
  Opers,         \* the kinds of handlers the program registers
  Modes,         \* how the program may ask to wait: "select", "epoll"
  Tags,          \* the timers the program schedules
  Repeating,     \* those of type RepeatTimer, with an interval that is not 0
  TimerEndPoints,\* the end points it schedules them for, None among them
  Liberties,     \* see above
  None

Fds == 0 .. MaxFd
Closed == -1
Order == <<"exception", "read", "write">>
AllOpers == {"exception", "read", "write"}
Keys == Fds \X AllOpers

ASSUME EndPointAssumption == Listeners \subseteq EndPoints /\ None \notin EndPoints
ASSUME FdAssumption == MaxFd \in Nat /\ Cardinality(Listeners) <= MaxFd + 1
ASSUME OperAssumption == Opers \subseteq AllOpers
ASSUME ModeAssumption == Modes \subseteq {"select", "epoll"}
ASSUME TimerAssumption ==
  Repeating \subseteq Tags /\ TimerEndPoints \subseteq EndPoints \cup {None}
ASSUME LibertyAssumption ==
  Liberties \subseteq {"remove", "unregister", "close", "cancel"}

VARIABLES
  mode,       \* mode_
  sock,       \* per end point: its file descriptor, Closed if it has none
  endpoints,  \* endpoints_: per descriptor the registered end point or None
  handlers,   \* handlers_: per descriptor and operation the end point or None
  monitored,  \* master_readfds_, master_writefds_, master_exceptionfds_;
              \* with epoll the bits of epolleventflags_
  interest,   \* what the kernel reports of each descriptor to epollfd_
  count,      \* nreaders_, nwriters_, nexceptions_
  maxsocket,  \* maxsocket_
  timers,     \* timerqueue_, the timer that expires first at the front
  canceled,   \* canceledtimers_, compared by tag
  done,       \* done_
  ok,         \* isOk()
  pc,         \* where the thread is in selectLoop
  ready,      \* the <<descriptor, operation>> pairs select reported, to do
  socket,     \* the descriptor the loop over the ready ones has reached
  due,        \* how many timers at the front had expired at the timeout
  running,    \* the end point whose handler runs, None for a timer without
  client,     \* the end point that was just accepted, or None
  removed,    \* history: end points whose handler had them removed
  wanted      \* history: timers scheduled and not canceled or run since

loopVars == <<ready, socket, due, running, client>>
tableVars == <<endpoints, handlers, monitored, interest, count, maxsocket>>
timerVars == <<timers, canceled, wanted>>
flagVars == <<done, ok, mode>>
vars == <<pc, loopVars, sock, tableVars, timerVars, flagVars, removed>>

Places == {"setup", "top", "select", "io", "handler", "timeouts",
           "timerhandler", "skip", "stopped", "failed", "aborted", "finished"}

Init ==
  /\ mode \in Modes
  /\ sock \in [EndPoints -> Fds \cup {Closed}]
  /\ \A p \in EndPoints : sock[p] # Closed <=> p \in Listeners
  /\ \A p, q \in Listeners : p # q => sock[p] # sock[q]
  /\ endpoints = [fd \in Fds |-> None]
  /\ handlers = [fd \in Fds |-> [o \in AllOpers |-> None]]
  /\ monitored = [o \in AllOpers |-> {}]
  /\ interest = [fd \in Fds |-> {}]
  /\ count = [o \in AllOpers |-> 0]
  /\ maxsocket = -1
  /\ timers = <<>> /\ canceled = {} /\ wanted = {}
  /\ done = FALSE /\ ok = TRUE
  /\ pc = "setup" /\ ready = {} /\ socket = -1 /\ due = 0
  /\ running = None /\ client = None /\ removed = {}

Open == {sock[p] : p \in EndPoints} \ {Closed}
Registered(p) == sock[p] # Closed /\ endpoints[sock[p]] = p
(* What the code tests: the map has an entry for the descriptor.           *)
HasEntry(p) == sock[p] # Closed /\ endpoints[sock[p]] # None
-----------------------------------------------------------------------------
(* The program's calls: before run(), and from inside its handlers.        *)
InHandler == pc \in {"handler", "timerhandler"}
InProgram == pc = "setup" \/ InHandler

RegisterEndPoint(p) ==
  /\ InProgram
  /\ sock[p] # Closed
  /\ endpoints[sock[p]] = None
  /\ endpoints' = [endpoints EXCEPT ![sock[p]] = p]
  /\ maxsocket' = IF sock[p] > maxsocket THEN sock[p] ELSE maxsocket
  /\ UNCHANGED <<pc, loopVars, sock, handlers, monitored, interest, count,
                 timerVars, flagVars, removed>>

(* Which descriptor set a kind of handler is entered in: registerWrite-    *)
(* Handler calls registerReaderWithMultiplexor.                            *)
SetFor(o) == IF o = "write" THEN "read" ELSE o

(* With epoll a descriptor is added with its first bit and modified for   *)
(* the others; each fails when the kernel has it otherwise.                *)
Flags(fd) == {o \in AllOpers : fd \in monitored[o]}
Agrees(fd) == (Flags(fd) = {}) = (interest[fd] = {})

Monitor(fd, s) ==
  /\ monitored' = [monitored EXCEPT ![s] = @ \cup {fd}]
  /\ count' = [count EXCEPT ![s] = IF fd \in monitored[s] THEN @ ELSE @ + 1]
  /\ IF mode = "epoll" /\ fd \notin monitored[s]
     THEN Agrees(fd) /\ interest' = [interest EXCEPT ![fd] = Flags(fd) \cup {s}]
     ELSE UNCHANGED interest

(* registerAcceptHandler (for a listener), registerReadHandler,            *)
(* registerWriteHandler and registerExceptionHandler.                      *)
RegisterHandler(p, o) ==
  /\ InProgram
  /\ HasEntry(p)
  /\ handlers' = [handlers EXCEPT ![sock[p]][o] = p]
  /\ Monitor(sock[p], SetFor(o))
  /\ UNCHANGED <<pc, loopVars, sock, endpoints, maxsocket, timerVars, flagVars,
                 removed>>

(* Mutant: the descriptor leaves the set of readers, whatever handler goes.*)
UnregisterHandler_WrongSet(p, o) ==
  /\ pc = "setup" \/ (InHandler /\ "unregister" \in Liberties)
  /\ sock[p] # Closed
  /\ LET fd == sock[p]
     IN  /\ handlers' = [handlers EXCEPT ![fd][o] = None]
         /\ monitored' = [monitored EXCEPT !["read"] = @ \ {fd}]
         /\ count' = [count EXCEPT !["read"] = IF fd \in monitored["read"] THEN @ - 1 ELSE @]
         /\ interest' = [interest EXCEPT ![fd] = @ \ {"read"}]
  /\ UNCHANGED <<pc, loopVars, sock, endpoints, maxsocket, timerVars, flagVars,
                 removed>>

(* Mutant: the handler goes, the descriptor stays in the set.              *)
UnregisterHandler_KeepSet(p, o) ==
  /\ pc = "setup" \/ (InHandler /\ "unregister" \in Liberties)
  /\ sock[p] # Closed
  /\ handlers' = [handlers EXCEPT ![sock[p]][o] = None]
  /\ UNCHANGED <<pc, loopVars, sock, endpoints, monitored, interest, count,
                 maxsocket, timerVars, flagVars, removed>>

(* A bit of a descriptor can be cleared, unless others remain and the      *)
(* kernel does not have the descriptor (any more), so that it fails.       *)
Clears(fd, o) ==
  /\ o \in Flags(fd)
  /\ mode = "epoll" /\ Flags(fd) # {o} => interest[fd] # {}

(* unregisterReadHandler and its siblings.                                 *)
UnregisterHandler(p, o) ==
  /\ pc = "setup" \/ (InHandler /\ "unregister" \in Liberties)
  /\ sock[p] # Closed
  /\ LET fd == sock[p]
     IN  /\ handlers' = [handlers EXCEPT ![fd][o] = None]
         /\ IF Clears(fd, o)
            THEN /\ monitored' = [monitored EXCEPT ![o] = @ \ {fd}]
                 /\ count' = [count EXCEPT ![o] = @ - 1]
                 /\ interest' = [interest EXCEPT ![fd] = IF mode = "epoll" THEN Flags(fd) \ {o} ELSE @]
            ELSE UNCHANGED <<monitored, count, interest>>
  /\ UNCHANGED <<pc, loopVars, sock, endpoints, maxsocket, timerVars, flagVars,
                 removed>>

(* Mutant: the counters go down whether or not the descriptor was counted. *)
Forget_CountAlways(fd) ==
  /\ handlers' = [handlers EXCEPT ![fd] = [o \in AllOpers |-> None]]
  /\ monitored' = [o \in AllOpers |-> monitored[o] \ {fd}]
  /\ count' = [o \in AllOpers |-> count[o] - 1]
  /\ interest' = [interest EXCEPT ![fd] = {}]
  /\ endpoints' = [endpoints EXCEPT ![fd] = None]
  /\ UNCHANGED maxsocket

(* What unregisterAllHandlers and unregisterEndPoint do to the tables: all *)
(* bits are cleared one by one, or none is.                                *)
Forget(fd) ==
  LET cleared == {o \in AllOpers : Clears(fd, o)}
  IN /\ handlers' = [handlers EXCEPT ![fd] = [o \in AllOpers |-> None]]
     /\ monitored' = [o \in AllOpers |->
                        IF o \in cleared THEN monitored[o] \ {fd} ELSE monitored[o]]
     /\ count' = [o \in AllOpers |->
                    IF o \in cleared THEN count[o] - 1 ELSE count[o]]
     /\ interest' = [interest EXCEPT ![fd] = {}]
     /\ endpoints' = [endpoints EXCEPT ![fd] = None]
     /\ UNCHANGED maxsocket

(* Mutants of Discard: the handlers survive; the end point stays open.      *)
Discard_KeepHandlers(p) ==
  /\ endpoints' = [endpoints EXCEPT ![sock[p]] = None]
  /\ sock' = [sock EXCEPT ![p] = Closed]
  /\ interest' = [interest EXCEPT ![sock[p]] = {}]
  /\ UNCHANGED <<handlers, monitored, count, maxsocket>>
Discard_NoClose(p) == Forget(sock[p]) /\ UNCHANGED sock

(* unregisterAllHandlers, unregisterEndPoint and close of an open one.     *)
Discard(p) == Forget(sock[p]) /\ sock' = [sock EXCEPT ![p] = Closed]

(* The same calls for an end point that is closed already: getSocket()     *)
(* says -1, the maps have no such key, and FD_ISSET(-1, ...) is undefined -*)
(* it finds no descriptor, or a checking libc aborts the process.          *)
MayAbort == IF mode = "select" THEN {"aborted"} ELSE {}

RemoveClosed(next) ==
  /\ pc' \in {next} \cup MayAbort
  /\ UNCHANGED <<sock, tableVars>>

(* A handler removes an end point that is not the one it was called for.   *)
RemoveOther(p) ==
  /\ "remove" \in Liberties
  /\ InHandler
  /\ p \notin {running, client}
  /\ Registered(p)
  /\ Discard(p)
  /\ removed' = removed \cup {p}
  /\ UNCHANGED <<pc, loopVars, timerVars, flagVars>>

(* A handler calls close() of its end point and leaves it registered.      *)
CloseOwn ==
  /\ "close" \in Liberties
  /\ pc = "handler"
  /\ sock[running] # Closed
  /\ sock' = [sock EXCEPT ![running] = Closed]
  /\ interest' = [interest EXCEPT ![sock[running]] = {}]
  /\ UNCHANGED <<pc, loopVars, endpoints, handlers, monitored, count, maxsocket,
                 timerVars, flagVars, removed>>

SetDone ==
  /\ InHandler
  /\ done' = TRUE
  /\ UNCHANGED <<pc, loopVars, sock, tableVars, timerVars, ok, mode, removed>>
-----------------------------------------------------------------------------
(* Timers.  The one whose handler runs is still at the head of the queue,  *)
(* and leaves it when the handler returns.                                 *)
Leaving(i) == i = 1 /\ pc = "timerhandler" /\ timers[1].tag \notin Repeating
Waiting(t) == \E i \in DOMAIN timers : timers[i].tag = t /\ ~Leaving(i)

(* scheduleTimer and cancelTimer refuse an end point that is not known.    *)
Known(p) == p = None \/ (p \in EndPoints /\ HasEntry(p))

(* A timer expires after those whose time is up, and before, between or    *)
(* after the others.                                                       *)
Slots(queue) == due + 1 .. Len(queue) + 1

(* scheduleTimer.  The program schedules a timer that is not waiting.      *)
ScheduleTimer(t, p) ==
  /\ InProgram
  /\ ~Waiting(t)
  /\ Known(p)
  /\ \E i \in Slots(timers) :
       timers' = InsertAt(timers, i, [tag |-> t, ep |-> p])
  /\ wanted' = wanted \cup {t}
  /\ UNCHANGED <<pc, loopVars, sock, tableVars, canceled, flagVars, removed>>

(* cancelTimer: the timer is dropped when its turn comes.                  *)
CancelTimer(t, p) ==
  /\ InProgram
  /\ Waiting(t) \/ "cancel" \in Liberties
  /\ Known(p)
  /\ canceled' = canceled \cup {t}
  /\ wanted' = wanted \ {t}
  /\ UNCHANGED <<pc, loopVars, sock, tableVars, timers, flagVars, removed>>

HeadCanceled == timers # <<>> /\ Head(timers).tag \in canceled

(* Mutant: the timer goes, the cancel request stays.                       *)
DropCanceled_KeepRequest ==
  /\ HeadCanceled
  /\ timers' = Tail(timers)
  /\ UNCHANGED <<canceled, wanted>>

(* The head of the queue was canceled: pop it and forget the request.      *)
DropCanceled ==
  /\ HeadCanceled
  /\ timers' = Tail(timers)
  /\ canceled' = canceled \ {Head(timers).tag}
  /\ UNCHANGED wanted
-----------------------------------------------------------------------------
(* selectLoop and epollLoop.                                               *)
Start ==
  /\ pc = "setup"
  /\ ok
  /\ (\E fd \in Fds : endpoints[fd] # None) \/ timers # <<>>
  /\ pc' = "top"
  /\ UNCHANGED <<loopVars, sock, tableVars, timerVars, flagVars, removed>>

Idle == (\A fd \in Fds : endpoints[fd] = None) /\ timers = <<>>

(* The head of the loop: it ends, or canceled timers are dropped until the *)
(* first one is not, or select is next.  A queue emptied here does not end *)
(* the loop before the next turn.                                          *)
StopLoop ==
  /\ pc = "top"
  /\ done \/ Idle
  /\ pc' = "stopped"
  /\ UNCHANGED <<loopVars, sock, tableVars, timerVars, flagVars, removed>>

SkipCanceled ==
  /\ pc \in {"top", "skip"}
  /\ ~done
  /\ DropCanceled
  /\ pc' = "skip"
  /\ UNCHANGED <<loopVars, sock, tableVars, flagVars, removed>>

CallSelect ==
  /\ pc = "skip" \/ (pc = "top" /\ ~done /\ ~Idle)
  /\ ~HeadCanceled
  /\ pc' = "select"
  /\ UNCHANGED <<loopVars, sock, tableVars, timerVars, flagVars, removed>>

(* The descriptors the kernel is to report: of the sets those whose        *)
(* counters are not zero are passed to select.                             *)
Watched(o) ==
  IF mode = "epoll" THEN {fd \in Fds : o \in interest[fd]}
  ELSE {fd \in monitored[o] : count[o] # 0}

Passed == {k \in Keys : /\ k[1] \in Watched(k[2])
                        /\ mode = "select" => k[1] <= maxsocket}

(* The wait is interrupted by a signal.                                    *)
SelectInterrupted ==
  /\ pc = "select"
  /\ pc' = "top"
  /\ UNCHANGED <<loopVars, sock, tableVars, timerVars, flagVars, removed>>

(* select fails, for a descriptor it was given is not open.                *)
SelectFails ==
  /\ pc = "select"
  /\ \E k \in Passed : k[1] \notin Open
  /\ ok' = FALSE
  /\ pc' = "failed"
  /\ UNCHANGED <<loopVars, sock, tableVars, timerVars, done, mode, removed>>

SelectReady ==
  /\ pc = "select"
  /\ \A k \in Passed : k[1] \in Open
  /\ ready' \in (SUBSET Passed) \ {{}}
  /\ socket' = -1
  /\ pc' = "io"
  /\ UNCHANGED <<due, running, client, sock, tableVars, timerVars, flagVars,
                 removed>>

(* No event: some timers are due.  epoll_wait counts in milliseconds, less *)
(* the fraction, and may be too early for the first of them.               *)
SelectTimesOut ==
  /\ pc = "select"
  /\ \A k \in Passed : k[1] \in Open
  /\ timers # <<>>
  /\ due' \in (IF mode = "epoll" THEN 0 ELSE 1) .. Len(timers)
  /\ pc' = "timeouts"
  /\ UNCHANGED <<ready, socket, running, client, sock, tableVars, timerVars,
                 flagVars, removed>>
-----------------------------------------------------------------------------
(* The loop over the ready descriptors.                                    *)
Rank(o) == CHOOSE i \in DOMAIN Order : Order[i] = o

(* Mutant: all exceptions first, then all reads.                           *)
Before_ByOperation(j, k) ==
  Rank(j[2]) < Rank(k[2]) \/ (j[2] = k[2] /\ j[1] < k[1])

Before(j, k) == j[1] < k[1] \/ (j[1] = k[1] /\ Rank(j[2]) < Rank(k[2]))

(* What is left to do: done_ is tested between descriptors, not between    *)
(* the operations of one.                                                  *)
Pending == {k \in ready : done => k[1] = socket}

(* select goes by the numbers of the descriptors; epoll_wait reports them  *)
(* in any order, each once, with all its operations.                       *)
NextKeys ==
  IF mode = "select"
  THEN {k \in Pending : \A j \in Pending \ {k} : Before(k, j)}
  ELSE {k \in Pending :
          /\ (\E j \in Pending : j[1] = socket) => k[1] = socket
          /\ \A j \in Pending \ {k} : j[1] = k[1] => Before(k, j)}

LeaveIO ==
  /\ pc = "io"
  /\ Pending = {}
  /\ ready' = {} /\ socket' = -1
  /\ pc' = "top"
  /\ UNCHANGED <<due, running, client, sock, tableVars, timerVars, flagVars,
                 removed>>

(* callHandler's first steps, for the next key.                            *)
Dispatch(k) ==
  /\ pc = "io"
  /\ k \in NextKeys
  /\ ready' = ready \ {k}
  /\ socket' = k[1]
  /\ UNCHANGED <<due, timerVars, flagVars>>

HandlerOf(k) == handlers[k[1]][k[2]]
IsAccept(k) == HandlerOf(k) \in Listeners /\ k[2] = "read"

(* removeEndPoint for the end point p of a descriptor.  Without one, or    *)
(* with one that is closed, the descriptor leaves the sets uncounted; what *)
(* ::close(fd) is called for, no end point has open.  With epoll the bits  *)
(* are erased in any case, and the counters, which nobody reads, are zero. *)
RemoveEndPoint(fd, p) ==
  \/ /\ mode = "select"
     /\ \/ p # None /\ sock[p] # Closed /\ Discard(p) /\ pc' = pc
        \/ /\ p # None => sock[p] = Closed
           /\ monitored' = [o \in AllOpers |-> monitored[o] \ {fd}]
           /\ pc' \in {pc} \cup (IF p = None THEN {} ELSE MayAbort)
           /\ UNCHANGED <<sock, endpoints, handlers, interest, count, maxsocket>>
  \/ /\ mode = "epoll"
     /\ monitored' = [o \in AllOpers |-> monitored[o] \ {fd}]
     /\ interest' = [interest EXCEPT ![fd] = {}]
     /\ count' = [o \in AllOpers |-> 0]
     /\ IF p # None /\ sock[p] # Closed
        THEN /\ handlers' = [handlers EXCEPT ![fd] = [o \in AllOpers |-> None]]
             /\ endpoints' = [endpoints EXCEPT ![fd] = None]
             /\ sock' = [sock EXCEPT ![p] = Closed]
        ELSE UNCHANGED <<sock, endpoints, handlers>>
     /\ UNCHANGED <<pc, maxsocket>>

(* callHandler finds no handler.                                           *)
NoHandler(k) ==
  /\ Dispatch(k)
  /\ HandlerOf(k) = None
  /\ RemoveEndPoint(k[1], endpoints[k[1]])
  /\ UNCHANGED <<running, client, removed>>

CallHandler(k) ==
  /\ Dispatch(k)
  /\ HandlerOf(k) # None /\ ~IsAccept(k)
  /\ running' = HandlerOf(k)
  /\ pc' = "handler"
  /\ UNCHANGED <<client, sock, tableVars, removed>>

(* acceptHandler: accept is to be tried again, which is no error.          *)
AcceptRetry(k) ==
  /\ Dispatch(k)
  /\ HandlerOf(k) # None /\ IsAccept(k)
  /\ sock[HandlerOf(k)] # Closed
  /\ UNCHANGED <<pc, running, client, sock, tableVars, removed>>

(* accept fails: NOTOK, for which handleStatus removes the listener.       *)
AcceptFails(k) ==
  /\ Dispatch(k)
  /\ HandlerOf(k) # None /\ IsAccept(k)
  /\ LET p == HandlerOf(k)
     IN  /\ removed' = removed \cup {p}
         /\ \/ sock[p] # Closed /\ Discard(p) /\ pc' = pc
            \/ sock[p] = Closed /\ RemoveClosed(pc)
  /\ UNCHANGED <<running, client>>

(* An EndPoint object nothing refers to, for the connection accepted.      *)
Fresh(p) ==
  /\ p \notin Listeners
  /\ sock[p] = Closed
  /\ \A fd \in Fds : endpoints[fd] # p /\ \A o \in AllOpers : handlers[fd][o] # p
  /\ \A i \in DOMAIN timers : timers[i].ep # p

LowestFree(fd) == fd \notin Open /\ \A other \in Fds \ Open : fd <= other

Accept(k, p) ==
  /\ Dispatch(k)
  /\ HandlerOf(k) # None /\ IsAccept(k)
  /\ sock[HandlerOf(k)] # Closed
  /\ Fresh(p)
  /\ \E fd \in Fds : LowestFree(fd) /\ sock' = [sock EXCEPT ![p] = fd]
  /\ running' = HandlerOf(k) /\ client' = p
  /\ removed' = removed \ {p}
  /\ pc' = "handler"
  /\ UNCHANGED tableVars

(* The accept handler closes a client it does not register.                *)
CloseClient ==
  /\ pc = "handler" /\ client # None
  /\ endpoints[sock[client]] # client
  /\ sock' = [sock EXCEPT ![client] = Closed]
  /\ interest' = [interest EXCEPT ![sock[client]] = {}]
  /\ client' = None
  /\ UNCHANGED <<pc, ready, socket, due, running, endpoints, handlers, monitored,
                 count, maxsocket, timerVars, flagVars, removed>>

(* handleStatus with status 0, for the handler of descriptors and timers.  *)
KeepEndPoint(next) == pc' = next /\ UNCHANGED <<sock, tableVars, removed>>

(* handleStatus with another status.                                       *)
DropEndPoint(next) ==
  /\ running # None
  /\ removed' = removed \cup {running}
  /\ \/ sock[running] # Closed /\ Discard(running) /\ pc' = next
     \/ sock[running] = Closed /\ RemoveClosed(next)

HandlerReturns ==
  /\ pc = "handler"
  /\ client # None => Registered(client)
  /\ KeepEndPoint("io") \/ DropEndPoint("io")
  /\ running' = None /\ client' = None
  /\ UNCHANGED <<ready, socket, due, timerVars, flagVars>>
-----------------------------------------------------------------------------
(* The loop over the expired timers.                                       *)
LeaveTimeouts ==
  /\ pc = "timeouts"
  /\ done \/ due = 0
  /\ due' = 0
  /\ pc' = "top"
  /\ UNCHANGED <<ready, socket, running, client, sock, tableVars, timerVars,
                 flagVars, removed>>

SkipDueTimer ==
  /\ pc = "timeouts" /\ ~done /\ due > 0
  /\ DropCanceled
  /\ due' = due - 1
  /\ UNCHANGED <<pc, ready, socket, running, client, sock, tableVars, flagVars,
                 removed>>

RunTimerHandler ==
  /\ running' = Head(timers).ep
  /\ wanted' = IF Head(timers).tag \in Repeating THEN wanted
               ELSE wanted \ {Head(timers).tag}
  /\ pc' = "timerhandler"
  /\ UNCHANGED <<ready, socket, due, client, sock, tableVars, timers, canceled,
                 flagVars, removed>>

(* Mutant: the queue is not checked against the canceled timers.           *)
CallTimer_Unchecked ==
  /\ pc = "timeouts" /\ ~done /\ due > 0
  /\ RunTimerHandler

CallTimer ==
  /\ pc = "timeouts" /\ ~done /\ due > 0
  /\ ~HeadCanceled
  /\ RunTimerHandler

(* rescheduleTimer, and the pop of the timer whose handler ran.            *)
Reschedule ==
  LET item == Head(timers)
      again == item.tag \in Repeating
  IN  /\ canceled' = IF again THEN canceled \ {item.tag} ELSE canceled
      /\ IF again /\ item.tag \notin canceled
         THEN \E i \in Slots(timers) : timers' = Tail(InsertAt(timers, i, item))
         ELSE timers' = Tail(timers)
      /\ UNCHANGED wanted

TimerReturns ==
  /\ pc = "timerhandler"
  /\ KeepEndPoint("timeouts") \/ DropEndPoint("timeouts")
  /\ Reschedule
  /\ due' = due - 1
  /\ running' = None
  /\ UNCHANGED <<ready, socket, client, flagVars>>

(* finish closes every registered end point and leaves the tables; it      *)
(* assigns mode_ where it means to compare.                                *)
Finish ==
  /\ pc = "stopped"
  /\ sock' = [p \in EndPoints |-> IF Registered(p) THEN Closed ELSE sock[p]]
  /\ interest' = [fd \in Fds |-> {}]
  /\ mode' = "epoll"
  /\ done' = TRUE
  /\ pc' = "finished"
  /\ UNCHANGED <<loopVars, endpoints, handlers, monitored, count, maxsocket,
                 timerVars, ok, removed>>
-----------------------------------------------------------------------------
ProgramStep ==
  \/ \E p \in EndPoints : RegisterEndPoint(p) \/ RemoveOther(p)
  \/ \E p \in EndPoints, o \in Opers : RegisterHandler(p, o) \/ UnregisterHandler(p, o)
  \/ \E t \in Tags, p \in TimerEndPoints : ScheduleTimer(t, p) \/ CancelTimer(t, p)
  \/ CloseOwn \/ CloseClient \/ SetDone

LoopStep ==
  \/ Start \/ StopLoop \/ SkipCanceled \/ CallSelect
  \/ SelectInterrupted \/ SelectFails \/ SelectReady \/ SelectTimesOut
  \/ LeaveIO
  \/ \E k \in ready : \/ NoHandler(k) \/ CallHandler(k) \/ AcceptRetry(k)
                     \/ AcceptFails(k) \/ \E p \in EndPoints : Accept(k, p)
  \/ HandlerReturns
  \/ LeaveTimeouts \/ SkipDueTimer \/ CallTimer \/ TimerReturns
  \/ Finish

Next == ProgramStep \/ LoopStep

Spec == Init /\ [][Next]_vars
-----------------------------------------------------------------------------
(* A descriptor with a handler is watched for that handler's operation: it *)
(* is in the set, and the counter says that the set has members; or it is  *)
(* known to the kernel with the bit of the operation.                      *)
HandlersMonitored ==
  pc # "finished" =>
    \A k \in Keys : HandlerOf(k) # None => k[1] \in Watched(k[2])

(* What is watched for has a handler: the wait never reports an event that *)
(* nobody consumes, which it would report again and again.                 *)
MonitoredHandled ==
  \A o \in AllOpers : \A fd \in Watched(o) : handlers[fd][o] # None

(* A set that has members is passed to select: nreaders_ and its siblings, *)
(* counted up and down in many places, are not 0 before the set is empty.  *)
NothingUnwatched ==
  mode = "select" => \A o \in AllOpers : monitored[o] # {} => count[o] > 0

(* The tables keyed by a descriptor hold the end point that has it open,   *)
(* though descriptors are reused: no event reaches a former owner, and no  *)
(* descriptor that is closed is waited for, which would be an error.       *)
HandlerOwnsSocket ==
  pc # "finished" =>
    /\ \A k \in Keys : HandlerOf(k) # None =>
         endpoints[k[1]] = HandlerOf(k) /\ sock[HandlerOf(k)] = k[1]
    /\ \A o \in AllOpers : monitored[o] \subseteq Open

(* Between two rounds every open connection is registered: whatever path   *)
(* dropped an end point closed it too, and no descriptor leaks.            *)
OpenIsRegistered ==
  pc \in {"top", "skip", "select", "stopped"} =>
    \A p \in EndPoints \ Listeners : sock[p] # Closed => endpoints[sock[p]] = p

(* An end point is closed only if one of its handlers returned a status    *)
(* that asks for it, accept() failed, or the loop is over: the rest of the *)
(* ready set never closes a connection that was just accepted.             *)
NoSpuriousClose ==
  [][\A p \in EndPoints : Registered(p) /\ sock'[p] = Closed
                             => p \in removed' \/ pc' = "finished"]_vars

(* The handler of a timer runs only if it was scheduled and not canceled   *)
(* since, however the request and the expiry fell.                         *)
CanceledStaysQuiet ==
  [][pc # "timerhandler" /\ pc' = "timerhandler" => Head(timers).tag \in wanted]_vars

(* A timer that is wanted leaves the queue only for its handler to run: no *)
(* cancel request outlives the timer it was made for and hits a later one. *)
WantedFires ==
  [][\A t \in wanted : Waiting(t) /\ ~Waiting(t)' => t \notin wanted']_vars

(* No handler is called for an end point after a handler of it returned a  *)
(* status that has it closed and removed, or a handler had it removed.     *)
RemovedIsQuiet == InHandler /\ running # None => running \notin removed
-----------------------------------------------------------------------------
(* The inductive invariants.  Base holds whatever the handlers dare to do. *)
Entry == [tag : Tags, ep : TimerEndPoints]

Typed ==
  /\ mode \in {"select", "epoll"}
  /\ sock \in [EndPoints -> Fds \cup {Closed}]
  /\ endpoints \in [Fds -> EndPoints \cup {None}]
  /\ handlers \in [Fds -> [AllOpers -> EndPoints \cup {None}]]
  /\ monitored \in [AllOpers -> SUBSET Fds]
  /\ interest \in [Fds -> SUBSET AllOpers]
  /\ count \in [AllOpers -> Int]
  /\ ready \subseteq Keys
  /\ timers \in Seq(Entry) /\ due \in 0 .. Len(timers)
  /\ running \in EndPoints \cup {None}
  /\ client \in EndPoints \cup {None}
  /\ pc = "handler" => running \in EndPoints
  /\ pc \notin {"timeouts", "timerhandler", "aborted"} => due = 0
  /\ pc = "timerhandler" => due > 0

(* A descriptor is open for one end point, and a connection that is open   *)
(* is registered, or has just been accepted.                               *)
OneOwner ==
  /\ \A p, q \in EndPoints : sock[p] # Closed /\ sock[p] = sock[q] => p = q
  /\ \A p \in EndPoints \ Listeners :
       sock[p] # Closed => endpoints[sock[p]] = p \/ p = client
  /\ client # None => pc = "handler"

(* The counters never fall below the sizes of their sets.                  *)
Counted ==
  mode = "select" => \A o \in AllOpers : Cardinality(monitored[o]) <= count[o]

(* select's sets have handlers; so have all bits of a descriptor that the  *)
(* kernel knows, which has no bits but those.                              *)
Handled ==
  \A fd \in Fds :
    /\ interest[fd] \subseteq Flags(fd)
    /\ mode = "select" => interest[fd] = {}
    /\ mode = "select" \/ interest[fd] # {} =>
         \A o \in Flags(fd) : handlers[fd][o] # None

Base == Typed /\ OneOwner /\ Counted /\ ("write" \notin Opers => Handled)

(* What a program that takes no liberties and has no write handlers can    *)
(* rely on besides: the tables tell of the same, open, end points.         *)
Modest == Liberties = {} /\ "write" \notin Opers

Agreed ==
  pc # "finished" =>
    \A fd \in Fds :
      /\ endpoints[fd] # None => sock[endpoints[fd]] = fd
      /\ \A o \in AllOpers :
           /\ handlers[fd][o] # None => handlers[fd][o] = endpoints[fd]
           /\ handlers[fd][o] # None => fd \in monitored[o]
      /\ mode = "epoll" => interest[fd] = Flags(fd)

(* An end point that was removed is closed, and one whose handler runs, be *)
(* it not for a timer of its own, is not.                                  *)
RemovedIsClosed ==
  /\ removed \subseteq EndPoints /\ \A p \in removed : sock[p] = Closed
  /\ pc = "handler" => running # client /\ sock[running] # Closed
  /\ pc = "timerhandler" => running \in TimerEndPoints

Strict == Agreed /\ RemovedIsClosed

(* The timers that wait differ in their tags, and those that are not       *)
(* canceled are wanted.                                                    *)
Queued ==
  /\ \A i, j \in DOMAIN timers :
       ~ Leaving(i) /\ ~ Leaving(j) /\ timers[i].tag = timers[j].tag => i = j
  /\ \A i \in DOMAIN timers :
       ~ Leaving(i) => timers[i].tag \in wanted \cup canceled

(* If only timers that wait are canceled, no request is left over.         *)
NoLeftOver ==
  /\ wanted \cap canceled = {}
  /\ \A t \in canceled : Waiting(t)

(* In a round every event left to handle has its handler still, but for    *)
(* those of the descriptor at hand if its end point was removed; they are  *)
(* next, before the descriptor can be given to a new connection.           *)
InRound ==
  pc \in {"io", "handler"} =>
    /\ \A k \in ready :
         /\ HandlerOf(k) # None \/ (k[1] = socket /\ endpoints[socket] = None)
         /\ mode = "select" => socket <= k[1]
    /\ pc = "handler" => sock[running] = socket /\ endpoints[socket] = running
=============================================================================
