--------------------------- MODULE ReactorProofs ----------------------------
(***************************************************************************)
(* What the reactor keeps whatever its handlers do, and what it keeps for  *)
(* programs that take no liberties, for any end points, descriptors and    *)
(* timers.                                                                 *)
(***************************************************************************)
EXTENDS Reactor, TLAPS, FiniteSetTheorems

USE EndPointAssumption, FdAssumption, OperAssumption, ModeAssumption,
    TimerAssumption

(* What InsertAt makes of a sequence.                                      *)
LEMMA Inserted ==
  ASSUME NEW S, NEW s \in Seq(S), NEW e \in S, NEW i \in 1 .. Len(s) + 1
  PROVE  /\ InsertAt(s, i, e) \in Seq(S)
         /\ Len(InsertAt(s, i, e)) = Len(s) + 1
         /\ \A j \in 1 .. Len(s) + 1 :
              InsertAt(s, i, e)[j] =
                IF j < i THEN s[j] ELSE IF j = i THEN e ELSE s[j - 1]
<1> DEFINE a == SubSeq(s, 1, i - 1)
           b == SubSeq(s, i, Len(s))
<1>1. /\ a \in Seq(S) /\ Len(a) = i - 1
      /\ \A j \in 1 .. i - 1 : a[j] = s[j]
  OBVIOUS
<1>2. /\ b \in Seq(S) /\ Len(b) = Len(s) - i + 1
      /\ \A j \in 1 .. Len(s) - i + 1 : b[j] = s[i + j - 1]
  OBVIOUS
<1>3. <<e>> \in Seq(S) /\ Len(<<e>>) = 1 /\ <<e>>[1] = e
  OBVIOUS
<1>4. ASSUME NEW x \in Seq(S), NEW y \in Seq(S)
      PROVE  /\ x \o y \in Seq(S) /\ Len(x \o y) = Len(x) + Len(y)
             /\ \A j \in 1 .. Len(x) + Len(y) :
                  (x \o y)[j] = IF j <= Len(x) THEN x[j] ELSE y[j - Len(x)]
  OBVIOUS
<1>5. InsertAt(s, i, e) = a \o <<e>> \o b
  BY DEF InsertAt
<1> DEFINE c == a \o <<e>>
<1> HIDE DEF a, b
<1>6. /\ c \in Seq(S) /\ Len(c) = i
      /\ \A j \in 1 .. i : c[j] = IF j < i THEN s[j] ELSE e
  BY <1>1, <1>3, <1>4
<1>7. InsertAt(s, i, e) = c \o b
  BY <1>5
<1> HIDE DEF c
<1>8. /\ c \o b \in Seq(S) /\ Len(c \o b) = i + Len(b)
      /\ \A j \in 1 .. i + Len(b) :
           (c \o b)[j] = IF j <= i THEN c[j] ELSE b[j - i]
  BY <1>2, <1>4, <1>6
<1>9. \A j \in 1 .. Len(s) + 1 :
        (c \o b)[j] = IF j < i THEN s[j] ELSE IF j = i THEN e ELSE s[j - 1]
  BY <1>2, <1>6, <1>8
<1> QED BY <1>2, <1>7, <1>8, <1>9
-----------------------------------------------------------------------------
(* What the steps do to the tables: most leave them alone, and the others  *)
(* are of seven kinds.                                                     *)
tables == <<sock, endpoints, handlers, monitored, interest, count, mode>>

Drop(p) == sock[p] # Closed /\ Discard(p) /\ UNCHANGED mode

Shut(p) ==
  /\ endpoints[sock[p]] # p \/ "close" \in Liberties
  /\ sock' = [sock EXCEPT ![p] = Closed]
  /\ interest' = [interest EXCEPT ![sock[p]] = {}]
  /\ UNCHANGED <<endpoints, handlers, monitored, count, mode>>

Removal(fd) == RemoveEndPoint(fd, endpoints[fd]) /\ UNCHANGED mode

Effect ==
  \/ UNCHANGED tables
  \/ \E p \in EndPoints :
       \/ RegisterEndPoint(p)
       \/ \E o \in Opers : RegisterHandler(p, o) \/ UnregisterHandler(p, o)
       \/ Drop(p) \/ Shut(p)
       \/ \E k \in Keys : Accept(k, p)
  \/ \E fd \in Fds : Removal(fd)
  \/ Finish

(* Every step has one of the effects on the tables that Effect lists.      *)
LEMMA Kinds ==
  ASSUME Typed, [Next]_vars
  PROVE  Effect
<1> USE DEF tables, tableVars, flagVars
<1>1. CASE ProgramStep
  <2>1. ASSUME NEW p \in EndPoints, RemoveOther(p) PROVE Drop(p)
    BY <2>1 DEF RemoveOther, Drop, Registered
  <2>2. ASSUME CloseOwn PROVE Shut(running) /\ running \in EndPoints
    BY <2>2 DEF CloseOwn, Shut, Typed
  <2>3. ASSUME CloseClient PROVE Shut(client) /\ client \in EndPoints
    BY <2>3 DEF CloseClient, Shut, Typed
  <2>4. ASSUME \/ \E t \in Tags, p \in TimerEndPoints :
                    ScheduleTimer(t, p) \/ CancelTimer(t, p)
               \/ SetDone
        PROVE  UNCHANGED tables
    BY <2>4 DEF ScheduleTimer, CancelTimer, SetDone
  <2> QED BY <1>1, <2>1, <2>2, <2>3, <2>4 DEF ProgramStep, Effect
<1>2. CASE LoopStep
  <2>1. ASSUME NEW k \in ready PROVE k \in Keys /\ k[1] \in Fds
    BY DEF Typed, Keys
  <2>2. ASSUME NEW k \in ready, NoHandler(k) PROVE Removal(k[1])
    BY <2>2 DEF NoHandler, Dispatch, Removal
  <2>3. ASSUME NEW k \in ready, AcceptFails(k)
        PROVE  UNCHANGED tables \/ \E p \in EndPoints : Drop(p)
    <3>1. HandlerOf(k) \in EndPoints
      BY <2>1, <2>3 DEF AcceptFails, HandlerOf, Typed, Keys
    <3> QED BY <2>3, <3>1 DEF AcceptFails, Dispatch, Drop, RemoveClosed
  <2>4. ASSUME NEW next, DropEndPoint(next), UNCHANGED mode
        PROVE  UNCHANGED tables \/ \E p \in EndPoints : Drop(p)
    BY <2>4 DEF DropEndPoint, Drop, RemoveClosed, Typed
  <2>5. ASSUME HandlerReturns \/ TimerReturns
        PROVE  UNCHANGED tables \/ \E p \in EndPoints : Drop(p)
    BY <2>4, <2>5 DEF HandlerReturns, TimerReturns, KeepEndPoint
  <2>6. ASSUME \/ Start \/ StopLoop \/ SkipCanceled \/ CallSelect
               \/ SelectInterrupted \/ SelectFails \/ SelectReady \/ SelectTimesOut
               \/ LeaveIO \/ LeaveTimeouts \/ SkipDueTimer \/ CallTimer
        PROVE  UNCHANGED tables
    BY <2>6 DEF Start, StopLoop, SkipCanceled, CallSelect, SelectInterrupted,
         SelectFails, SelectReady, SelectTimesOut, LeaveIO, LeaveTimeouts,
         SkipDueTimer, CallTimer, RunTimerHandler
  <2>7. ASSUME NEW k \in ready, CallHandler(k) \/ AcceptRetry(k)
        PROVE  UNCHANGED tables
    BY <2>7 DEF CallHandler, AcceptRetry, Dispatch
  <2> QED BY <1>2, <2>1, <2>2, <2>3, <2>5, <2>6, <2>7 DEF LoopStep, Effect
<1>3. CASE UNCHANGED vars
  BY <1>3 DEF vars, Effect
<1> QED BY <1>1, <1>2, <1>3 DEF Next
-----------------------------------------------------------------------------
TablesTyped ==
  /\ mode \in {"select", "epoll"}
  /\ sock \in [EndPoints -> Fds \cup {Closed}]
  /\ endpoints \in [Fds -> EndPoints \cup {None}]
  /\ handlers \in [Fds -> [AllOpers -> EndPoints \cup {None}]]
  /\ monitored \in [AllOpers -> SUBSET Fds]
  /\ interest \in [Fds -> SUBSET AllOpers]
  /\ count \in [AllOpers -> Int]

(* The tables keep their types.                                            *)
LEMMA TablesKeepType ==
  ASSUME TablesTyped, Effect
  PROVE  TablesTyped'
<1> USE DEF TablesTyped, tables, tableVars, flagVars
<1>1. CASE UNCHANGED tables
  BY <1>1
<1>2. ASSUME NEW p \in EndPoints, RegisterEndPoint(p) PROVE TablesTyped'
  BY <1>2 DEF RegisterEndPoint
<1>3. ASSUME NEW p \in EndPoints, NEW o \in Opers, RegisterHandler(p, o)
      PROVE  TablesTyped'
  <2>1. SetFor(o) \in AllOpers /\ o \in AllOpers
    BY DEF SetFor, AllOpers
  <2>2. sock[p] \in Fds /\ Flags(sock[p]) \subseteq AllOpers
    BY <1>3 DEF RegisterHandler, HasEntry, Flags
  <2>3. \A o1, o2 \in AllOpers : o1 = o2 \/ o1 # o2
    OBVIOUS
  <2> QED BY <1>3, <2>1, <2>2 DEF RegisterHandler, Monitor
<1>4. ASSUME NEW p \in EndPoints, NEW o \in Opers, UnregisterHandler(p, o)
      PROVE  TablesTyped'
  <2>1. o \in AllOpers /\ sock[p] \in Fds /\ Flags(sock[p]) \subseteq AllOpers
    BY <1>4 DEF UnregisterHandler, Flags
  <2>2. /\ handlers' = [handlers EXCEPT ![sock[p]][o] = None]
        /\ UNCHANGED <<mode, sock, endpoints>>
    BY <1>4 DEF UnregisterHandler
  <2>3. \/ UNCHANGED <<monitored, count, interest>>
        \/ /\ monitored' = [monitored EXCEPT ![o] = @ \ {sock[p]}]
           /\ count' = [count EXCEPT ![o] = @ - 1]
           /\ \/ interest' = interest
              \/ interest' = [interest EXCEPT ![sock[p]] = Flags(sock[p]) \ {o}]
    BY <1>4 DEF UnregisterHandler
  <2>4. handlers' \in [Fds -> [AllOpers -> EndPoints \cup {None}]]
    BY <2>1, <2>2
  <2>5. monitored' \in [AllOpers -> SUBSET Fds] /\ count' \in [AllOpers -> Int]
    BY <2>1, <2>3
  <2>6. interest' \in [Fds -> SUBSET AllOpers]
    BY <2>1, <2>3
  <2> QED BY <2>2, <2>4, <2>5, <2>6
<1>5. ASSUME NEW p \in EndPoints, Drop(p) PROVE TablesTyped'
  <2>1. sock[p] \in Fds
    BY <1>5 DEF Drop
  <2> QED BY <1>5, <2>1 DEF Drop, Discard, Forget
<1>6. ASSUME NEW p \in EndPoints, Shut(p) PROVE TablesTyped'
  BY <1>6 DEF Shut
<1>7. ASSUME NEW p \in EndPoints, NEW k \in Keys, Accept(k, p) PROVE TablesTyped'
  <2>1. PICK fd \in Fds : sock' = [sock EXCEPT ![p] = fd]
    BY <1>7 DEF Accept, LowestFree
  <2> QED BY <1>7, <2>1 DEF Accept, Dispatch
<1>8. ASSUME NEW fd \in Fds, Removal(fd) PROVE TablesTyped'
  <2>1. CASE mode = "select" /\ endpoints[fd] # None /\ Discard(endpoints[fd])
               /\ sock[endpoints[fd]] # Closed
    <3>1. endpoints[fd] \in EndPoints
      BY <2>1
    <3> QED BY <1>5, <1>8, <2>1, <3>1 DEF Drop, Removal
  <2>2. CASE mode = "select" /\ UNCHANGED <<sock, endpoints, handlers, interest, count>>
               /\ monitored' = [o \in AllOpers |-> monitored[o] \ {fd}]
    BY <1>8, <2>2 DEF Removal
  <2>3. CASE mode = "epoll"
    <3>1. /\ monitored' = [o \in AllOpers |-> monitored[o] \ {fd}]
          /\ interest' = [interest EXCEPT ![fd] = {}]
          /\ count' = [o \in AllOpers |-> 0]
          /\ UNCHANGED mode
      BY <1>8, <2>3 DEF Removal, RemoveEndPoint
    <3>2. \/ UNCHANGED <<sock, endpoints, handlers>>
          \/ /\ handlers' = [handlers EXCEPT ![fd] = [o \in AllOpers |-> None]]
             /\ endpoints' = [endpoints EXCEPT ![fd] = None]
             /\ sock' = [sock EXCEPT ![endpoints[fd]] = Closed]
      BY <1>8, <2>3 DEF Removal, RemoveEndPoint
    <3>3. /\ sock' \in [EndPoints -> Fds \cup {Closed}]
          /\ endpoints' \in [Fds -> EndPoints \cup {None}]
          /\ handlers' \in [Fds -> [AllOpers -> EndPoints \cup {None}]]
      <4>1. CASE UNCHANGED <<sock, endpoints, handlers>>
        BY <4>1
      <4>2. [o \in AllOpers |-> None] \in [AllOpers -> EndPoints \cup {None}]
        OBVIOUS
      <4>3. CASE handlers' = [handlers EXCEPT ![fd] = [o \in AllOpers |-> None]]
        BY <4>2, <4>3, <3>2
      <4> QED BY <4>1, <4>3, <3>2
    <3>4. /\ monitored' \in [AllOpers -> SUBSET Fds]
          /\ interest' \in [Fds -> SUBSET AllOpers]
          /\ count' \in [AllOpers -> Int]
      BY <3>1
    <3> QED BY <3>1, <3>3, <3>4
  <2> QED BY <1>8, <2>1, <2>2, <2>3 DEF Removal, RemoveEndPoint
<1>9. CASE Finish
  BY <1>9 DEF Finish
<1> QED
  BY <1>1, <1>2, <1>3, <1>4, <1>5, <1>6, <1>7, <1>8, <1>9 DEF Effect

(* The queue of timers keeps its type.                                     *)
LEMMA QueueKeepsType ==
  ASSUME Typed, [Next]_vars
  PROVE  /\ timers' \in Seq(Entry) /\ due' \in 0 .. Len(timers')
         /\ pc' \notin {"timeouts", "timerhandler", "aborted"} => due' = 0
         /\ pc' = "timerhandler" => due' > 0
<1> DEFINE Goal == /\ timers' \in Seq(Entry) /\ due' \in 0 .. Len(timers')
                   /\ pc' \notin {"timeouts", "timerhandler", "aborted"} => due' = 0
                   /\ pc' = "timerhandler" => due' > 0
<1>1. /\ timers \in Seq(Entry) /\ due \in 0 .. Len(timers)
      /\ pc \notin {"timeouts", "timerhandler", "aborted"} => due = 0
      /\ pc = "timerhandler" => due > 0
  BY DEF Typed
<1>2. ASSUME DropCanceled
      PROVE  /\ timers' \in Seq(Entry) /\ Len(timers') = Len(timers) - 1
             /\ Len(timers) > 0
  BY <1>1, <1>2 DEF DropCanceled, HeadCanceled
<1>3. ASSUME NEW e \in Entry, NEW i \in Slots(timers)
      PROVE  /\ InsertAt(timers, i, e) \in Seq(Entry)
             /\ Len(InsertAt(timers, i, e)) = Len(timers) + 1
  BY <1>1, Inserted DEF Slots
<1> USE DEF loopVars, timerVars, flagVars
<1>4. CASE ProgramStep
  <2>1. ASSUME NEW t \in Tags, NEW p \in TimerEndPoints, ScheduleTimer(t, p)
        PROVE  Goal
    <3>1. [tag |-> t, ep |-> p] \in Entry
      BY DEF Entry
    <3>2. /\ timers' \in Seq(Entry) /\ Len(timers') = Len(timers) + 1
          /\ UNCHANGED <<pc, due>>
      BY <2>1, <3>1, <1>3 DEF ScheduleTimer
    <3> QED BY <1>1, <3>2
  <2>2. CASE UNCHANGED <<timers, due, pc>>
    BY <1>1, <2>2
  <2> QED
    BY <1>4, <2>1, <2>2
       DEF ProgramStep, RegisterEndPoint, RemoveOther, RegisterHandler,
           UnregisterHandler, CancelTimer, CloseOwn, CloseClient, SetDone
<1>5. CASE SkipCanceled
  BY <1>1, <1>2, <1>5 DEF SkipCanceled
<1>6. CASE SkipDueTimer
  BY <1>1, <1>2, <1>6 DEF SkipDueTimer
<1>7. CASE TimerReturns
  <2>1. Len(timers) > 0 /\ Head(timers) \in Entry
    BY <1>1, <1>7 DEF TimerReturns
  <2>2. /\ timers' \in Seq(Entry)
        /\ Len(timers') >= Len(timers) - 1
    <3>1. CASE timers' = Tail(timers)
      BY <1>1, <2>1, <3>1
    <3>2. CASE \E i \in Slots(timers) : timers' = Tail(InsertAt(timers, i, Head(timers)))
      BY <1>1, <1>3, <2>1, <3>2
    <3> QED BY <1>7, <3>1, <3>2 DEF TimerReturns, Reschedule
  <2>3. due' = due - 1 /\ pc = "timerhandler" /\ pc' # "timerhandler"
    BY <1>7 DEF TimerReturns, KeepEndPoint, DropEndPoint, RemoveClosed, MayAbort
  <2>4. pc' = "timeouts" \/ pc' = "aborted"
    BY <1>7 DEF TimerReturns, KeepEndPoint, DropEndPoint, RemoveClosed, MayAbort
  <2> QED
    BY <1>1, <2>1, <2>2, <2>3, <2>4
<1>8. CASE SelectTimesOut
  BY <1>1, <1>8 DEF SelectTimesOut
<1>9. CASE LeaveTimeouts
  BY <1>1, <1>9 DEF LeaveTimeouts
<1>10. CASE CallTimer
  BY <1>1, <1>10 DEF CallTimer, RunTimerHandler
<1>11. CASE UNCHANGED <<timers, due>> /\ pc \notin {"timeouts", "timerhandler", "aborted"}
             /\ pc' # "timerhandler"
  BY <1>1, <1>11
<1>12. CASE \/ Start \/ StopLoop \/ CallSelect \/ SelectInterrupted \/ SelectFails
            \/ SelectReady \/ LeaveIO \/ HandlerReturns \/ Finish
            \/ \E k \in ready : \/ NoHandler(k) \/ CallHandler(k) \/ AcceptRetry(k)
                               \/ AcceptFails(k) \/ \E p \in EndPoints : Accept(k, p)
  <2>1. CASE \/ Start \/ StopLoop \/ CallSelect \/ SelectInterrupted \/ SelectFails
             \/ SelectReady \/ LeaveIO \/ Finish
    BY <1>11, <2>1 DEF Start, StopLoop, CallSelect, SelectInterrupted, SelectFails,
         SelectReady, LeaveIO, Finish
  <2>2. CASE HandlerReturns
    BY <1>11, <2>2 DEF HandlerReturns, KeepEndPoint, DropEndPoint, RemoveClosed, MayAbort
  <2>3. ASSUME NEW k \in ready, NoHandler(k) PROVE Goal
    BY <1>11, <2>3 DEF NoHandler, Dispatch, RemoveEndPoint, MayAbort
  <2>4. ASSUME NEW k \in ready, AcceptFails(k) PROVE Goal
    BY <1>11, <2>4 DEF AcceptFails, Dispatch, RemoveClosed, MayAbort
  <2>5. ASSUME NEW k \in ready,
               CallHandler(k) \/ AcceptRetry(k) \/ \E p \in EndPoints : Accept(k, p)
        PROVE  Goal
    BY <1>11, <2>5 DEF CallHandler, AcceptRetry, Accept, Dispatch
  <2> QED BY <1>12, <2>1, <2>2, <2>3, <2>4, <2>5
<1>13. CASE UNCHANGED vars
  BY <1>1, <1>13 DEF vars
<1> QED
  BY <1>4, <1>5, <1>6, <1>7, <1>8, <1>9, <1>10, <1>12, <1>13 DEF Next, LoopStep

(* The variables of the loop keep their types.                             *)
LEMMA LoopKeepsType ==
  ASSUME Typed, [Next]_vars
  PROVE  /\ ready' \subseteq Keys
         /\ running' \in EndPoints \cup {None} /\ client' \in EndPoints \cup {None}
         /\ pc' = "handler" => running' \in EndPoints
<1> DEFINE Goal == /\ ready' \subseteq Keys
                   /\ running' \in EndPoints \cup {None}
                   /\ client' \in EndPoints \cup {None}
                   /\ pc' = "handler" => running' \in EndPoints
<1>1. /\ ready \subseteq Keys
      /\ running \in EndPoints \cup {None} /\ client \in EndPoints \cup {None}
      /\ pc = "handler" => running \in EndPoints
  BY DEF Typed
<1> USE DEF loopVars
<1>2. CASE UNCHANGED <<ready, running>> /\ pc' \in {pc, "aborted"} /\ client' \in {client, None}
  BY <1>1, <1>2
<1>3. CASE ProgramStep
  BY <1>2, <1>3
     DEF ProgramStep, RegisterEndPoint, RemoveOther, RegisterHandler, UnregisterHandler,
         ScheduleTimer, CancelTimer, CloseOwn, CloseClient, SetDone
<1>4. CASE /\ ready' \subseteq Keys /\ pc' # "handler"
           /\ running' \in {running, None} /\ client' \in {client, None}
  BY <1>1, <1>4
<1>5. CASE \/ Start \/ StopLoop \/ SkipCanceled \/ CallSelect \/ SelectInterrupted
           \/ SelectFails \/ SelectReady \/ SelectTimesOut \/ LeaveIO
           \/ LeaveTimeouts \/ SkipDueTimer \/ Finish
  BY <1>1, <1>4, <1>5
     DEF Start, StopLoop, SkipCanceled, CallSelect, SelectInterrupted,
         SelectFails, SelectReady, SelectTimesOut, LeaveIO, LeaveTimeouts,
         SkipDueTimer, Finish, Passed
<1>6. CASE HandlerReturns \/ TimerReturns
  BY <1>1, <1>4, <1>6 DEF HandlerReturns, TimerReturns, KeepEndPoint, DropEndPoint,
                         RemoveClosed, MayAbort
<1>7. CASE CallTimer
  <2>1. Head(timers) \in Entry
    BY <1>1, <1>7 DEF CallTimer, Typed
  <2>2. Head(timers).ep \in EndPoints \cup {None}
    BY <2>1 DEF Entry
  <2> QED BY <1>1, <1>7, <2>2 DEF CallTimer, RunTimerHandler
<1>8. ASSUME NEW k \in ready, NoHandler(k) \/ AcceptRetry(k) \/ AcceptFails(k)
      PROVE  Goal
  BY <1>1, <1>8 DEF NoHandler, AcceptRetry, AcceptFails, Dispatch, RemoveEndPoint,
                    RemoveClosed, MayAbort
<1>9. ASSUME NEW k \in ready,
             CallHandler(k) \/ \E p \in EndPoints : Accept(k, p)
      PROVE  Goal
  <2>1. HandlerOf(k) \in EndPoints
    BY <1>9 DEF CallHandler, Accept, HandlerOf, Typed, Keys
  <2>2. ready' \subseteq Keys /\ running' = HandlerOf(k)
    BY <1>1, <1>9 DEF CallHandler, Accept, Dispatch
  <2>3. client' \in EndPoints \cup {None}
    BY <1>1, <1>9 DEF CallHandler, Accept, Dispatch
  <2> QED BY <2>1, <2>2, <2>3
<1>10. CASE UNCHANGED vars
  BY <1>2, <1>10 DEF vars
<1> QED
  BY <1>3, <1>5, <1>6, <1>7, <1>8, <1>9, <1>10 DEF Next, LoopStep

(* All variables keep their types.                                         *)
LEMMA KeepsType ==
  ASSUME Typed, [Next]_vars
  PROVE  Typed'
<1>1. Effect
  BY Kinds
<1>2. TablesTyped
  BY DEF Typed, TablesTyped
<1>3. TablesTyped'
  BY <1>1, <1>2, TablesKeepType
<1> QED BY <1>3, QueueKeepsType, LoopKeepsType DEF Typed, TablesTyped
-----------------------------------------------------------------------------
(* An end point that stays open keeps its descriptor and its registration, *)
(* and a descriptor that is opened was free.                               *)
LEMMA OpenStays ==
  ASSUME TablesTyped, Effect,
         \A p, q \in EndPoints : sock[p] # Closed /\ sock[p] = sock[q] => p = q,
         NEW q \in EndPoints, sock'[q] # Closed
  PROVE  \/ /\ sock'[q] = sock[q]
            /\ endpoints[sock[q]] = q => endpoints'[sock[q]] = q
         \/ /\ \E k \in Keys : Accept(k, q)
            /\ \A p \in EndPoints : sock[p] # sock'[q]
<1> USE DEF TablesTyped, tables, tableVars, flagVars
<1>1. CASE UNCHANGED tables
  BY <1>1
<1>2. ASSUME NEW p \in EndPoints, RegisterEndPoint(p) PROVE sock' = sock /\
        (endpoints[sock[q]] = q => endpoints'[sock[q]] = q)
  BY <1>2 DEF RegisterEndPoint
<1>3. ASSUME NEW p \in EndPoints, NEW o \in Opers,
             RegisterHandler(p, o) \/ UnregisterHandler(p, o)
      PROVE  UNCHANGED <<sock, endpoints>>
  BY <1>3 DEF RegisterHandler, UnregisterHandler
<1>4. ASSUME NEW p \in EndPoints, Drop(p)
      PROVE  sock'[q] = sock[q] /\ (endpoints[sock[q]] = q => endpoints'[sock[q]] = q)
  BY <1>4 DEF Drop, Discard, Forget
<1>5. ASSUME NEW p \in EndPoints, Shut(p)
      PROVE  sock'[q] = sock[q] /\ endpoints' = endpoints
  BY <1>5 DEF Shut
<1>6. ASSUME NEW p \in EndPoints, NEW k \in Keys, Accept(k, p)
      PROVE  \/ UNCHANGED endpoints /\ sock'[q] = sock[q]
             \/ p = q /\ \A r \in EndPoints : sock[r] # sock'[q]
  <2>1. PICK fd \in Fds : LowestFree(fd) /\ sock' = [sock EXCEPT ![p] = fd]
    BY <1>6 DEF Accept
  <2>2. \A r \in EndPoints : sock[r] # fd
    BY <2>1 DEF LowestFree, Open, Fds, Closed
  <2> QED BY <1>6, <2>1, <2>2 DEF Accept
<1>7. ASSUME NEW fd \in Fds, Removal(fd)
      PROVE  sock'[q] = sock[q] /\ (endpoints[sock[q]] = q => endpoints'[sock[q]] = q)
  <2>1. CASE mode = "select" /\ endpoints[fd] # None /\ Discard(endpoints[fd])
               /\ sock[endpoints[fd]] # Closed
    <3>1. endpoints[fd] \in EndPoints
      BY <2>1
    <3> QED BY <1>4, <1>7, <2>1, <3>1 DEF Drop, Removal
  <2>2. CASE UNCHANGED <<sock, endpoints>>
    BY <2>2
  <2>3. CASE /\ endpoints' = [endpoints EXCEPT ![fd] = None]
             /\ sock' = [sock EXCEPT ![endpoints[fd]] = Closed]
    BY <2>3
  <2> QED BY <1>7, <2>1, <2>2, <2>3 DEF Removal, RemoveEndPoint
<1>8. CASE Finish
  BY <1>8 DEF Finish
<1> QED
  BY <1>1, <1>2, <1>3, <1>4, <1>5, <1>6, <1>7, <1>8 DEF Effect

(* A descriptor keeps one owner, also when the kernel gives it away again. *)
LEMMA KeepsOwner ==
  ASSUME Typed, OneOwner, [Next]_vars
  PROVE  OneOwner'
<1>1. Effect /\ TablesTyped
  BY Kinds DEF Typed, TablesTyped
<1>2. \A q \in EndPoints : sock'[q] # Closed =>
         \/ /\ sock'[q] = sock[q]
            /\ endpoints[sock[q]] = q => endpoints'[sock[q]] = q
         \/ /\ \E k \in Keys : Accept(k, q)
            /\ \A p \in EndPoints : sock[p] # sock'[q]
  BY <1>1, OpenStays DEF OneOwner
<1>3. \A p, q \in EndPoints, k, l \in Keys : Accept(k, p) /\ Accept(l, q) => p = q
  BY DEF Accept
<1>4. \A p, q \in EndPoints : sock'[p] # Closed /\ sock'[p] = sock'[q] => p = q
  BY <1>2, <1>3 DEF OneOwner
<1>5. /\ client' # None => pc' = "handler"
      /\ \/ client' = client \/ client = None \/ Registered(client)
         \/ sock'[client] = Closed
  <2> USE DEF loopVars
  <2>1. CASE client' = client /\ (pc' = pc \/ client = None)
    BY <2>1 DEF OneOwner
  <2>2. CASE CloseClient
    BY <2>2 DEF CloseClient, Typed
  <2>3. CASE ProgramStep /\ ~ CloseClient
    BY <2>1, <2>3
       DEF ProgramStep, RegisterEndPoint, RemoveOther, RegisterHandler,
           UnregisterHandler, ScheduleTimer, CancelTimer, CloseOwn, SetDone
  <2>4. CASE HandlerReturns
    BY <2>4 DEF HandlerReturns
  <2>5. CASE pc # "handler" /\ client' = client
    BY <2>1, <2>5 DEF OneOwner
  <2>6. ASSUME NEW k \in ready, NEW p \in EndPoints, Accept(k, p)
        PROVE  client = None /\ pc' = "handler"
    BY <2>6 DEF Accept, Dispatch, OneOwner
  <2>7. CASE LoopStep /\ ~ HandlerReturns
             /\ ~ \E k \in ready, p \in EndPoints : Accept(k, p)
    <3>1. ASSUME NEW k \in ready,
                 NoHandler(k) \/ CallHandler(k) \/ AcceptRetry(k) \/ AcceptFails(k)
          PROVE  pc # "handler" /\ client' = client
      BY <3>1 DEF NoHandler, CallHandler, AcceptRetry, AcceptFails, Dispatch
    <3> QED
      BY <2>5, <2>7, <3>1
         DEF LoopStep, Start, StopLoop, SkipCanceled, CallSelect, SelectInterrupted,
             SelectFails, SelectReady, SelectTimesOut, LeaveIO, LeaveTimeouts,
             SkipDueTimer, CallTimer, RunTimerHandler, TimerReturns, Finish
  <2>8. CASE UNCHANGED vars
    BY <2>1, <2>8 DEF vars
  <2> QED BY <2>2, <2>3, <2>4, <2>6, <2>7, <2>8 DEF Next
<1>6. ASSUME NEW p \in EndPoints \ Listeners, sock'[p] # Closed
      PROVE  endpoints'[sock'[p]] = p \/ p = client'
  <2>1. CASE \E k \in Keys : Accept(k, p)
    BY <2>1 DEF Accept
  <2>2. CASE /\ sock'[p] = sock[p]
             /\ endpoints[sock[p]] = p => endpoints'[sock[p]] = p
    BY <1>5, <1>6, <2>2 DEF OneOwner, Registered
  <2> QED BY <1>2, <1>6, <2>1, <2>2
<1> QED BY <1>4, <1>5, <1>6 DEF OneOwner
-----------------------------------------------------------------------------
(* The counters still cover their sets after every step.                   *)
LEMMA KeepsCounted ==
  ASSUME TablesTyped, Counted, Effect
  PROVE  Counted'
<1> SUFFICES ASSUME mode' = "select", NEW o \in AllOpers
             PROVE  Cardinality(monitored'[o]) <= count'[o]
  BY DEF Counted
<1> USE DEF tables, tableVars, flagVars
<1>1. /\ count[o] \in Int
      /\ monitored[o] \subseteq Fds /\ IsFiniteSet(monitored[o])
      /\ Cardinality(monitored[o]) \in Nat
  <2>1. IsFiniteSet(Fds)
    BY FS_Interval DEF Fds
  <2> QED BY <2>1, FS_Subset, FS_CardinalityType DEF TablesTyped
<1>2. ASSUME mode = "select"
      PROVE  Cardinality(monitored[o]) <= count[o]
  BY <1>2 DEF Counted
<1>3. ASSUME NEW fd, mode = "select",
             \/ monitored'[o] = monitored[o] /\ count'[o] = count[o]
             \/ monitored'[o] = monitored[o] \ {fd} /\ count'[o] = count[o]
             \/ /\ fd \in monitored[o] /\ monitored'[o] = monitored[o] \ {fd}
                /\ count'[o] = count[o] - 1
             \/ monitored'[o] = monitored[o] \cup {fd} /\ count'[o] =
                  IF fd \in monitored[o] THEN count[o] ELSE count[o] + 1
      PROVE  Cardinality(monitored'[o]) <= count'[o]
  <2>1. /\ Cardinality(monitored[o] \ {fd}) =
             IF fd \in monitored[o] THEN Cardinality(monitored[o]) - 1
             ELSE Cardinality(monitored[o])
        /\ Cardinality(monitored[o] \cup {fd}) =
             IF fd \in monitored[o] THEN Cardinality(monitored[o])
             ELSE Cardinality(monitored[o]) + 1
    BY <1>1, FS_RemoveElement, FS_AddElement
  <2>2. CASE monitored'[o] = monitored[o] /\ count'[o] = count[o]
    BY <1>2, <1>3, <2>2
  <2>3. CASE monitored'[o] = monitored[o] \ {fd} /\ count'[o] = count[o]
    BY <1>1, <1>2, <1>3, <2>1, <2>3
  <2>4. CASE /\ fd \in monitored[o] /\ monitored'[o] = monitored[o] \ {fd}
             /\ count'[o] = count[o] - 1
    BY <1>1, <1>2, <1>3, <2>1, <2>4
  <2>5. CASE monitored'[o] = monitored[o] \cup {fd} /\ count'[o] =
               IF fd \in monitored[o] THEN count[o] ELSE count[o] + 1
    BY <1>1, <1>2, <1>3, <2>1, <2>5
  <2> QED BY <1>3, <2>2, <2>3, <2>4, <2>5
<1>4. CASE UNCHANGED tables
  BY <1>3, <1>4
<1>5. ASSUME NEW p \in EndPoints, RegisterEndPoint(p) PROVE mode = "select" /\
        UNCHANGED <<monitored, count>>
  BY <1>5 DEF RegisterEndPoint
<1>6. ASSUME NEW p \in EndPoints, NEW q \in Opers, RegisterHandler(p, q)
      PROVE  Cardinality(monitored'[o]) <= count'[o]
  <2>1. SetFor(q) \in AllOpers
    BY DEF SetFor, AllOpers
  <2>2. /\ monitored' = [monitored EXCEPT ![SetFor(q)] = @ \cup {sock[p]}]
        /\ count' = [count EXCEPT ![SetFor(q)] =
                        IF sock[p] \in monitored[SetFor(q)] THEN @ ELSE @ + 1]
        /\ mode = "select"
    BY <1>6 DEF RegisterHandler, Monitor
  <2>3. CASE o = SetFor(q)
    BY <1>3, <2>1, <2>2, <2>3 DEF TablesTyped
  <2>4. CASE o # SetFor(q)
    BY <1>3, <2>1, <2>2, <2>4 DEF TablesTyped
  <2> QED BY <2>3, <2>4
<1>7. ASSUME NEW p \in EndPoints, NEW q \in Opers, UnregisterHandler(p, q)
      PROVE  Cardinality(monitored'[o]) <= count'[o]
  <2>1. /\ \/ UNCHANGED <<monitored, count>>
           \/ /\ monitored' = [monitored EXCEPT ![q] = @ \ {sock[p]}]
              /\ count' = [count EXCEPT ![q] = @ - 1]
              /\ q \in Flags(sock[p])
        /\ mode = "select"
    BY <1>7 DEF UnregisterHandler, Clears
  <2>2. q \in AllOpers /\ (q \in Flags(sock[p]) => sock[p] \in monitored[q])
    BY DEF Flags
  <2>3. CASE UNCHANGED <<monitored, count>>
    BY <1>3, <2>1, <2>3
  <2>4. CASE /\ monitored' = [monitored EXCEPT ![q] = @ \ {sock[p]}]
             /\ count' = [count EXCEPT ![q] = @ - 1]
             /\ q \in Flags(sock[p])
    <3>1. CASE o = q
      BY <1>3, <2>1, <2>2, <2>4, <3>1 DEF TablesTyped
    <3>2. CASE o # q
      BY <1>3, <2>1, <2>4, <3>2 DEF TablesTyped
    <3> QED BY <3>1, <3>2
  <2> QED BY <2>1, <2>3, <2>4
<1>8. ASSUME NEW p \in EndPoints, Discard(p), UNCHANGED mode
      PROVE  Cardinality(monitored'[o]) <= count'[o]
  <2>1. /\ monitored'[o] = IF Clears(sock[p], o) THEN monitored[o] \ {sock[p]} ELSE monitored[o]
        /\ count'[o] = IF Clears(sock[p], o) THEN count[o] - 1 ELSE count[o]
        /\ mode = "select"
    BY <1>8 DEF Discard, Forget
  <2>2. Clears(sock[p], o) => sock[p] \in monitored[o]
    BY DEF Clears, Flags
  <2> QED BY <1>3, <2>1, <2>2
<1>9. ASSUME NEW p \in EndPoints, Shut(p) \/ \E k \in Keys : Accept(k, p)
      PROVE  mode = "select" /\ UNCHANGED <<monitored, count>>
  BY <1>9 DEF Shut, Accept, Dispatch
<1>10. ASSUME NEW fd \in Fds, Removal(fd)
       PROVE  Cardinality(monitored'[o]) <= count'[o]
  <2>1. mode = "select"
    BY <1>10 DEF Removal
  <2>2. CASE endpoints[fd] # None /\ Discard(endpoints[fd])
    <3>1. endpoints[fd] \in EndPoints
      BY <2>2 DEF TablesTyped
    <3> QED BY <1>8, <1>10, <2>2, <3>1 DEF Removal
  <2>3. CASE UNCHANGED count /\ monitored' = [q \in AllOpers |-> monitored[q] \ {fd}]
    BY <1>3, <2>1, <2>3
  <2> QED BY <1>10, <2>1, <2>2, <2>3 DEF Removal, RemoveEndPoint
<1>11. CASE Finish
  BY <1>11 DEF Finish
<1> QED
  BY <1>3, <1>4, <1>5, <1>6, <1>7, <1>8, <1>9, <1>10, <1>11 DEF Effect, Drop
-----------------------------------------------------------------------------
HandledAt(fd) ==
  /\ interest[fd] \subseteq Flags(fd)
  /\ mode = "select" => interest[fd] = {}
  /\ mode = "select" \/ interest[fd] # {} =>
       \A o \in Flags(fd) : handlers[fd][o] # None

(* What the kernel watches for still has a handler after every step.       *)
LEMMA KeepsHandled ==
  ASSUME TablesTyped, Handled, Effect, "write" \notin Opers
  PROVE  Handled'
<1> SUFFICES ASSUME NEW g \in Fds PROVE HandledAt(g)'
  BY DEF Handled, HandledAt
<1>1. HandledAt(g)
  BY DEF Handled, HandledAt
<1> USE DEF tables, tableVars, flagVars
<1>2. CASE UNCHANGED <<mode, handlers, monitored>> /\ interest'[g] \in {interest[g], {}}
  BY <1>1, <1>2 DEF HandledAt, Flags
<1>3. CASE UNCHANGED mode /\ mode = "epoll" /\ interest'[g] = {}
  BY <1>3 DEF HandledAt
<1>4. CASE UNCHANGED mode /\ interest'[g] = {} /\ \A o \in AllOpers : g \notin monitored'[o]
  BY <1>4 DEF HandledAt, Flags
<1>5. ASSUME UNCHANGED mode, interest'[g] = interest[g], handlers'[g] = handlers[g],
             \A o \in AllOpers : g \in monitored'[o] <=> g \in monitored[o]
      PROVE  HandledAt(g)'
  BY <1>1, <1>5 DEF HandledAt, Flags
<1>6. ASSUME NEW p \in EndPoints, NEW o \in Opers, RegisterHandler(p, o)
      PROVE  HandledAt(g)'
  <2>1. o \in AllOpers /\ SetFor(o) = o
    BY DEF SetFor
  <2>2. /\ sock[p] \in Fds /\ UNCHANGED mode
        /\ handlers' = [handlers EXCEPT ![sock[p]][o] = p]
        /\ monitored' = [monitored EXCEPT ![o] = @ \cup {sock[p]}]
    BY <1>6, <2>1 DEF RegisterHandler, Monitor, HasEntry, TablesTyped
  <2>3. \/ /\ mode = "epoll" /\ o \notin Flags(sock[p]) /\ Agrees(sock[p])
           /\ interest' = [interest EXCEPT ![sock[p]] = Flags(sock[p]) \cup {o}]
        \/ /\ mode # "epoll" \/ o \in Flags(sock[p])
           /\ UNCHANGED interest
    BY <1>6, <2>1 DEF RegisterHandler, Monitor, Flags
  <2>4. CASE sock[p] # g
    <3>1. /\ interest'[g] = interest[g] /\ handlers'[g] = handlers[g]
          /\ \A a \in AllOpers : g \in monitored'[a] <=> g \in monitored[a]
      BY <2>1, <2>2, <2>3, <2>4 DEF TablesTyped
    <3> QED BY <1>5, <2>2, <3>1
  <2>5. CASE sock[p] = g
    <3>1. Flags(g)' = Flags(g) \cup {o}
      BY <2>1, <2>2, <2>5 DEF Flags, TablesTyped
    <3>2. \A a \in AllOpers : handlers'[g][a] = IF a = o THEN p ELSE handlers[g][a]
      BY <2>1, <2>2, <2>5 DEF TablesTyped
    <3>3. p # None
      OBVIOUS
    <3>4. \/ /\ mode = "epoll" /\ (Flags(g) = {}) = (interest[g] = {})
             /\ interest'[g] = Flags(g) \cup {o}
          \/ /\ mode # "epoll" \/ o \in Flags(g)
             /\ interest'[g] = interest[g]
      BY <2>2, <2>3, <2>5 DEF TablesTyped, Agrees
    <3>5. Flags(g) \subseteq AllOpers /\ mode \in {"select", "epoll"}
      BY DEF Flags, TablesTyped
    <3> QED BY <1>1, <2>2, <3>1, <3>2, <3>3, <3>4, <3>5 DEF HandledAt
  <2> QED BY <2>4, <2>5
<1>7. ASSUME NEW p \in EndPoints, NEW o \in Opers, UnregisterHandler(p, o)
      PROVE  HandledAt(g)'
  <2>1. o \in AllOpers /\ sock[p] \in Fds
    BY <1>7 DEF UnregisterHandler, TablesTyped
  <2>2. /\ handlers' = [handlers EXCEPT ![sock[p]][o] = None]
        /\ UNCHANGED mode
        /\ \/ /\ Clears(sock[p], o)
              /\ monitored' = [monitored EXCEPT ![o] = @ \ {sock[p]}]
              /\ interest' = [interest EXCEPT ![sock[p]] =
                                IF mode = "epoll" THEN Flags(sock[p]) \ {o} ELSE @]
           \/ ~ Clears(sock[p], o) /\ UNCHANGED <<monitored, interest>>
    BY <1>7 DEF UnregisterHandler
  <2>3. CASE sock[p] # g
    <3>1. /\ interest'[g] = interest[g] /\ handlers'[g] = handlers[g]
          /\ \A a \in AllOpers : g \in monitored'[a] <=> g \in monitored[a]
      BY <2>1, <2>2, <2>3 DEF TablesTyped
    <3> QED BY <1>5, <2>2, <3>1
  <2>4. CASE sock[p] = g
    <3>1. \A a \in AllOpers : a # o => handlers'[g][a] = handlers[g][a]
      BY <2>1, <2>2, <2>4 DEF TablesTyped
    <3>2. \/ /\ Clears(g, o) /\ Flags(g)' = Flags(g) \ {o}
             /\ interest'[g] = IF mode = "epoll" THEN Flags(g) \ {o} ELSE interest[g]
          \/ /\ ~ Clears(g, o) /\ Flags(g)' = Flags(g) /\ interest'[g] = interest[g]
      <4>1. CASE Clears(sock[p], o)
        <5>1. Flags(g)' = Flags(g) \ {o}
          BY <2>1, <2>2, <2>4, <4>1 DEF Flags, TablesTyped
        <5>2. interest'[g] = IF mode = "epoll" THEN Flags(g) \ {o} ELSE interest[g]
          BY <2>1, <2>2, <2>4, <4>1 DEF TablesTyped
        <5> QED BY <2>4, <4>1, <5>1, <5>2
      <4>2. CASE ~ Clears(sock[p], o)
        BY <2>2, <2>4, <4>2 DEF Flags
      <4> QED BY <4>1, <4>2
    <3>3. Flags(g) \subseteq AllOpers /\ mode \in {"select", "epoll"}
      BY DEF Flags, TablesTyped
    <3> QED BY <1>1, <2>2, <3>1, <3>2, <3>3 DEF HandledAt, Clears
  <2> QED BY <2>3, <2>4
<1>8. ASSUME NEW p \in EndPoints, Drop(p) PROVE HandledAt(g)'
  <2>1. /\ UNCHANGED mode
        /\ g # sock[p] => /\ interest'[g] = interest[g] /\ handlers'[g] = handlers[g]
                          /\ \A o \in AllOpers : g \in monitored'[o] <=> g \in monitored[o]
        /\ g = sock[p] => interest'[g] = {}
        /\ g = sock[p] /\ mode = "select" => \A o \in AllOpers : g \notin monitored'[o]
    BY <1>8 DEF Drop, Discard, Forget, Clears, Flags, TablesTyped
  <2> QED BY <1>3, <1>4, <1>5, <2>1 DEF TablesTyped
<1>9. ASSUME NEW p \in EndPoints, Shut(p) PROVE HandledAt(g)'
  BY <1>2, <1>9 DEF Shut, TablesTyped
<1>10. ASSUME NEW fd \in Fds, Removal(fd) PROVE HandledAt(g)'
  <2>1. CASE mode = "select" /\ endpoints[fd] # None /\ Discard(endpoints[fd])
               /\ sock[endpoints[fd]] # Closed
    <3>1. endpoints[fd] \in EndPoints
      BY <2>1 DEF TablesTyped
    <3> QED BY <1>8, <1>10, <2>1, <3>1 DEF Drop, Removal
  <2>2. CASE mode = "select" /\ UNCHANGED <<interest, handlers>>
             /\ monitored' = [o \in AllOpers |-> monitored[o] \ {fd}]
    <3>1. interest[g] = {} /\ UNCHANGED mode
      BY <1>1, <1>10, <2>2 DEF HandledAt, Removal
    <3>2. g = fd => \A o \in AllOpers : g \notin monitored'[o]
      BY <2>2
    <3>3. g # fd => \A o \in AllOpers : g \in monitored'[o] <=> g \in monitored[o]
      BY <2>2
    <3> QED BY <1>4, <1>5, <2>2, <3>1, <3>2, <3>3
  <2>3. CASE mode = "epoll"
    <3>1. /\ UNCHANGED mode
          /\ interest' = [interest EXCEPT ![fd] = {}]
          /\ monitored' = [o \in AllOpers |-> monitored[o] \ {fd}]
          /\ \/ UNCHANGED handlers
             \/ handlers' = [handlers EXCEPT ![fd] = [o \in AllOpers |-> None]]
      BY <1>10, <2>3 DEF Removal, RemoveEndPoint
    <3>2. CASE g = fd
      BY <1>3, <2>3, <3>1, <3>2 DEF TablesTyped
    <3>3. CASE g # fd
      BY <1>5, <3>1, <3>3 DEF TablesTyped
    <3> QED BY <3>2, <3>3
  <2> QED BY <1>10, <2>1, <2>2, <2>3 DEF Removal, RemoveEndPoint
<1>11. CASE Finish
  BY <1>11 DEF Finish, HandledAt
<1>12. ASSUME NEW p \in EndPoints, RegisterEndPoint(p) \/ \E k \in Keys : Accept(k, p)
       PROVE  UNCHANGED <<mode, handlers, monitored, interest>>
  BY <1>12 DEF RegisterEndPoint, Accept, Dispatch
<1> QED
  BY <1>2, <1>6, <1>7, <1>8, <1>9, <1>10, <1>11, <1>12 DEF Effect
-----------------------------------------------------------------------------
(* The invariant of all programs holds at the start.                       *)
LEMMA InitBase == Init => Base
<1> SUFFICES ASSUME Init PROVE Base
  OBVIOUS
<1> USE DEF Init
<1>1. Typed
  <2>1. timers \in Seq(Entry) /\ due \in 0 .. Len(timers)
    OBVIOUS
  <2> QED BY <2>1 DEF Typed
<1>2. OneOwner
  <2>1. \A p, q \in EndPoints : sock[p] # Closed /\ sock[p] = sock[q] => p = q
    OBVIOUS
  <2> QED BY <2>1 DEF OneOwner
<1>3. Counted
  BY FS_EmptySet DEF Counted
<1>4. Handled
  BY DEF Handled, Flags
<1> QED BY <1>1, <1>2, <1>3, <1>4 DEF Base

(* The invariant of all programs is inductive.                             *)
LEMMA StepBase == Base /\ [Next]_vars => Base'
<1> SUFFICES ASSUME Base, [Next]_vars PROVE Base'
  OBVIOUS
<1>1. Typed /\ OneOwner /\ Counted /\ ("write" \notin Opers => Handled)
  BY DEF Base
<1>2. Effect /\ TablesTyped
  BY <1>1, Kinds DEF Typed, TablesTyped
<1>3. Typed'
  BY <1>1, KeepsType
<1>4. OneOwner'
  BY <1>1, KeepsOwner
<1>5. Counted'
  BY <1>1, <1>2, KeepsCounted
<1>6. "write" \notin Opers => Handled'
  BY <1>1, <1>2, KeepsHandled
<1> QED BY <1>3, <1>4, <1>5, <1>6 DEF Base

(* Whatever the handlers do, the tables have their types, a descriptor has *)
(* one owner, and connections, counters and sets keep together.            *)
THEOREM BaseHolds == Spec => []Base
<1> QED BY InitBase, StepBase, PTL DEF Spec

(* Between two rounds of the loops of IterativeReactor.cpp no connection   *)
(* is open and forgotten.                                                  *)
THEOREM NoneForgotten == Spec => []OpenIsRegistered
<1>1. Base => OpenIsRegistered
  BY DEF Base, OneOwner, OpenIsRegistered
<1> QED BY <1>1, BaseHolds, PTL

(* nreaders_ and its siblings are not 0 while their sets have members.     *)
THEOREM SetsArePassed == Spec => []NothingUnwatched
<1>1. Base => NothingUnwatched
  <2> SUFFICES ASSUME Base, mode = "select", NEW o \in AllOpers, monitored[o] # {}
               PROVE  count[o] > 0
    BY DEF NothingUnwatched
  <2>1. IsFiniteSet(monitored[o])
    <3>1. IsFiniteSet(Fds)
      BY FS_Interval DEF Fds
    <3> QED BY <3>1, FS_Subset DEF Base, Typed
  <2>2. Cardinality(monitored[o]) \in Nat /\ Cardinality(monitored[o]) # 0
    BY <2>1, FS_EmptySet, FS_CardinalityType
  <2>3. Cardinality(monitored[o]) <= count[o] /\ count[o] \in Int
    BY DEF Base, Counted, Typed
  <2> QED BY <2>2, <2>3
<1> QED BY <1>1, BaseHolds, PTL

(* What is waited for has a handler, if no write handler is registered,    *)
(* whatever else the handlers do.                                          *)
THEOREM EventsHaveHandlers ==
  ASSUME "write" \notin Opers
  PROVE  Spec => []MonitoredHandled
<1>1. Base => MonitoredHandled
  BY DEF Base, Typed, Handled, MonitoredHandled, Watched, Flags
<1> QED BY <1>1, BaseHolds, PTL
-----------------------------------------------------------------------------
AgreedAt(fd) ==
  /\ endpoints[fd] # None => sock[endpoints[fd]] = fd
  /\ \A o \in AllOpers :
       /\ handlers[fd][o] # None => handlers[fd][o] = endpoints[fd]
       /\ handlers[fd][o] # None => fd \in monitored[o]
  /\ mode = "epoll" => interest[fd] = Flags(fd)

(* After finish the reactor does nothing any more.                         *)
LEMMA Finishes ==
  ASSUME [Next]_vars, pc = "finished"
  PROVE  UNCHANGED vars
<1>1. ~ ProgramStep
  BY DEF ProgramStep, InProgram, InHandler, RegisterEndPoint, RemoveOther,
         RegisterHandler, UnregisterHandler, ScheduleTimer, CancelTimer,
         CloseOwn, CloseClient, SetDone
<1>2. ~ LoopStep
  BY DEF LoopStep, Start, StopLoop, SkipCanceled, CallSelect, SelectInterrupted,
         SelectFails, SelectReady, SelectTimesOut, LeaveIO, NoHandler, CallHandler,
         AcceptRetry, AcceptFails, Accept, Dispatch, HandlerReturns, LeaveTimeouts,
         SkipDueTimer, CallTimer, TimerReturns, Finish
<1> QED BY <1>1, <1>2 DEF Next

(* For a modest program the tables go on telling of the same end points.   *)
LEMMA KeepsAgreed ==
  ASSUME Typed, OneOwner, Handled, Agreed, Modest, [Next]_vars
  PROVE  Agreed'
<1> SUFFICES ASSUME pc' # "finished", NEW g \in Fds PROVE AgreedAt(g)'
  BY DEF Agreed, AgreedAt
<1> USE DEF tables, tableVars, flagVars
<1>1. CASE UNCHANGED vars
  BY <1>1 DEF vars, Agreed, AgreedAt, Flags
<1>2. CASE ~ UNCHANGED vars
  <2>1. \A fd \in Fds : AgreedAt(fd)
    BY <1>2, Finishes DEF Agreed, AgreedAt
  <2>2. Effect /\ TablesTyped
    BY Kinds DEF Typed, TablesTyped
  <2>3. HandledAt(g)
    BY DEF Handled, HandledAt
  <2>4. \A p \in EndPoints, fd \in Fds : sock[p] = fd => endpoints[fd] \in {p, None}
    BY <2>1, <2>2 DEF AgreedAt, OneOwner, TablesTyped, Fds, Closed
  <2>5. \A fd \in Fds : fd # Closed
    BY DEF Fds, Closed
  <2>6. CASE UNCHANGED tables
    BY <2>1, <2>6 DEF AgreedAt, Flags
  <2>7. ASSUME NEW p \in EndPoints, RegisterEndPoint(p) PROVE AgreedAt(g)'
    <3>1. /\ UNCHANGED <<sock, mode, handlers, monitored, interest>>
          /\ endpoints' = [endpoints EXCEPT ![sock[p]] = p]
          /\ endpoints[sock[p]] = None
      BY <2>7 DEF RegisterEndPoint
    <3> QED BY <2>1, <2>2, <3>1 DEF AgreedAt, Flags, TablesTyped
  <2>8. ASSUME NEW p \in EndPoints, NEW o \in Opers, RegisterHandler(p, o)
        PROVE  AgreedAt(g)'
    <3>1. o \in AllOpers /\ SetFor(o) = o
      BY DEF SetFor, Modest
    <3>2. /\ sock[p] \in Fds /\ UNCHANGED <<mode, sock, endpoints>>
          /\ endpoints[sock[p]] = p
          /\ handlers' = [handlers EXCEPT ![sock[p]][o] = p]
          /\ monitored' = [monitored EXCEPT ![o] = @ \cup {sock[p]}]
      BY <2>2, <2>4, <2>8, <3>1 DEF RegisterHandler, Monitor, HasEntry, TablesTyped
    <3>3. \/ /\ mode = "epoll" /\ o \notin Flags(sock[p])
             /\ interest' = [interest EXCEPT ![sock[p]] = Flags(sock[p]) \cup {o}]
          \/ /\ mode # "epoll" \/ o \in Flags(sock[p])
             /\ UNCHANGED interest
      BY <2>8, <3>1 DEF RegisterHandler, Monitor, Flags
    <3>4. /\ \A a \in AllOpers : handlers'[g][a] =
               IF g = sock[p] /\ a = o THEN p ELSE handlers[g][a]
          /\ Flags(g)' = IF g = sock[p] THEN Flags(g) \cup {o} ELSE Flags(g)
      <4>1. \A a \in AllOpers : handlers'[g][a] =
               IF g = sock[p] /\ a = o THEN p ELSE handlers[g][a]
        BY <2>2, <3>1, <3>2 DEF TablesTyped
      <4>2. CASE g = sock[p]
        BY <2>2, <3>1, <3>2, <4>1, <4>2 DEF TablesTyped, Flags
      <4>3. CASE g # sock[p]
        BY <2>2, <3>1, <3>2, <4>1, <4>3 DEF TablesTyped, Flags
      <4> QED BY <4>2, <4>3
    <3>5. mode = "epoll" => interest'[g] = Flags(g)'
      <4>1. CASE g = sock[p] /\ mode = "epoll"
        <5>1. interest'[g] = Flags(g) \cup {o}
          BY <2>1, <2>2, <3>2, <3>3, <4>1 DEF AgreedAt, TablesTyped
        <5> QED BY <3>4, <4>1, <5>1
      <4>2. CASE g # sock[p] /\ mode = "epoll"
        BY <2>1, <2>2, <3>2, <3>3, <3>4, <4>2 DEF AgreedAt, TablesTyped
      <4> QED BY <4>1, <4>2
    <3>6. \A a \in AllOpers : g \in monitored[a] => g \in monitored'[a]
      BY <2>2, <3>1, <3>2 DEF TablesTyped
    <3>7. g = sock[p] => g \in monitored'[o]
      BY <2>2, <3>1, <3>2 DEF TablesTyped
    <3> QED BY <2>1, <3>2, <3>4, <3>5, <3>6, <3>7 DEF AgreedAt
  <2>9. ASSUME NEW p \in EndPoints, NEW o \in Opers, UnregisterHandler(p, o)
        PROVE  AgreedAt(g)'
    <3>1. o \in AllOpers /\ sock[p] \in Fds
      BY <2>2, <2>9 DEF UnregisterHandler, TablesTyped
    <3>2. Clears(sock[p], o) <=> o \in Flags(sock[p])
      BY <2>1, <3>1 DEF Clears, AgreedAt
    <3>3. /\ UNCHANGED <<mode, sock, endpoints>>
          /\ handlers' = [handlers EXCEPT ![sock[p]][o] = None]
          /\ \/ /\ o \in Flags(sock[p])
                /\ monitored' = [monitored EXCEPT ![o] = @ \ {sock[p]}]
                /\ interest' = [interest EXCEPT ![sock[p]] =
                                  IF mode = "epoll" THEN Flags(sock[p]) \ {o} ELSE @]
             \/ o \notin Flags(sock[p]) /\ UNCHANGED <<monitored, interest>>
      BY <2>9, <3>2 DEF UnregisterHandler
    <3>4. \A a \in AllOpers : handlers'[g][a] =
            IF g = sock[p] /\ a = o THEN None ELSE handlers[g][a]
      BY <2>2, <3>1, <3>3 DEF TablesTyped
    <3>5. CASE g = sock[p]
      <4>1. /\ Flags(g)' = Flags(g) \ {o}
            /\ \A a \in AllOpers : a # o => monitored'[a] = monitored[a]
        BY <2>2, <3>1, <3>3, <3>5 DEF TablesTyped, Flags
      <4>2. mode = "epoll" => interest'[g] = Flags(g) \ {o}
        BY <2>1, <2>2, <3>1, <3>3, <3>5 DEF TablesTyped, AgreedAt
      <4> QED BY <2>1, <3>3, <3>4, <3>5, <4>1, <4>2 DEF AgreedAt
    <3>6. CASE g # sock[p]
      <4>1. interest'[g] = interest[g]
        BY <2>2, <3>1, <3>3, <3>6 DEF TablesTyped
      <4>2. \A a \in AllOpers : g \in monitored[a] <=> g \in monitored'[a]
        BY <2>2, <3>1, <3>3, <3>6 DEF TablesTyped
      <4>3. Flags(g)' = Flags(g)
        BY <4>2 DEF Flags
      <4> QED BY <2>1, <3>3, <3>4, <3>6, <4>1, <4>2, <4>3 DEF AgreedAt
    <3> QED BY <3>5, <3>6
  <2>10. ASSUME NEW p \in EndPoints, Drop(p) PROVE AgreedAt(g)'
    <3>1. /\ sock[p] \in Fds /\ UNCHANGED mode
          /\ sock' = [sock EXCEPT ![p] = Closed]
          /\ endpoints' = [endpoints EXCEPT ![sock[p]] = None]
          /\ handlers' = [handlers EXCEPT ![sock[p]] = [o \in AllOpers |-> None]]
          /\ interest' = [interest EXCEPT ![sock[p]] = {}]
          /\ monitored' = [o \in AllOpers |->
                             IF Clears(sock[p], o) THEN monitored[o] \ {sock[p]}
                             ELSE monitored[o]]
      BY <2>2, <2>10 DEF Drop, Discard, Forget, TablesTyped
    <3>2. CASE g = sock[p]
      <4>1. mode = "epoll" => \A o \in Flags(g) : Clears(g, o)
        BY <2>1 DEF AgreedAt, Clears
      <4>2. mode = "epoll" => Flags(g)' = {}
        BY <3>1, <3>2, <4>1 DEF Flags
      <4> QED BY <2>2, <3>1, <3>2, <4>2 DEF AgreedAt, TablesTyped
    <3>3. CASE g # sock[p]
      <4>1. Flags(g)' = Flags(g) /\ interest'[g] = interest[g]
        BY <2>2, <3>1, <3>3 DEF Flags, TablesTyped
      <4>2. /\ endpoints'[g] = endpoints[g] /\ handlers'[g] = handlers[g]
            /\ \A o \in AllOpers : g \in monitored[o] => g \in monitored'[o]
        BY <2>2, <3>1, <3>3 DEF TablesTyped
      <4>3. endpoints[g] # None => endpoints[g] # p
        BY <2>1, <3>3 DEF AgreedAt
      <4> QED BY <2>1, <2>2, <3>1, <4>1, <4>2, <4>3 DEF AgreedAt, TablesTyped
    <3> QED BY <3>2, <3>3
  <2>11. ASSUME NEW p \in EndPoints, Shut(p) PROVE AgreedAt(g)'
    <3>1. /\ UNCHANGED <<mode, endpoints, handlers, monitored>>
          /\ sock' = [sock EXCEPT ![p] = Closed]
          /\ interest' = [interest EXCEPT ![sock[p]] = {}]
          /\ endpoints[sock[p]] # p
      BY <2>11 DEF Shut, Modest
    <3>2. endpoints[g] # p
      BY <2>1, <3>1 DEF AgreedAt
    <3>3. Flags(g)' = Flags(g)
      BY <3>1 DEF Flags
    <3>4. CASE g = sock[p]
      <4>1. endpoints[g] = None
        BY <2>4, <3>2, <3>4
      <4>2. \A o \in AllOpers : handlers[g][o] = None
        BY <2>1, <4>1 DEF AgreedAt
      <4>3. mode = "epoll" => Flags(g) = {}
        BY <2>1, <2>3, <4>2 DEF AgreedAt, HandledAt, Flags
      <4> QED BY <2>1, <2>2, <3>1, <3>3, <3>4, <4>1, <4>2, <4>3
              DEF AgreedAt, TablesTyped
    <3>5. CASE g # sock[p]
      <4>1. interest'[g] = interest[g]
        BY <2>2, <3>1, <3>5 DEF TablesTyped
      <4> QED BY <2>1, <2>2, <3>1, <3>2, <3>3, <4>1 DEF AgreedAt, TablesTyped
    <3> QED BY <3>4, <3>5
  <2>12. ASSUME NEW p \in EndPoints, NEW k \in Keys, Accept(k, p) PROVE AgreedAt(g)'
    <3>1. PICK fd \in Fds : sock' = [sock EXCEPT ![p] = fd]
      BY <2>12 DEF Accept
    <3>2. UNCHANGED <<mode, endpoints, handlers, monitored, interest>> /\ endpoints[g] # p
      BY <2>12 DEF Accept, Dispatch, Fresh
    <3> QED BY <2>1, <2>2, <3>1, <3>2 DEF AgreedAt, Flags, TablesTyped
  <2>13. ASSUME NEW fd \in Fds, Removal(fd) PROVE AgreedAt(g)'
    <3>1. CASE endpoints[fd] # None
      <4>1. /\ endpoints[fd] \in EndPoints /\ sock[endpoints[fd]] = fd
            /\ sock[endpoints[fd]] # Closed
        BY <2>1, <2>2, <2>5, <3>1 DEF AgreedAt, TablesTyped
      <4>2. CASE mode = "select"
        BY <2>10, <2>13, <3>1, <4>1, <4>2 DEF Removal, RemoveEndPoint, Drop
      <4>3. CASE mode = "epoll"
        <5>1. /\ UNCHANGED mode
              /\ monitored' = [o \in AllOpers |-> monitored[o] \ {fd}]
              /\ interest' = [interest EXCEPT ![fd] = {}]
              /\ handlers' = [handlers EXCEPT ![fd] = [o \in AllOpers |-> None]]
              /\ endpoints' = [endpoints EXCEPT ![fd] = None]
              /\ sock' = [sock EXCEPT ![endpoints[fd]] = Closed]
          BY <2>13, <3>1, <4>1, <4>3 DEF Removal, RemoveEndPoint
        <5>2. Flags(g)' = IF g = fd THEN {} ELSE Flags(g)
          BY <5>1 DEF Flags
        <5>3. CASE g = fd
          BY <2>2, <5>1, <5>2, <5>3 DEF AgreedAt, TablesTyped
        <5>4. CASE g # fd
          <6>1. /\ endpoints'[g] = endpoints[g] /\ handlers'[g] = handlers[g]
                /\ interest'[g] = interest[g]
                /\ \A o \in AllOpers : g \in monitored[o] => g \in monitored'[o]
            BY <2>2, <5>1, <5>4 DEF TablesTyped
          <6>2. endpoints[g] # None => endpoints[g] # endpoints[fd]
            BY <2>1, <4>1, <5>4 DEF AgreedAt
          <6> QED BY <2>1, <2>2, <5>1, <5>2, <5>4, <6>1, <6>2 DEF AgreedAt, TablesTyped
        <5> QED BY <5>3, <5>4
      <4> QED BY <2>2, <4>2, <4>3 DEF TablesTyped
    <3>2. CASE endpoints[fd] = None
      <4>1. /\ UNCHANGED <<mode, sock, endpoints, handlers>>
            /\ monitored' = [o \in AllOpers |-> monitored[o] \ {fd}]
            /\ mode = "epoll" => interest' = [interest EXCEPT ![fd] = {}]
        BY <2>13, <3>2 DEF Removal, RemoveEndPoint
      <4>2. Flags(g)' = IF g = fd THEN {} ELSE Flags(g)
        BY <4>1 DEF Flags
      <4>3. \A o \in AllOpers : g # fd /\ g \in monitored[o] => g \in monitored'[o]
        BY <4>1
      <4>4. g = fd => \A o \in AllOpers : handlers[g][o] = None
        BY <2>1, <3>2 DEF AgreedAt
      <4>5. mode = "epoll" => interest'[g] = IF g = fd THEN {} ELSE interest[g]
        BY <2>2, <4>1 DEF TablesTyped
      <4> QED BY <2>1, <4>1, <4>2, <4>3, <4>4, <4>5 DEF AgreedAt
    <3> QED BY <3>1, <3>2
  <2>14. CASE Finish
    BY <2>14 DEF Finish
  <2> QED
    BY <2>2, <2>6, <2>7, <2>8, <2>9, <2>10, <2>11, <2>12, <2>13, <2>14 DEF Effect
<1> QED BY <1>1, <1>2

(* For a modest program what was removed stays closed.                     *)
LEMMA KeepsRemoved ==
  ASSUME Typed, OneOwner, Agreed, RemovedIsClosed, Modest, [Next]_vars
  PROVE  RemovedIsClosed'
<1>1. Effect /\ TablesTyped
  BY Kinds DEF Typed, TablesTyped
<1> USE DEF loopVars, tableVars
<1>2. ASSUME NEW next, DropEndPoint(next)
      PROVE  /\ removed' = removed \cup {running} /\ running \in EndPoints
             /\ sock'[running] = Closed
  BY <1>1, <1>2 DEF DropEndPoint, Discard, RemoveClosed, TablesTyped, Typed
<1>3. CASE ProgramStep
  <2>1. ~ CloseOwn /\ ~ \E p \in EndPoints : RemoveOther(p)
    BY DEF Modest, CloseOwn, RemoveOther
  <2>2. /\ UNCHANGED <<removed, running, pc>>
        /\ \/ UNCHANGED <<sock, client>>
           \/ /\ sock' = [sock EXCEPT ![client] = Closed] /\ client' = None
              /\ pc = "handler"
    BY <1>3, <2>1
       DEF ProgramStep, RegisterEndPoint, RegisterHandler, UnregisterHandler,
           ScheduleTimer, CancelTimer, CloseClient, SetDone
  <2> QED BY <1>1, <2>2 DEF RemovedIsClosed, TablesTyped, Typed
<1>4. CASE HandlerReturns \/ TimerReturns
  <2>1. pc' \notin {"handler", "timerhandler"}
    BY <1>4 DEF HandlerReturns, TimerReturns, KeepEndPoint, DropEndPoint,
                RemoveClosed, MayAbort
  <2>2. CASE UNCHANGED <<sock, removed>>
    BY <2>1, <2>2 DEF RemovedIsClosed
  <2>3. ASSUME NEW next, DropEndPoint(next) PROVE RemovedIsClosed'
    <3>1. \A q \in EndPoints : sock[q] = Closed => sock'[q] = Closed
      BY <1>1, <2>3 DEF DropEndPoint, Discard, RemoveClosed, TablesTyped
    <3> QED BY <1>2, <2>1, <2>3, <3>1 DEF RemovedIsClosed
  <2> QED BY <1>4, <2>2, <2>3 DEF HandlerReturns, TimerReturns, KeepEndPoint
<1>5. ASSUME NEW k \in ready PROVE k \in Keys /\ k[1] \in Fds /\ k[2] \in AllOpers
  BY DEF Typed, Keys
<1>6. ASSUME NEW k \in ready, HandlerOf(k) # None, pc = "io"
      PROVE  HandlerOf(k) \in EndPoints /\ sock[HandlerOf(k)] = k[1] /\ k[1] # Closed
  BY <1>1, <1>5, <1>6 DEF Agreed, HandlerOf, TablesTyped, Fds, Closed
<1>7. ASSUME NEW k \in ready, AcceptFails(k) PROVE RemovedIsClosed'
  <2>1. /\ removed' = removed \cup {HandlerOf(k)} /\ HandlerOf(k) \in EndPoints
        /\ sock' = [sock EXCEPT ![HandlerOf(k)] = Closed]
        /\ pc' = "io"
    BY <1>6, <1>7 DEF AcceptFails, Dispatch, Discard
  <2> QED BY <1>1, <2>1 DEF RemovedIsClosed, TablesTyped
<1>8. ASSUME NEW k \in ready, NEW p \in EndPoints, Accept(k, p) PROVE RemovedIsClosed'
  <2>1. PICK fd \in Fds : sock' = [sock EXCEPT ![p] = fd]
    BY <1>8 DEF Accept
  <2>2. /\ removed' = removed \ {p} /\ pc' = "handler" /\ client' = p
        /\ running' = HandlerOf(k) /\ sock[running'] # Closed /\ p \notin Listeners
        /\ running' \in Listeners
    BY <1>8 DEF Accept, IsAccept, Fresh
  <2> QED BY <1>1, <2>1, <2>2 DEF RemovedIsClosed, TablesTyped
<1>9. ASSUME NEW k \in ready, CallHandler(k) PROVE RemovedIsClosed'
  <2>1. /\ UNCHANGED <<removed, sock, client>> /\ pc' = "handler"
        /\ running' = HandlerOf(k) /\ HandlerOf(k) # None /\ pc = "io"
    BY <1>9 DEF CallHandler, Dispatch
  <2>2. client = None
    BY <2>1 DEF OneOwner
  <2> QED BY <1>6, <2>1, <2>2 DEF RemovedIsClosed
<1>10. ASSUME NEW k \in ready, NoHandler(k) PROVE RemovedIsClosed'
  <2>1. /\ UNCHANGED removed /\ pc' \in {"io", "aborted"}
    BY <1>10 DEF NoHandler, Dispatch, RemoveEndPoint, MayAbort
  <2>2. \A q \in EndPoints : sock[q] = Closed => sock'[q] = Closed
    BY <1>1, <1>10 DEF NoHandler, RemoveEndPoint, Discard, TablesTyped
  <2> QED BY <2>1, <2>2 DEF RemovedIsClosed
<1>11. CASE CallTimer
  <2>1. Head(timers).ep \in TimerEndPoints
    <3>1. Head(timers) \in Entry
      BY <1>11 DEF CallTimer, Typed
    <3> QED BY <3>1 DEF Entry
  <2> QED BY <1>11, <2>1 DEF CallTimer, RunTimerHandler, RemovedIsClosed
<1>12. CASE \/ Start \/ StopLoop \/ SkipCanceled \/ CallSelect \/ SelectInterrupted
            \/ SelectFails \/ SelectReady \/ SelectTimesOut \/ LeaveIO
            \/ LeaveTimeouts \/ SkipDueTimer
            \/ \E k \in ready : AcceptRetry(k)
  <2>1. UNCHANGED <<removed, sock>> /\ pc' \notin {"handler", "timerhandler"}
    BY <1>12 DEF Start, StopLoop, SkipCanceled, CallSelect, SelectInterrupted,
         SelectFails, SelectReady, SelectTimesOut, LeaveIO, LeaveTimeouts,
         SkipDueTimer, AcceptRetry, Dispatch
  <2> QED BY <2>1 DEF RemovedIsClosed
<1>13. CASE Finish
  BY <1>1, <1>13 DEF Finish, RemovedIsClosed, TablesTyped
<1>14. CASE UNCHANGED vars
  BY <1>14 DEF vars, RemovedIsClosed
<1> QED
  BY <1>3, <1>4, <1>7, <1>8, <1>9, <1>10, <1>11, <1>12, <1>13, <1>14
     DEF Next, LoopStep

(* The invariant of modest programs holds at the start.                    *)
LEMMA InitStrict == Init => Strict
  BY DEF Init, Strict, Agreed, RemovedIsClosed, Flags

(* The invariant of modest programs is inductive.                          *)
LEMMA StepStrict == Modest /\ Base /\ Strict /\ [Next]_vars => Strict'
  BY KeepsAgreed, KeepsRemoved DEF Base, Strict, Modest

(* For a program that takes no liberties and has no write handlers the     *)
(* tables tell of the same, open end points.                               *)
THEOREM StrictHolds ==
  ASSUME Modest
  PROVE  Spec => []Strict
<1> QED BY InitBase, StepBase, InitStrict, StepStrict, PTL DEF Spec

(* A handler is watched for: its descriptor is in the set of its operation *)
(* and the set is passed to select, or the kernel has the bit.             *)
THEOREM HandlersAreWatched ==
  ASSUME Modest
  PROVE  Spec => []HandlersMonitored
<1>1. Base /\ NothingUnwatched /\ Strict => HandlersMonitored
  <2> SUFFICES ASSUME Base, NothingUnwatched, Strict, pc # "finished",
                      NEW k \in Keys, HandlerOf(k) # None
               PROVE  k[1] \in Watched(k[2])
    BY DEF HandlersMonitored
  <2>1. k[1] \in Fds /\ k[2] \in AllOpers
    BY DEF Keys
  <2>2. k[1] \in monitored[k[2]] /\ (mode = "epoll" => interest[k[1]] = Flags(k[1]))
    BY <2>1 DEF Strict, Agreed, HandlerOf
  <2>3. mode \in {"select", "epoll"} /\ count[k[2]] \in Int
    BY <2>1 DEF Base, Typed
  <2> QED BY <2>1, <2>2, <2>3 DEF NothingUnwatched, Watched, Flags
<1> QED BY <1>1, BaseHolds, SetsArePassed, StrictHolds, PTL

(* No event reaches a former owner of a descriptor, and none is waited for *)
(* that is closed.                                                         *)
THEOREM HandlersOwnSockets ==
  ASSUME Modest
  PROVE  Spec => []HandlerOwnsSocket
<1>1. Base /\ Strict => HandlerOwnsSocket
  <2> SUFFICES ASSUME Base, Strict, pc # "finished" PROVE HandlerOwnsSocket
    BY DEF HandlerOwnsSocket
  <2>1. ASSUME NEW fd \in Fds, NEW o \in AllOpers, handlers[fd][o] # None
        PROVE  /\ endpoints[fd] = handlers[fd][o] /\ sock[handlers[fd][o]] = fd
               /\ handlers[fd][o] \in EndPoints
    BY <2>1 DEF Base, Typed, Strict, Agreed
  <2>2. ASSUME NEW o \in AllOpers, NEW fd \in monitored[o]
        PROVE  fd \in Fds /\ handlers[fd][o] # None
    <3>1. fd \in Fds /\ o \in Flags(fd) /\ mode \in {"select", "epoll"}
      BY <2>2 DEF Base, Typed, Flags
    <3>2. Handled
      BY DEF Base, Modest
    <3>3. mode = "epoll" => interest[fd] = Flags(fd)
      BY <3>1 DEF Strict, Agreed
    <3> HIDE DEF Flags
    <3>4. mode = "select" \/ interest[fd] # {}
      BY <3>1, <3>3
    <3> QED BY <3>1, <3>2, <3>4 DEF Handled
  <2>3. \A o \in AllOpers : monitored[o] \subseteq Open
    BY <2>1, <2>2 DEF Open, Fds, Closed
  <2> QED BY <2>1, <2>3 DEF HandlerOwnsSocket, HandlerOf, Keys
<1> QED BY <1>1, BaseHolds, StrictHolds, PTL

(* If besides timers are scheduled without an end point, no handler is     *)
(* called for an end point that was removed.                               *)
THEOREM RemovedStaysQuiet ==
  ASSUME Modest, TimerEndPoints \subseteq {None}
  PROVE  Spec => []RemovedIsQuiet
<1>1. Strict => RemovedIsQuiet
  BY DEF Strict, RemovedIsClosed, RemovedIsQuiet, InHandler
<1> QED BY <1>1, StrictHolds, PTL
-----------------------------------------------------------------------------
(* What the steps do to the timers.  The entries of the queue that are     *)
(* still waiting after a step are new or were waiting before it.           *)
TimerEffect ==
  \/ UNCHANGED timerVars /\ (pc' = "timerhandler" <=> pc = "timerhandler")
  \/ \E t \in Tags, p \in TimerEndPoints : ScheduleTimer(t, p) \/ CancelTimer(t, p)
  \/ DropCanceled /\ pc # "timerhandler" /\ pc' # "timerhandler"
  \/ CallTimer \/ TimerReturns

(* Every step has one of the effects on the timers that TimerEffect lists. *)
LEMMA TimerKinds ==
  ASSUME [Next]_vars
  PROVE  TimerEffect
<1> USE DEF timerVars, flagVars, loopVars, TimerEffect
<1>1. CASE ProgramStep
  BY <1>1 DEF ProgramStep, RegisterEndPoint, RemoveOther, RegisterHandler,
       UnregisterHandler, CloseOwn, CloseClient, SetDone
<1>2. CASE \/ Start \/ StopLoop \/ CallSelect \/ SelectInterrupted \/ SelectFails
           \/ SelectReady \/ SelectTimesOut \/ LeaveIO \/ LeaveTimeouts \/ Finish
  BY <1>2 DEF Start, StopLoop, CallSelect, SelectInterrupted, SelectFails,
       SelectReady, SelectTimesOut, LeaveIO, LeaveTimeouts, Finish
<1>3. CASE SkipCanceled \/ SkipDueTimer
  BY <1>3 DEF SkipCanceled, SkipDueTimer
<1>4. CASE HandlerReturns
  BY <1>4 DEF HandlerReturns, KeepEndPoint, DropEndPoint, RemoveClosed, MayAbort
<1>5. ASSUME NEW k \in ready,
             \/ NoHandler(k) \/ CallHandler(k) \/ AcceptRetry(k) \/ AcceptFails(k)
             \/ \E p \in EndPoints : Accept(k, p)
      PROVE  TimerEffect
  <2>1. UNCHANGED timerVars /\ pc = "io"
    BY <1>5 DEF NoHandler, CallHandler, AcceptRetry, AcceptFails, Accept, Dispatch
  <2>2. pc' \in {"io", "handler", "aborted"}
    BY <1>5, <2>1 DEF NoHandler, CallHandler, AcceptRetry, AcceptFails, Accept,
         RemoveEndPoint, RemoveClosed, MayAbort
  <2> QED BY <2>1, <2>2
<1>6. CASE UNCHANGED vars
  BY <1>6 DEF vars
<1> QED BY <1>1, <1>2, <1>3, <1>4, <1>5, <1>6 DEF Next, LoopStep

(* What scheduling a timer does to the queue.                              *)
LEMMA Scheduled ==
  ASSUME Typed, NEW t \in Tags, NEW p \in TimerEndPoints, ScheduleTimer(t, p)
  PROVE  \E x \in 1 .. Len(timers) + 1 :
           /\ Len(timers') = Len(timers) + 1
           /\ timers'[x].tag = t /\ ~ Leaving(x)'
           /\ \A j \in 1 .. Len(timers) + 1 :
                /\ j < x => timers'[j] = timers[j] /\ (Leaving(j)' <=> Leaving(j))
                /\ j > x => timers'[j] = timers[j - 1] /\ (Leaving(j)' <=> Leaving(j - 1))
<1> DEFINE e == [tag |-> t, ep |-> p]
<1>1. PICK x \in Slots(timers) : timers' = InsertAt(timers, x, e)
  BY DEF ScheduleTimer
<1>2. timers \in Seq(Entry) /\ due \in Nat /\ due <= Len(timers) /\ e \in Entry
  BY DEF Typed, Entry
<1>3. x \in 1 .. Len(timers) + 1 /\ due < x
  BY <1>1, <1>2 DEF Slots
<1>4. /\ Len(timers') = Len(timers) + 1
      /\ \A j \in 1 .. Len(timers) + 1 :
           timers'[j] = IF j < x THEN timers[j] ELSE IF j = x THEN e ELSE timers[j - 1]
  BY <1>1, <1>2, <1>3, Inserted
<1>5. pc' = pc /\ (pc = "timerhandler" => 1 < x)
  BY <1>2, <1>3 DEF ScheduleTimer, Typed
<1>6. ~ Leaving(x)'
  BY <1>3, <1>5 DEF Leaving
<1>7. timers'[x].tag = t
  BY <1>3, <1>4
<1>8. ASSUME NEW j \in 1 .. Len(timers) + 1, j < x
      PROVE  timers'[j] = timers[j] /\ (Leaving(j)' <=> Leaving(j))
  BY <1>3, <1>4, <1>5, <1>8 DEF Leaving
<1>9. ASSUME NEW j \in 1 .. Len(timers) + 1, j > x
      PROVE  timers'[j] = timers[j - 1] /\ (Leaving(j)' <=> Leaving(j - 1))
  <2>1. ~ Leaving(j)'
    BY <1>3, <1>9 DEF Leaving
  <2>2. ~ Leaving(j - 1)
    BY <1>3, <1>5, <1>9 DEF Leaving
  <2> QED BY <1>3, <1>4, <1>9, <2>1, <2>2
<1>10. Len(timers') = Len(timers) + 1
  BY <1>4
<1> QED BY <1>3, <1>6, <1>7, <1>8, <1>9, <1>10

(* What is left of a sequence without its first element.                   *)
LEMMA Popped ==
  ASSUME NEW s \in Seq(Entry), s # <<>>
  PROVE  /\ Len(Tail(s)) = Len(s) - 1 /\ Head(s) = s[1] /\ Len(s) > 0
         /\ \A j \in 1 .. Len(s) - 1 : Tail(s)[j] = s[j + 1]
OBVIOUS

(* A timer that is repeated and was not canceled moves back in the queue;  *)
(* any other leaves it.                                                    *)
LEMMA Returned ==
  ASSUME Typed, TimerReturns
  PROVE  LET again == Head(timers).tag \in Repeating
             kept == again /\ Head(timers).tag \notin canceled
         IN /\ timers # <<>> /\ wanted' = wanted
            /\ \A i \in Nat : ~ Leaving(i)'
            /\ canceled' = IF again THEN canceled \ {timers[1].tag} ELSE canceled
            /\ kept => \E x \in 1 .. Len(timers) :
                 /\ Len(timers') = Len(timers)
                 /\ timers'[x] = timers[1]
                 /\ \A j \in 1 .. Len(timers) :
                      /\ j < x => timers'[j] = timers[j + 1]
                      /\ j > x => timers'[j] = timers[j]
            /\ ~ kept =>
                 /\ Len(timers') = Len(timers) - 1
                 /\ \A j \in 1 .. Len(timers) - 1 : timers'[j] = timers[j + 1]
<1> DEFINE item == Head(timers)
           kept == item.tag \in Repeating /\ item.tag \notin canceled
<1>1. /\ timers \in Seq(Entry) /\ due \in Nat /\ due <= Len(timers)
      /\ pc = "timerhandler" /\ due > 0
  BY DEF Typed, TimerReturns
<1>2. timers # <<>> /\ item = timers[1] /\ item \in Entry
  BY <1>1
<1>3. pc' # "timerhandler"
  BY DEF TimerReturns, KeepEndPoint, DropEndPoint, RemoveClosed, MayAbort
<1>4. CASE kept
  <2>1. PICK i \in Slots(timers) : timers' = Tail(InsertAt(timers, i, item))
    BY <1>4 DEF TimerReturns, Reschedule
  <2> DEFINE s == InsertAt(timers, i, item)
  <2>2. i \in 2 .. Len(timers) + 1 /\ i \in 1 .. Len(timers) + 1
    BY <1>1, <2>1 DEF Slots
  <2>3. /\ s \in Seq(Entry) /\ Len(s) = Len(timers) + 1
        /\ \A j \in 1 .. Len(timers) + 1 :
             s[j] = IF j < i THEN timers[j] ELSE IF j = i THEN item ELSE timers[j - 1]
    <3>1. ASSUME NEW e \in Entry
          PROVE  /\ InsertAt(timers, i, e) \in Seq(Entry)
                 /\ Len(InsertAt(timers, i, e)) = Len(timers) + 1
                 /\ \A j \in 1 .. Len(timers) + 1 :
                      InsertAt(timers, i, e)[j] =
                        IF j < i THEN timers[j] ELSE IF j = i THEN e ELSE timers[j - 1]
      BY <1>1, <2>2, Inserted
    <3> QED BY <1>2, <3>1
  <2> HIDE DEF s
  <2>4. s # <<>>
    BY <1>1, <2>3
  <2>5. Len(timers') = Len(timers) /\ \A j \in 1 .. Len(timers) : timers'[j] = s[j + 1]
    BY <1>1, <2>1, <2>3, <2>4, Popped DEF s
  <2> DEFINE x == i - 1
  <2>6. /\ x \in 1 .. Len(timers)
        /\ timers'[x] = timers[1]
        /\ \A j \in 1 .. Len(timers) :
             /\ j < x => timers'[j] = timers[j + 1]
             /\ j > x => timers'[j] = timers[j]
    <3>1. x \in 1 .. Len(timers) /\ x + 1 = i
      BY <1>1, <2>2
    <3>2. timers'[x] = item
      BY <1>1, <2>2, <2>3, <2>5, <3>1
    <3>3. ASSUME NEW j \in 1 .. Len(timers)
          PROVE  /\ j < x => timers'[j] = timers[j + 1]
                 /\ j > x => timers'[j] = timers[j]
      <4>1. timers'[j] = s[j + 1] /\ j + 1 \in 1 .. Len(timers) + 1 /\ j + 1 - 1 = j
        BY <1>1, <2>5
      <4> QED BY <1>1, <2>2, <2>3, <3>1, <4>1
    <3> QED BY <1>2, <3>1, <3>2, <3>3
  <2>7. canceled' = canceled \ {timers[1].tag} /\ wanted' = wanted
    BY <1>2, <1>4 DEF TimerReturns, Reschedule
  <2>8. \A n \in Nat : ~ Leaving(n)'
    BY <1>3 DEF Leaving
  <2> QED BY <1>2, <1>4, <2>5, <2>6, <2>7, <2>8
<1>5. CASE ~ kept
  <2>1. timers' = Tail(timers)
    BY <1>5 DEF TimerReturns, Reschedule
  <2>2. /\ wanted' = wanted
        /\ canceled' = IF item.tag \in Repeating THEN canceled \ {item.tag} ELSE canceled
    BY DEF TimerReturns, Reschedule
  <2>3. \A i \in Nat : ~ Leaving(i)'
    BY <1>3 DEF Leaving
  <2>4. /\ Len(timers') = Len(timers) - 1
        /\ \A j \in 1 .. Len(timers) - 1 : timers'[j] = timers[j + 1]
    BY <1>1, <1>2, <2>1, Popped
  <2> QED BY <1>2, <1>5, <2>2, <2>3, <2>4
<1> QED BY <1>4, <1>5

(* What dropping a canceled timer does to the queue.                       *)
LEMMA Dropped ==
  ASSUME Typed, DropCanceled, pc' # "timerhandler"
  PROVE  /\ timers # <<>> /\ wanted' = wanted
         /\ timers[1].tag \in canceled /\ canceled' = canceled \ {timers[1].tag}
         /\ \A i \in Nat : ~ Leaving(i)'
         /\ Len(timers') = Len(timers) - 1
         /\ \A j \in 1 .. Len(timers) - 1 : timers'[j] = timers[j + 1]
<1>1. timers \in Seq(Entry) /\ timers # <<>>
  BY DEF Typed, DropCanceled, HeadCanceled
<1> QED BY <1>1, Popped DEF DropCanceled, HeadCanceled, Leaving

(* What waits after a step waited before it, under the same tag, or is new.*)
LEMMA KeepsQueued ==
  ASSUME Typed, Queued, [Next]_vars
  PROVE  Queued'
<1>1. timers \in Seq(Entry) /\ Len(timers) \in Nat
  BY DEF Typed
<1>2. CASE UNCHANGED timerVars /\ (pc' = "timerhandler" <=> pc = "timerhandler")
  BY <1>2 DEF timerVars, Queued, Leaving
<1>3. ASSUME NEW t \in Tags, NEW p \in TimerEndPoints, ScheduleTimer(t, p)
      PROVE  Queued'
  <2>1. PICK x \in 1 .. Len(timers) + 1 :
           /\ Len(timers') = Len(timers) + 1
           /\ timers'[x].tag = t /\ ~ Leaving(x)'
           /\ \A j \in 1 .. Len(timers) + 1 :
                /\ j < x => timers'[j] = timers[j] /\ (Leaving(j)' <=> Leaving(j))
                /\ j > x => timers'[j] = timers[j - 1] /\ (Leaving(j)' <=> Leaving(j - 1))
    BY <1>3, Scheduled
  <2>2. /\ \A i \in 1 .. Len(timers) : timers[i].tag = t => Leaving(i)
        /\ wanted' = wanted \cup {t} /\ canceled' = canceled
    BY <1>1, <1>3 DEF ScheduleTimer, Waiting
  <2> DEFINE back(j) == IF j < x THEN j ELSE j - 1
  <2>3. ASSUME NEW j \in 1 .. Len(timers) + 1, j # x
        PROVE  /\ back(j) \in 1 .. Len(timers)
               /\ timers'[j] = timers[back(j)] /\ (Leaving(j)' <=> Leaving(back(j)))
    BY <1>1, <2>1, <2>3
  <2>4. ASSUME NEW j \in 1 .. Len(timers) + 1, NEW k \in 1 .. Len(timers) + 1,
               j # x, k # x, back(j) = back(k)
        PROVE  j = k
    BY <1>1, <2>4
  <2> HIDE DEF back
  <2>5. ASSUME NEW j \in 1 .. Len(timers) + 1, NEW k \in 1 .. Len(timers) + 1,
               ~ Leaving(j)', ~ Leaving(k)', timers'[j].tag = timers'[k].tag
        PROVE  j = k
    <3>1. CASE j # x /\ k # x
      BY <1>1, <2>3, <2>4, <2>5, <3>1 DEF Queued
    <3>2. CASE j = x \/ k = x
      BY <1>1, <2>1, <2>2, <2>3, <2>5, <3>2
    <3> QED BY <3>1, <3>2
  <2>6. ASSUME NEW j \in 1 .. Len(timers) + 1, ~ Leaving(j)'
        PROVE  timers'[j].tag \in wanted' \cup canceled'
    BY <1>1, <2>1, <2>2, <2>3, <2>6 DEF Queued
  <2>7. DOMAIN timers' = 1 .. Len(timers) + 1
    BY <1>3, <2>1, QueueKeepsType
  <2> QED BY <2>5, <2>6, <2>7 DEF Queued
<1>4. ASSUME NEW t \in Tags, NEW p \in TimerEndPoints, CancelTimer(t, p)
      PROVE  Queued'
  BY <1>4 DEF CancelTimer, Queued, Leaving
<1>5. timers' \in Seq(Entry) /\ DOMAIN timers' = 1 .. Len(timers')
  BY QueueKeepsType
<1>6. CASE DropCanceled /\ pc # "timerhandler" /\ pc' # "timerhandler"
  <2>1. \A i \in Nat : ~ Leaving(i) /\ ~ Leaving(i)'
    BY <1>6 DEF Leaving
  <2>2. /\ Len(timers') = Len(timers) - 1 /\ wanted' = wanted
        /\ canceled' = canceled \ {timers[1].tag} /\ 1 <= Len(timers)
        /\ \A j \in 1 .. Len(timers) - 1 : timers'[j] = timers[j + 1]
    BY <1>1, <1>6, Dropped
  <2>3. ASSUME NEW j \in 1 .. Len(timers')
        PROVE  /\ j + 1 \in 1 .. Len(timers) /\ timers'[j] = timers[j + 1]
               /\ timers[j + 1].tag # timers[1].tag
    BY <1>1, <2>1, <2>2 DEF Queued
  <2>4. ASSUME NEW j \in 1 .. Len(timers'), NEW k \in 1 .. Len(timers'),
               timers'[j].tag = timers'[k].tag
        PROVE  j = k
    BY <1>1, <2>1, <2>3, <2>4 DEF Queued
  <2>5. ASSUME NEW j \in 1 .. Len(timers')
        PROVE  timers'[j].tag \in wanted' \cup canceled'
    BY <1>1, <2>1, <2>2, <2>3 DEF Queued
  <2> QED BY <1>5, <2>4, <2>5 DEF Queued
<1>7. CASE CallTimer
  <2>0. timers # <<>> /\ Head(timers) = timers[1]
    <3>1. due \in 0 .. Len(timers) /\ due > 0
      BY <1>7 DEF CallTimer, Typed
    <3> QED BY <1>1, <3>1
  <2>1. /\ timers' = timers /\ canceled' = canceled /\ timers # <<>>
        /\ wanted' = IF timers[1].tag \in Repeating THEN wanted
                     ELSE wanted \ {timers[1].tag}
        /\ pc = "timeouts" /\ pc' = "timerhandler"
    BY <1>7, <2>0 DEF CallTimer, RunTimerHandler
  <2>2. /\ \A i \in Nat : ~ Leaving(i)
        /\ \A i \in Nat : Leaving(i)' <=> i = 1 /\ timers[1].tag \notin Repeating
    BY <2>1 DEF Leaving
  <2> QED BY <1>1, <2>1, <2>2 DEF Queued
<1>8. CASE TimerReturns
  <2>1. \A i \in Nat : Leaving(i) <=> i = 1 /\ timers[1].tag \notin Repeating
    BY <1>8 DEF TimerReturns, Leaving
  <2> DEFINE kept == timers[1].tag \in Repeating /\ timers[1].tag \notin canceled
  <2>2. Head(timers) = timers[1] /\ timers # <<>> /\ Len(timers) > 0
    BY <1>1, <1>8, Returned
  <2>3. /\ wanted' = wanted /\ \A i \in Nat : ~ Leaving(i)'
        /\ canceled' = IF timers[1].tag \in Repeating THEN canceled \ {timers[1].tag}
                       ELSE canceled
    BY <1>1, <1>8, <2>2, Returned
  <2>4. \A i, j \in 1 .. Len(timers) :
          ~ Leaving(i) /\ ~ Leaving(j) /\ timers[i].tag = timers[j].tag => i = j
    BY <1>1 DEF Queued
  <2>5. \A i \in 1 .. Len(timers) :
          ~ Leaving(i) => timers[i].tag \in wanted \cup canceled
    BY <1>1 DEF Queued
  <2>6. CASE kept
    <3>1. PICK x \in 1 .. Len(timers) :
             /\ Len(timers') = Len(timers)
             /\ timers'[x] = timers[1]
             /\ \A j \in 1 .. Len(timers) :
                  /\ j < x => timers'[j] = timers[j + 1]
                  /\ j > x => timers'[j] = timers[j]
      BY <1>8, <2>2, <2>6, Returned
    <3> DEFINE back(j) == IF j < x THEN j + 1 ELSE IF j = x THEN 1 ELSE j
    <3>2. ASSUME NEW j \in 1 .. Len(timers)
          PROVE  back(j) \in 1 .. Len(timers) /\ timers'[j] = timers[back(j)]
      BY <1>1, <3>1
    <3>3. ASSUME NEW j \in 1 .. Len(timers), NEW k \in 1 .. Len(timers),
                 back(j) = back(k)
          PROVE  j = k
      BY <1>1, <3>3
    <3> HIDE DEF back
    <3>4. \A i \in 1 .. Len(timers) : ~ Leaving(i)
      BY <1>1, <2>1, <2>6
    <3>5. \A i, j \in 1 .. Len(timers) : timers'[i].tag = timers'[j].tag => i = j
      BY <2>4, <3>2, <3>3, <3>4
    <3>6. \A i \in 1 .. Len(timers) : timers'[i].tag \in wanted \cup canceled'
      BY <2>2, <2>3, <2>5, <2>6, <3>2, <3>4
    <3> QED BY <1>5, <2>3, <3>1, <3>5, <3>6 DEF Queued
  <2>7. CASE ~ kept
    <3>1. /\ Len(timers') = Len(timers) - 1
          /\ \A j \in 1 .. Len(timers') : timers'[j] = timers[j + 1]
      BY <1>1, <1>8, <2>2, <2>7, Returned
    <3>2. ASSUME NEW j \in 1 .. Len(timers')
          PROVE  /\ j + 1 \in 1 .. Len(timers) /\ ~ Leaving(j + 1)
                 /\ timers'[j] = timers[j + 1]
                 /\ timers[1].tag \in Repeating => timers[j + 1].tag # timers[1].tag
      BY <1>1, <2>1, <2>2, <2>4, <3>1
    <3>3. \A i, j \in 1 .. Len(timers') : timers'[i].tag = timers'[j].tag => i = j
      BY <1>1, <2>4, <3>1, <3>2
    <3>4. \A i \in 1 .. Len(timers') : timers'[i].tag \in wanted \cup canceled'
      BY <2>3, <2>5, <3>2
    <3> QED BY <1>5, <2>3, <3>3, <3>4 DEF Queued
  <2> QED BY <2>6, <2>7
<1> QED BY <1>2, <1>3, <1>4, <1>6, <1>7, <1>8, TimerKinds DEF TimerEffect

(* The invariants of the timers hold at the start.                         *)
LEMMA InitQueued == Init => Queued /\ NoLeftOver
BY DEF Init, Queued, NoLeftOver, Waiting

(* A timer is waiting for as long as its entry is in the queue.            *)
LEMMA StillWaiting ==
  ASSUME Typed, Queued, [Next]_vars, NEW t, Waiting(t), ~ Waiting(t)'
  PROVE  \/ /\ t \in canceled /\ t \notin canceled' /\ timers # <<>> /\ t = timers[1].tag
            /\ DropCanceled \/ TimerReturns
         \/ CallTimer /\ t \notin wanted' /\ t \notin canceled
<1>1. timers \in Seq(Entry) /\ Len(timers) \in Nat
  BY DEF Typed
<1>2. PICK i \in 1 .. Len(timers) : timers[i].tag = t /\ ~ Leaving(i)
  BY <1>1 DEF Waiting
<1>3. timers' \in Seq(Entry) /\ DOMAIN timers' = 1 .. Len(timers')
  BY QueueKeepsType
<1>4. \A j \in 1 .. Len(timers') : timers'[j].tag = t => Leaving(j)'
  BY <1>3 DEF Waiting
<1>5. CASE UNCHANGED timerVars /\ (pc' = "timerhandler" <=> pc = "timerhandler")
  BY <1>1, <1>2, <1>4, <1>5 DEF timerVars, Leaving
<1>6. ASSUME NEW tag \in Tags, NEW p \in TimerEndPoints, ScheduleTimer(tag, p)
      PROVE  FALSE
  <2>1. PICK x \in 1 .. Len(timers) + 1 :
           /\ Len(timers') = Len(timers) + 1
           /\ \A j \in 1 .. Len(timers) + 1 :
                /\ j < x => timers'[j] = timers[j] /\ (Leaving(j)' <=> Leaving(j))
                /\ j > x => timers'[j] = timers[j - 1] /\ (Leaving(j)' <=> Leaving(j - 1))
    BY <1>6, Scheduled
  <2>2. CASE i < x
    BY <1>1, <1>2, <1>4, <2>1, <2>2
  <2>3. CASE i >= x
    <3>1. i + 1 \in 1 .. Len(timers) + 1 /\ i + 1 > x /\ i + 1 - 1 = i
      BY <1>1, <2>3
    <3>2. timers'[i + 1] = timers[i] /\ ~ Leaving(i + 1)'
      BY <1>2, <2>1, <3>1
    <3> QED BY <1>2, <1>4, <2>1, <3>1, <3>2
  <2> QED BY <1>1, <2>2, <2>3
<1>7. ASSUME NEW tag \in Tags, NEW p \in TimerEndPoints, CancelTimer(tag, p)
      PROVE  FALSE
  BY <1>1, <1>2, <1>4, <1>7 DEF CancelTimer, Leaving
<1>8. CASE DropCanceled /\ pc # "timerhandler" /\ pc' # "timerhandler"
  <2>1. /\ timers # <<>>
        /\ timers[1].tag \in canceled /\ canceled' = canceled \ {timers[1].tag}
        /\ \A j \in Nat : ~ Leaving(j)'
        /\ Len(timers') = Len(timers) - 1
        /\ \A j \in 1 .. Len(timers) - 1 : timers'[j] = timers[j + 1]
    BY <1>8, Dropped
  <2>2. CASE i = 1
    BY <1>2, <1>8, <2>1, <2>2
  <2>3. CASE i # 1
    <3>1. i - 1 \in 1 .. Len(timers') /\ i - 1 + 1 = i
      BY <1>1, <2>1, <2>3
    <3>2. timers'[i - 1] = timers[i]
      BY <2>1, <3>1
    <3> QED BY <1>2, <1>4, <2>1, <3>1, <3>2
  <2> QED BY <2>2, <2>3
<1>9. CASE CallTimer
  <2>1. timers' = timers /\ pc # "timerhandler" /\ pc' = "timerhandler"
    BY <1>9 DEF CallTimer, RunTimerHandler
  <2>2. i = 1 /\ timers[1].tag \notin Repeating
    BY <1>1, <1>2, <1>4, <2>1 DEF Leaving
  <2>3. Head(timers) = timers[1]
    BY <1>1, <1>2
  <2> QED BY <1>2, <1>9, <2>2, <2>3 DEF CallTimer, RunTimerHandler, HeadCanceled
<1>10. CASE TimerReturns
  <2>1. /\ timers # <<>> /\ Head(timers) = timers[1]
        /\ \A j \in Nat : ~ Leaving(j)'
        /\ canceled' = IF timers[1].tag \in Repeating THEN canceled \ {timers[1].tag}
                       ELSE canceled
    BY <1>1, <1>10, Returned
  <2>2. i = 1 => timers[1].tag \in Repeating
    BY <1>2, <1>10 DEF TimerReturns, Leaving
  <2>3. CASE timers[1].tag \in Repeating /\ timers[1].tag \notin canceled
    <3>1. PICK x \in 1 .. Len(timers) :
             /\ Len(timers') = Len(timers)
             /\ timers'[x] = timers[1]
             /\ \A j \in 1 .. Len(timers) :
                  /\ j < x => timers'[j] = timers[j + 1]
                  /\ j > x => timers'[j] = timers[j]
      BY <1>10, <2>1, <2>3, Returned
    <3>2. CASE i = 1
      BY <1>1, <1>2, <1>4, <2>1, <3>1, <3>2
    <3>3. CASE i # 1 /\ i <= x
      <4>1. i - 1 \in 1 .. Len(timers) /\ i - 1 < x /\ i - 1 + 1 = i
        BY <1>1, <3>3
      <4>2. timers'[i - 1] = timers[i]
        BY <3>1, <4>1
      <4> QED BY <1>1, <1>2, <1>4, <2>1, <3>1, <4>1, <4>2
    <3>4. CASE i > x
      BY <1>1, <1>2, <1>4, <2>1, <3>1, <3>4
    <3> QED BY <1>1, <3>2, <3>3, <3>4
  <2>4. CASE ~ (timers[1].tag \in Repeating /\ timers[1].tag \notin canceled)
    <3>1. /\ Len(timers') = Len(timers) - 1
          /\ \A j \in 1 .. Len(timers) - 1 : timers'[j] = timers[j + 1]
      BY <1>10, <2>1, <2>4, Returned
    <3>2. CASE i = 1
      BY <1>2, <1>10, <2>1, <2>2, <2>4, <3>2
    <3>3. CASE i # 1
      <4>1. i - 1 \in 1 .. Len(timers') /\ i - 1 + 1 = i
        BY <1>1, <3>1, <3>3
      <4>2. timers'[i - 1] = timers[i]
        BY <3>1, <4>1
      <4> QED BY <1>2, <1>4, <2>1, <4>1, <4>2
    <3> QED BY <3>2, <3>3
  <2> QED BY <2>3, <2>4
<1> QED
  BY <1>5, <1>6, <1>7, <1>8, <1>9, <1>10, TimerKinds DEF TimerEffect

(* If only waiting timers are canceled, a request goes when its timer      *)
(* does.                                                                   *)
LEMMA KeepsRequests ==
  ASSUME Typed, Queued, NoLeftOver, "cancel" \notin Liberties, [Next]_vars
  PROVE  NoLeftOver'
<1>1. ASSUME NEW t \in Tags, NEW p \in TimerEndPoints, ScheduleTimer(t, p)
      PROVE  /\ t \notin canceled /\ canceled' = canceled
             /\ wanted' = wanted \cup {t}
  BY <1>1 DEF ScheduleTimer, NoLeftOver
<1>2. ASSUME NEW t \in Tags, NEW p \in TimerEndPoints, CancelTimer(t, p)
      PROVE  /\ wanted' = wanted \ {t} /\ canceled' = canceled \cup {t}
             /\ Waiting(t)'
  <2>1. Waiting(t) /\ UNCHANGED <<pc, timers>>
    BY <1>2 DEF CancelTimer
  <2> QED BY <1>2, <2>1 DEF CancelTimer, Waiting, Leaving
<1>3. ASSUME DropCanceled \/ CallTimer \/ TimerReturns \/ UNCHANGED timerVars
      PROVE  wanted' \subseteq wanted /\ canceled' \subseteq canceled
  <2>1. TimerReturns => wanted' = wanted /\ canceled' \subseteq canceled
    BY DEF TimerReturns, Reschedule
  <2> QED BY <1>3, <2>1 DEF DropCanceled, CallTimer, RunTimerHandler, timerVars
<1>4. wanted' \cap canceled' = {}
  BY <1>1, <1>2, <1>3, TimerKinds DEF TimerEffect, NoLeftOver
<1>5. ASSUME NEW t \in canceled', ~ Waiting(t)' PROVE FALSE
  <2>1. t \in canceled
    BY <1>1, <1>2, <1>3, <1>5, TimerKinds DEF TimerEffect
  <2>2. Waiting(t)
    BY <2>1 DEF NoLeftOver
  <2> QED BY <1>5, <2>1, <2>2, StillWaiting
<1> QED BY <1>4, <1>5 DEF NoLeftOver

(* The queue of timers is in order whatever the handlers do.               *)
THEOREM QueuedHolds == Spec => []Queued
<1>1. Init => Queued
  BY InitQueued
<1>2. Base /\ Queued /\ [Next]_vars => Queued'
  BY KeepsQueued DEF Base
<1> QED BY <1>1, <1>2, BaseHolds, PTL DEF Spec

(* No handler runs for a timer that was canceled.                          *)
THEOREM CanceledStayQuiet == Spec => CanceledStaysQuiet
<1>1. ASSUME Base, Queued, [Next]_vars
      PROVE  pc # "timerhandler" /\ pc' = "timerhandler" => Head(timers).tag \in wanted
  <2> SUFFICES ASSUME pc # "timerhandler", pc' = "timerhandler"
               PROVE  Head(timers).tag \in wanted
    OBVIOUS
  <2>1. CallTimer
    BY <1>1, TimerKinds DEF TimerEffect, ScheduleTimer, CancelTimer, TimerReturns
  <2>2. timers \in Seq(Entry) /\ due \in 0 .. Len(timers) /\ due > 0
    BY <1>1, <2>1 DEF CallTimer, Base, Typed
  <2>3. timers # <<>> /\ 1 \in DOMAIN timers /\ Head(timers) = timers[1]
    BY <2>2
  <2>4. ~ Leaving(1) /\ timers[1].tag \notin canceled
    BY <2>1, <2>3 DEF CallTimer, Leaving, HeadCanceled
  <2> QED BY <1>1, <2>3, <2>4 DEF Queued
<1> QED BY <1>1, BaseHolds, QueuedHolds, PTL DEF Spec, CanceledStaysQuiet

(* If the program cancels only timers that wait, no timer is lost.         *)
THEOREM WantedFire ==
  ASSUME "cancel" \notin Liberties
  PROVE  Spec => WantedFires
<1>1. Init => NoLeftOver
  BY InitQueued
<1>2. Base /\ Queued /\ NoLeftOver /\ [Next]_vars => NoLeftOver'
  BY KeepsRequests DEF Base
<1>3. ASSUME Base, Queued, NoLeftOver, [Next]_vars
      PROVE  \A t \in wanted : Waiting(t) /\ ~Waiting(t)' => t \notin wanted'
  BY <1>3, StillWaiting DEF Base, NoLeftOver
<1> QED
  BY <1>1, <1>2, <1>3, BaseHolds, QueuedHolds, PTL DEF Spec, WantedFires
-----------------------------------------------------------------------------
(* What is left of a round after an event was taken from it.               *)
LEMMA Dispatched ==
  ASSUME Typed, InRound, NEW k \in ready, Dispatch(k)
  PROVE  /\ ready' = ready \ {k} /\ socket' = k[1] /\ k \in Keys
         /\ HandlerOf(k) # None \/ endpoints[k[1]] = None
         /\ \A j \in ready' :
              /\ HandlerOf(j) # None \/ (j[1] = k[1] /\ endpoints[k[1]] = None)
              /\ mode = "select" => k[1] <= j[1]
<1>1. /\ ready \subseteq Keys /\ mode \in {"select", "epoll"}
      /\ k \in NextKeys /\ k \in Pending /\ pc = "io"
      /\ ready' = ready \ {k} /\ socket' = k[1]
  BY DEF Typed, Dispatch, NextKeys
<1>2. \A j \in ready : j[1] \in Int
  BY <1>1 DEF Keys, Fds
<1>3. \A j \in ready :
        /\ HandlerOf(j) # None \/ (j[1] = socket /\ endpoints[socket] = None)
        /\ mode = "select" => socket <= j[1]
  BY <1>1 DEF InRound
<1>4. ASSUME NEW j \in ready, j # k, mode = "select" PROVE k[1] <= j[1]
  <2>1. CASE j \in Pending
    BY <1>1, <1>2, <1>4, <2>1 DEF NextKeys, Before
  <2>2. CASE j \notin Pending
    BY <1>1, <1>3, <1>4, <2>2 DEF Pending
  <2> QED BY <2>1, <2>2
<1>5. ASSUME NEW j \in ready, j[1] = socket PROVE k[1] = socket
  <2>1. j \in Pending
    BY <1>5 DEF Pending
  <2>2. CASE mode = "select"
    <3>1. socket <= k[1] /\ (j = k \/ k[1] <= j[1])
      BY <1>3, <1>4, <2>2
    <3> QED BY <1>2, <1>5, <3>1
  <2>3. CASE mode = "epoll"
    BY <1>1, <1>5, <2>1, <2>3 DEF NextKeys
  <2> QED BY <1>1, <2>2, <2>3
<1> QED BY <1>1, <1>3, <1>4, <1>5

(* For a modest program the events left in a round keep their handlers.    *)
LEMMA KeepsRound ==
  ASSUME Modest, Base, Strict, InRound, [Next]_vars
  PROVE  InRound'
<1> USE DEF tableVars, flagVars, loopVars
<1>0. /\ Typed /\ Agreed /\ RemovedIsClosed /\ TablesTyped /\ Handled /\ OneOwner
      /\ None \notin EndPoints /\ "write" \notin Opers
  BY DEF Base, Strict, Typed, TablesTyped, Modest
<1>1. ready \subseteq Keys /\ \A k \in ready : k[1] \in Fds /\ k[2] \in AllOpers
  BY <1>0 DEF Typed, Keys
<1>2. CASE UNCHANGED <<ready, socket, mode, endpoints, handlers, sock, running, pc>>
  BY <1>2 DEF InRound, HandlerOf
<1>3. CASE pc' \notin {"io", "handler"}
  BY <1>3 DEF InRound
<1>4. CASE ProgramStep
  <2>1. CASE pc # "handler"
    <3>1. pc' = pc /\ pc # "io"
      BY <1>4, <2>1
         DEF ProgramStep, RegisterEndPoint, RemoveOther, RegisterHandler,
             UnregisterHandler, ScheduleTimer, CancelTimer, CloseOwn, CloseClient,
             SetDone, InProgram, InHandler
    <3> QED BY <1>3, <2>1, <3>1
  <2>2. CASE pc = "handler"
    <3>1. /\ UNCHANGED <<ready, socket, mode, running, pc>>
      BY <1>4
         DEF ProgramStep, RegisterEndPoint, RemoveOther, RegisterHandler,
             UnregisterHandler, ScheduleTimer, CancelTimer, CloseOwn, CloseClient,
             SetDone
    <3>2. /\ sock[running] = socket /\ endpoints[socket] = running
          /\ running \in EndPoints /\ running # client /\ socket \in Fds
      BY <1>0, <2>2 DEF InRound, RemovedIsClosed, Typed
    <3>3. ASSUME NEW p \in EndPoints, RegisterEndPoint(p) PROVE InRound'
      <4>1. endpoints'[socket] = endpoints[socket] /\ UNCHANGED <<sock, handlers>>
        BY <1>0, <3>2, <3>3 DEF RegisterEndPoint, TablesTyped
      <4> QED BY <2>2, <3>1, <3>2, <4>1 DEF InRound, HandlerOf
    <3>4. ASSUME NEW p \in EndPoints, NEW o \in Opers, RegisterHandler(p, o)
          PROVE  InRound'
      <4>1. /\ handlers' = [handlers EXCEPT ![sock[p]][o] = p]
            /\ UNCHANGED <<sock, endpoints>>
        BY <3>4 DEF RegisterHandler
      <4>2. \A k \in ready : HandlerOf(k) # None => HandlerOf(k)' # None
        BY <1>0, <1>1, <3>1, <4>1 DEF HandlerOf, TablesTyped
      <4> QED BY <2>2, <3>1, <3>2, <4>1, <4>2 DEF InRound
    <3>5. CASE CloseClient
      <4>1. UNCHANGED <<endpoints, handlers>> /\ sock' = [sock EXCEPT ![client] = Closed]
        BY <3>5 DEF CloseClient
      <4>2. sock'[running] = sock[running]
        BY <1>0, <3>2, <4>1 DEF TablesTyped
      <4> QED BY <2>2, <3>1, <3>2, <4>1, <4>2 DEF InRound, HandlerOf
    <3>6. ~ CloseOwn /\ \A p \in EndPoints : ~ RemoveOther(p)
      BY DEF Modest, CloseOwn, RemoveOther
    <3>7. \A p \in EndPoints, o \in Opers : ~ UnregisterHandler(p, o)
      BY <2>2 DEF Modest, UnregisterHandler
    <3>8. ASSUME \/ \E t \in Tags, p \in TimerEndPoints :
                      ScheduleTimer(t, p) \/ CancelTimer(t, p)
                 \/ SetDone
          PROVE  InRound'
      BY <1>2, <3>1, <3>8 DEF ScheduleTimer, CancelTimer, SetDone
    <3> QED BY <1>4, <3>3, <3>4, <3>5, <3>6, <3>7, <3>8 DEF ProgramStep
  <2> QED BY <2>1, <2>2
<1>5. CASE \/ Start \/ StopLoop \/ SkipCanceled \/ CallSelect \/ SelectInterrupted
           \/ SelectFails \/ SelectTimesOut \/ LeaveIO \/ LeaveTimeouts
           \/ SkipDueTimer \/ CallTimer \/ TimerReturns \/ Finish
  <2>1. pc' \notin {"io", "handler"}
    BY <1>5 DEF Start, StopLoop, SkipCanceled, CallSelect, SelectInterrupted,
         SelectFails, SelectTimesOut, LeaveIO, LeaveTimeouts, SkipDueTimer,
         CallTimer, RunTimerHandler, TimerReturns, KeepEndPoint, DropEndPoint,
         RemoveClosed, MayAbort, Finish
  <2> QED BY <1>3, <2>1
<1>6. CASE SelectReady
  <2>1. /\ ready' \subseteq Passed /\ socket' = -1 /\ pc' = "io"
        /\ UNCHANGED <<handlers, mode>>
    BY <1>6 DEF SelectReady
  <2>2. ASSUME NEW k \in Passed PROVE HandlerOf(k) # None /\ -1 <= k[1]
    <3>1. k \in Keys /\ k[1] \in Watched(k[2]) /\ k[1] \in 0 .. MaxFd /\ k[2] \in AllOpers
      BY DEF Passed, Keys, Fds
    <3>2. k[2] \in Flags(k[1]) /\ (mode = "select" \/ interest[k[1]] # {})
      BY <1>0, <3>1 DEF Watched, Flags, Handled, Typed, Fds
    <3> QED BY <1>0, <3>1, <3>2 DEF Handled, HandlerOf, Fds
  <2> QED BY <2>1, <2>2 DEF InRound, HandlerOf
<1>7. ASSUME NEW k \in ready, HandlerOf(k) # None, pc = "io"
      PROVE  /\ HandlerOf(k) \in EndPoints /\ endpoints[k[1]] = HandlerOf(k)
             /\ sock[HandlerOf(k)] = k[1] /\ k[1] # Closed
  BY <1>0, <1>1, <1>7 DEF Agreed, HandlerOf, TablesTyped, Fds, Closed
<1>8. ASSUME NEW k \in ready, CallHandler(k) \/ AcceptRetry(k) PROVE InRound'
  <2>1. /\ Dispatch(k) /\ HandlerOf(k) # None /\ pc = "io"
        /\ UNCHANGED <<sock, endpoints, handlers, mode>>
        /\ pc' = "handler" => running' = HandlerOf(k)
    BY <1>8 DEF CallHandler, AcceptRetry, Dispatch
  <2> QED BY <1>0, <1>7, <2>1, Dispatched DEF InRound, HandlerOf
<1>9. ASSUME NEW k \in ready, NEW p \in EndPoints, Accept(k, p) PROVE InRound'
  <2>1. PICK fd \in Fds : sock' = [sock EXCEPT ![p] = fd]
    BY <1>9 DEF Accept
  <2>2. /\ Dispatch(k) /\ HandlerOf(k) # None /\ pc = "io"
        /\ UNCHANGED <<endpoints, handlers, mode>>
        /\ running' = HandlerOf(k) /\ HandlerOf(k) # p
    BY <1>9 DEF Accept, Dispatch, IsAccept, Fresh
  <2>3. sock'[running'] = k[1]
    BY <1>0, <1>7, <2>1, <2>2 DEF TablesTyped
  <2> QED BY <1>0, <1>7, <2>2, <2>3, Dispatched DEF InRound, HandlerOf
<1>10. ASSUME NEW k \in ready, AcceptFails(k) PROVE InRound'
  <2>1. /\ Dispatch(k) /\ HandlerOf(k) # None /\ pc = "io" /\ UNCHANGED mode
        /\ pc' = "io" /\ Discard(HandlerOf(k))
    BY <1>7, <1>10 DEF AcceptFails, Dispatch
  <2>2. /\ endpoints' = [endpoints EXCEPT ![k[1]] = None]
        /\ handlers' = [handlers EXCEPT ![k[1]] = [o \in AllOpers |-> None]]
    BY <1>7, <2>1 DEF Discard, Forget
  <2>3. /\ ready' = ready \ {k} /\ socket' = k[1]
        /\ endpoints'[k[1]] = None
        /\ \A j \in ready' : j[1] = k[1] \/ HandlerOf(j)' = HandlerOf(j)
    BY <1>0, <1>1, <2>1, <2>2, Dispatched DEF HandlerOf, TablesTyped
  <2> QED BY <1>0, <2>1, <2>3, Dispatched DEF InRound
<1>11. ASSUME NEW k \in ready, NoHandler(k)
       PROVE  InRound' /\ UNCHANGED sock
  <2>1. /\ Dispatch(k) /\ HandlerOf(k) = None /\ pc = "io" /\ UNCHANGED mode
        /\ RemoveEndPoint(k[1], endpoints[k[1]])
    BY <1>11 DEF NoHandler, Dispatch
  <2>2. endpoints[k[1]] = None
    BY <1>0, <2>1, Dispatched
  <2>3. UNCHANGED <<sock, endpoints, handlers>> /\ pc' = pc
    BY <2>1, <2>2 DEF RemoveEndPoint
  <2> QED BY <1>0, <2>1, <2>2, <2>3, Dispatched DEF InRound, HandlerOf
<1>12. CASE HandlerReturns
  <2>1. /\ sock[running] = socket /\ endpoints[socket] = running
        /\ running \in EndPoints /\ socket \in Fds /\ pc = "handler"
        /\ UNCHANGED <<ready, socket, mode>>
    BY <1>0, <1>12 DEF InRound, RemovedIsClosed, Typed, HandlerReturns
  <2>2. CASE KeepEndPoint("io")
    BY <2>1, <2>2 DEF InRound, KeepEndPoint, HandlerOf
  <2>3. CASE DropEndPoint("io")
    <3>1. pc' = "io" /\ Discard(running)
      BY <1>0, <2>1, <2>3 DEF DropEndPoint, RemovedIsClosed
    <3>2. /\ endpoints' = [endpoints EXCEPT ![socket] = None]
          /\ handlers' = [handlers EXCEPT ![socket] = [o \in AllOpers |-> None]]
      BY <2>1, <3>1 DEF Discard, Forget
    <3>3. endpoints'[socket] = None
          /\ \A k \in ready : k[1] = socket \/ HandlerOf(k)' = HandlerOf(k)
      BY <1>0, <1>1, <2>1, <3>2 DEF HandlerOf, TablesTyped
    <3> QED BY <2>1, <3>1, <3>3 DEF InRound
  <2> QED BY <1>12, <2>2, <2>3 DEF HandlerReturns
<1>13. CASE UNCHANGED vars
  BY <1>2, <1>13 DEF vars
<1> QED
  BY <1>4, <1>5, <1>6, <1>8, <1>9, <1>10, <1>11, <1>12, <1>13 DEF Next, LoopStep

(* For a modest program each event left in a round has its handler still,  *)
(* unless it is of the descriptor at hand, whose end point was removed.    *)
THEOREM RoundHolds ==
  ASSUME Modest
  PROVE  Spec => []InRound
<1>1. Init => InRound
  BY DEF Init, InRound
<1> QED BY <1>1, KeepsRound, BaseHolds, StrictHolds, PTL DEF Spec

(* The reactor closes only end points whose handlers ask for it.           *)
THEOREM ClosedOnRequest ==
  ASSUME Modest
  PROVE  Spec => NoSpuriousClose
<1>1. ASSUME Base, Strict, InRound, [Next]_vars, NEW p \in EndPoints,
             Registered(p), sock'[p] = Closed
      PROVE  p \in removed' \/ pc' = "finished"
  <2> USE DEF tableVars
  <2>1. TablesTyped /\ sock[p] # Closed
    BY <1>1 DEF Base, Typed, TablesTyped, Registered
  <2>2. CASE UNCHANGED sock
    BY <1>1, <2>1, <2>2
  <2>3. ASSUME NEW next, DropEndPoint(next) PROVE p \in removed'
    BY <1>1, <2>1, <2>3 DEF DropEndPoint, Discard, RemoveClosed, TablesTyped
  <2>4. CASE ProgramStep
    <3>1. ASSUME CloseClient PROVE FALSE
      <4>1. sock' = [sock EXCEPT ![client] = Closed] /\ endpoints[sock[client]] # client
        BY <3>1 DEF CloseClient
      <4> QED BY <1>1, <2>1, <4>1 DEF TablesTyped, Registered
    <3>2. ~ CloseOwn /\ \A q \in EndPoints : ~ RemoveOther(q)
      BY DEF Modest, CloseOwn, RemoveOther
    <3> QED
      BY <2>2, <2>4, <3>1, <3>2
         DEF ProgramStep, RegisterEndPoint, RegisterHandler, UnregisterHandler,
             ScheduleTimer, CancelTimer, SetDone
  <2>5. CASE HandlerReturns \/ TimerReturns
    BY <2>2, <2>3, <2>5 DEF HandlerReturns, TimerReturns, KeepEndPoint
  <2>6. CASE \/ Start \/ StopLoop \/ SkipCanceled \/ CallSelect \/ SelectInterrupted
             \/ SelectFails \/ SelectReady \/ SelectTimesOut \/ LeaveIO
             \/ LeaveTimeouts \/ SkipDueTimer \/ CallTimer
             \/ \E k \in ready : CallHandler(k) \/ AcceptRetry(k)
    BY <2>2, <2>6 DEF Start, StopLoop, SkipCanceled, CallSelect, SelectInterrupted,
         SelectFails, SelectReady, SelectTimesOut, LeaveIO, LeaveTimeouts,
         SkipDueTimer, CallTimer, RunTimerHandler, CallHandler, AcceptRetry
  <2>7. ASSUME NEW k \in ready, NEW q \in EndPoints, Accept(k, q) PROVE FALSE
    <3>1. PICK fd \in Fds : sock' = [sock EXCEPT ![q] = fd]
      BY <2>7 DEF Accept
    <3> QED BY <1>1, <2>1, <3>1 DEF TablesTyped, Fds, Closed
  <2>8. ASSUME NEW k \in ready, AcceptFails(k) PROVE p \in removed'
    BY <1>1, <2>1, <2>8 DEF AcceptFails, Discard, RemoveClosed, TablesTyped
  <2>9. ASSUME NEW k \in ready, NoHandler(k) PROVE UNCHANGED sock
    <3>1. endpoints[k[1]] = None
      BY <1>1, <2>9, Dispatched DEF NoHandler, Base
    <3> QED BY <2>9, <3>1 DEF NoHandler, RemoveEndPoint
  <2>10. CASE Finish
    BY <2>10 DEF Finish
  <2>11. CASE UNCHANGED vars
    BY <2>2, <2>11 DEF vars
  <2> QED
    BY <1>1, <2>2, <2>4, <2>5, <2>6, <2>7, <2>8, <2>9, <2>10, <2>11
       DEF Next, LoopStep
<1>2. ASSUME Base, Strict, InRound, [Next]_vars
      PROVE  \A p \in EndPoints : Registered(p) /\ sock'[p] = Closed
               => p \in removed' \/ pc' = "finished"
  BY <1>1, <1>2
<1> QED
  BY <1>2, BaseHolds, StrictHolds, RoundHolds, PTL DEF Spec, NoSpuriousClose
=============================================================================
